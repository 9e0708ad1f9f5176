-------------------------- MODULE MediaDispatchProofs --------------------------
(***************************************************************************)
(* For every number of things to buy, overlapping ticks and requests, and   *)
(* every ceiling: nothing is bought twice, the ceiling is never exceeded,   *)
(* and what is complete is paid for.                                        *)
(*                                                                         *)
(* The argument.  A row is claimed once, so that of the ticks that hold it  *)
(* or what came of it there is only one; only it can reach the provider     *)
(* for that key, and only before anything was accepted for it.  A request   *)
(* that was accepted keeps the row of its key among those that count        *)
(* against the ceiling, and no two share a row.                             *)
(***************************************************************************)
EXTENDS MediaDispatch, FiniteSetTheorems, TLAPS

\* The places of a tick between its claim and the end of it.
Holding == {"claimed", "bound", "receipt", "refused", "lost", "unrecorded"}
Unbought(k) == \A n \in Requests : accepted[n] # k
Unclaimed(k) == \A w \in Workers : place[w] \in Holding => key[w] # k
Paid(k) ==
  /\ row[k] = "succeeded" /\ cost[k] = "recorded"
  /\ outcome[receipt[k]] = "completed" /\ receipt[k] \in billed

RowInv == \A k \in Keys :
  /\ row[k] \in {"none", "reserved"} => Unbought(k) /\ Unclaimed(k)
  /\ row[k] \in Receipted => receipt[k] \in Requests /\ accepted[receipt[k]] = k
  /\ asset[k] # "none" => row[k] \in Receipted
  /\ asset[k] = "complete" => Paid(k)

MemoryInv == \A w \in Workers :
  /\ place[w] # "idle" => key[w] \in Keys
  /\ place[w] \in {"claimed", "bound", "refused"} => Unbought(key[w])
  /\ place[w] \in Holding => row[key[w]] \in Exposed
  /\ place[w] \in {"receipt", "unrecorded"} =>
       request[w] \in Requests /\ accepted[request[w]] = key[w]
  /\ place[w] \in {"answered", "settled"} => row[key[w]] \in Receipted
  /\ place[w] = "settled" => Paid(key[w])

OneHolder == \A v, w \in Workers :
  place[v] \in Holding /\ place[w] \in Holding /\ key[v] = key[w] => v = w

QueueInv == \A n \in Requests :
  /\ accepted[n] = NoKey => outcome[n] = "pending"
  /\ accepted[n] # NoKey => row[accepted[n]] \in Exposed

LedgerInv == TypeOK /\ RowInv /\ MemoryInv /\ OneHolder /\ QueueInv /\ SubmittedOnce

LEMMA LedgerInit == Init => LedgerInv
BY DispatchAssumption
   DEF Init, LedgerInv, TypeOK, RowInv, MemoryInv, OneHolder, QueueInv, SubmittedOnce,
       RowStates, Receipted, Places, Holding, Unbought, Unclaimed, Paid, Requests, NoRequest

-----------------------------------------------------------------------------
(* Each step keeps it.                                                      *)

USE DispatchAssumption
    DEF LedgerInv, TypeOK, RowStates, Receipted, Exposed, Places, Holding, Requests,
        NoRequest, ledger, memory, provider, Goto, Leaves, Proceeds, At, Held,
        LeaseLive, MoveRow, Commit, Polls, ReceiptReplayed, Unbought, Unclaimed, Paid

\* A step of a tick that changes its memory only.
LEMMA MemoryStep ==
  ASSUME LedgerInv, NEW w \in Workers, NEW p \in Places,
         NEW k \in Keys \cup {NoKey}, NEW n \in Requests \cup {NoRequest},
         Goto(w, p, k, n), UNCHANGED <<ledger, asset, provider>>,
         p # "idle" => k \in Keys,
         p \in Holding => place[w] \in Holding /\ k = key[w],
         p \in {"claimed", "bound", "refused"} => Unbought(k),
         p \in {"receipt", "unrecorded"} => n \in Requests /\ accepted[n] = k,
         p \in {"answered", "settled"} => row[k] \in Receipted,
         p = "settled" => Paid(k)
  PROVE  LedgerInv'
<1>1. TypeOK'
  OBVIOUS
<1>2. RowInv'
  BY DEF RowInv, MemoryInv, QueueInv
<1>3. MemoryInv'
  BY DEF RowInv, MemoryInv, OneHolder, QueueInv
<1>4. OneHolder'
  BY DEF RowInv, MemoryInv, OneHolder
<1>5. QueueInv'
  BY DEF RowInv, MemoryInv, QueueInv
<1>6. SubmittedOnce'
  BY DEF SubmittedOnce, MemoryInv, QueueInv
<1> QED BY <1>1, <1>2, <1>3, <1>4, <1>5, <1>6

\* A tick that leaves.
LEMMA LeaveStep ==
  ASSUME LedgerInv, NEW w \in Workers, Leaves(w), UNCHANGED <<ledger, asset, provider>>
  PROVE  LedgerInv'
BY MemoryStep

\* The receipt of a request is committed to the row that waits for it.
LEMMA CommitStep ==
  ASSUME LedgerInv, NEW w \in Workers, place[w] \in {"receipt", "unrecorded"},
         Held(key[w]), Commit(key[w], request[w]), Proceeds(w, "answered"),
         UNCHANGED <<asset, provider>>
  PROVE  LedgerInv'
<1>0. key[w] \in Keys /\ request[w] \in Requests /\ accepted[request[w]] = key[w]
  BY DEF MemoryInv
<1>1. TypeOK'
  BY <1>0
<1>2. RowInv'
  BY DEF RowInv, MemoryInv, QueueInv
<1>3. MemoryInv'
  BY DEF RowInv, MemoryInv, OneHolder, QueueInv
<1>4. OneHolder'
  BY DEF RowInv, MemoryInv, OneHolder
<1>5. QueueInv'
  BY DEF RowInv, MemoryInv, QueueInv
<1>6. SubmittedOnce'
  BY DEF SubmittedOnce, MemoryInv, QueueInv
<1> QED BY <1>1, <1>2, <1>3, <1>4, <1>5, <1>6

LEMMA ReserveNewKeeps ==
  ASSUME LedgerInv, NEW w \in Workers, NEW k \in Keys, ReserveNew(w, k)
  PROVE  LedgerInv'
<1>1. TypeOK'
  BY DEF ReserveNew
<1>2. RowInv'
  BY DEF RowInv, MemoryInv, QueueInv, ReserveNew
<1>3. MemoryInv'
  BY DEF RowInv, MemoryInv, OneHolder, QueueInv, ReserveNew
<1>4. OneHolder'
  BY DEF RowInv, MemoryInv, OneHolder, ReserveNew
<1>5. QueueInv'
  BY DEF RowInv, MemoryInv, QueueInv, ReserveNew
<1>6. SubmittedOnce'
  BY DEF SubmittedOnce, MemoryInv, QueueInv, ReserveNew
<1> QED BY <1>1, <1>2, <1>3, <1>4, <1>5, <1>6

LEMMA ReserveReplayKeeps ==
  ASSUME LedgerInv, NEW w \in Workers, NEW k \in Keys, ReserveReplay(w, k)
  PROVE  LedgerInv'
<1>1. CASE row[k] = "reserved" /\ Goto(w, "reserved", k, NoRequest)
  BY <1>1, MemoryStep DEF ReserveReplay
<1>2. CASE row[k] \in Receipted /\ Goto(w, "answered", k, receipt[k])
  BY <1>2, MemoryStep DEF ReserveReplay
<1> QED BY <1>1, <1>2 DEF ReserveReplay

LEMMA ReserveExpiredKeeps ==
  ASSUME LedgerInv, NEW w \in Workers, NEW k \in Keys, ReserveExpired(w, k)
  PROVE  LedgerInv'
<1>1. TypeOK'
  BY DEF ReserveExpired
<1>2. RowInv'
  BY DEF RowInv, MemoryInv, QueueInv, ReserveExpired
<1>3. MemoryInv'
  BY DEF RowInv, MemoryInv, OneHolder, QueueInv, ReserveExpired
<1>4. OneHolder'
  BY DEF RowInv, MemoryInv, OneHolder, ReserveExpired
<1>5. QueueInv'
  BY DEF RowInv, MemoryInv, QueueInv, ReserveExpired
<1>6. SubmittedOnce'
  BY DEF SubmittedOnce, MemoryInv, QueueInv, ReserveExpired
<1> QED BY <1>1, <1>2, <1>3, <1>4, <1>5, <1>6

\* The row passes from all to the one that claims it.
LEMMA ClaimedStep ==
  ASSUME LedgerInv, NEW w \in Workers, At(w, "reserved"), row[key[w]] = "reserved",
         MoveRow(key[w], "dispatching"), Proceeds(w, "claimed"),
         UNCHANGED <<bound, receipt, cost, asset, provider>>
  PROVE  LedgerInv'
<1>0. key[w] \in Keys
  BY DEF MemoryInv
<1>1. TypeOK'
  BY <1>0
<1>2. RowInv'
  BY DEF RowInv, MemoryInv, QueueInv
<1>3. MemoryInv'
  BY DEF RowInv, MemoryInv, OneHolder, QueueInv
<1>4. OneHolder'
  BY <1>0 DEF RowInv, MemoryInv, OneHolder
<1>5. QueueInv'
  BY DEF RowInv, MemoryInv, QueueInv
<1>6. SubmittedOnce'
  BY DEF SubmittedOnce, MemoryInv, QueueInv
<1> QED BY <1>1, <1>2, <1>3, <1>4, <1>5, <1>6

LEMMA ClaimKeeps ==
  ASSUME LedgerInv, NEW w \in Workers, Claim(w)
  PROVE  LedgerInv'
<1>1. CASE row[key[w]] = "reserved"
  BY <1>1, ClaimedStep DEF Claim
<1>2. CASE row[key[w]] # "reserved"
  BY <1>2, LeaveStep DEF Claim
<1> QED BY <1>1, <1>2

LEMMA BoundStep ==
  ASSUME LedgerInv, NEW w \in Workers, At(w, "claimed"), LeaseLive(key[w]),
         bound' = [bound EXCEPT ![key[w]] = TRUE], Proceeds(w, "bound"),
         UNCHANGED <<row, lapsed, receipt, cost, asset, provider>>
  PROVE  LedgerInv'
<1>0. key[w] \in Keys
  BY DEF MemoryInv
<1>1. TypeOK'
  BY <1>0
<1>2. RowInv'
  BY DEF RowInv, MemoryInv, QueueInv
<1>3. MemoryInv'
  BY DEF RowInv, MemoryInv, OneHolder, QueueInv
<1>4. OneHolder'
  BY DEF RowInv, MemoryInv, OneHolder
<1>5. QueueInv'
  BY DEF RowInv, MemoryInv, QueueInv
<1>6. SubmittedOnce'
  BY DEF SubmittedOnce, MemoryInv, QueueInv
<1> QED BY <1>1, <1>2, <1>3, <1>4, <1>5, <1>6

LEMMA BindCallbackKeeps ==
  ASSUME LedgerInv, NEW w \in Workers, BindCallback(w)
  PROVE  LedgerInv'
<1>1. CASE LeaseLive(key[w])
  BY <1>1, BoundStep DEF BindCallback
<1>2. CASE ~LeaseLive(key[w])
  BY <1>2, LeaveStep DEF BindCallback
<1> QED BY <1>1, <1>2

\* The provider accepts the one request for a key; its answer may be lost.
LEMMA AcceptedStep ==
  ASSUME LedgerInv, NEW w \in Workers, NEW n \in Requests, NEW m \in Requests \cup {NoRequest},
         NEW p \in {"receipt", "lost"}, At(w, "bound"), accepted[n] = NoKey,
         accepted' = [accepted EXCEPT ![n] = key[w]], Goto(w, p, key[w], m),
         p = "receipt" => m = n, UNCHANGED <<ledger, asset, outcome, billed>>
  PROVE  LedgerInv'
<1>0. key[w] \in Keys /\ Unbought(key[w])
  BY DEF MemoryInv
<1>1. TypeOK'
  BY <1>0
<1>2. RowInv'
  BY DEF RowInv, MemoryInv, QueueInv
<1>3. MemoryInv'
  BY DEF RowInv, MemoryInv, OneHolder, QueueInv
<1>4. OneHolder'
  BY DEF RowInv, MemoryInv, OneHolder
<1>5. QueueInv'
  BY <1>0 DEF RowInv, MemoryInv, QueueInv
<1>6. SubmittedOnce'
  BY DEF SubmittedOnce, MemoryInv, QueueInv
<1> QED BY <1>1, <1>2, <1>3, <1>4, <1>5, <1>6

LEMMA ProviderAcceptsKeeps ==
  ASSUME LedgerInv, NEW w \in Workers, ProviderAccepts(w)
  PROVE  LedgerInv'
<1>1. PICK n \in Requests :
        /\ accepted[n] = NoKey
        /\ accepted' = [accepted EXCEPT ![n] = key[w]]
        /\ Goto(w, "receipt", key[w], n) \/ Proceeds(w, "lost")
  BY DEF ProviderAccepts
<1> QED BY <1>1, AcceptedStep DEF ProviderAccepts

LEMMA ProviderRefusesKeeps ==
  ASSUME LedgerInv, NEW w \in Workers, ProviderRefuses(w)
  PROVE  LedgerInv'
<1>1. place[w] = "bound" /\ key[w] \in Keys /\ Unbought(key[w])
  BY DEF ProviderRefuses, MemoryInv
<1>2. ASSUME NEW p \in {"refused", "lost"}, Proceeds(w, p) PROVE LedgerInv'
  BY <1>1, <1>2, MemoryStep DEF ProviderRefuses
<1> QED BY <1>2 DEF ProviderRefuses

LEMMA ReportedStep ==
  ASSUME LedgerInv, NEW w \in Workers, place[w] \in {"refused", "lost"}, LeaseLive(key[w]),
         MoveRow(key[w], IF At(w, "lost") THEN "outcome_unknown" ELSE "failed"),
         Leaves(w), UNCHANGED <<bound, receipt, cost, asset, provider>>
  PROVE  LedgerInv'
<1>0. key[w] \in Keys /\ (place[w] = "refused" => Unbought(key[w]))
  BY DEF MemoryInv
<1>1. TypeOK'
  OBVIOUS
<1>2. RowInv'
  BY DEF RowInv, MemoryInv, QueueInv
<1>3. MemoryInv'
  BY DEF RowInv, MemoryInv, OneHolder, QueueInv
<1>4. OneHolder'
  BY DEF RowInv, MemoryInv, OneHolder
<1>5. QueueInv'
  BY <1>0 DEF QueueInv
<1>6. SubmittedOnce'
  BY DEF SubmittedOnce, MemoryInv, QueueInv
<1> QED BY <1>1, <1>2, <1>3, <1>4, <1>5, <1>6

LEMMA ReportFailureKeeps ==
  ASSUME LedgerInv, NEW w \in Workers, ReportFailure(w)
  PROVE  LedgerInv'
<1>1. CASE LeaseLive(key[w])
  BY <1>1, ReportedStep DEF ReportFailure
<1>2. CASE ~LeaseLive(key[w])
  BY <1>2, LeaveStep DEF ReportFailure
<1> QED BY <1>1, <1>2

\* A tick that knows its receipt, and finds it in the row or goes on without.
LEMMA KnownStep ==
  ASSUME LedgerInv, NEW w \in Workers, place[w] \in {"receipt", "unrecorded"},
         NEW p \in {"answered", "unrecorded"}, Proceeds(w, p),
         p = "answered" => row[key[w]] \in Receipted, UNCHANGED <<ledger, asset, provider>>
  PROVE  LedgerInv'
<1>1. TypeOK'
  OBVIOUS
<1>2. RowInv'
  BY DEF RowInv, MemoryInv, QueueInv
<1>3. MemoryInv'
  BY DEF RowInv, MemoryInv, OneHolder, QueueInv
<1>4. OneHolder'
  BY DEF RowInv, MemoryInv, OneHolder
<1>5. QueueInv'
  BY DEF RowInv, MemoryInv, QueueInv
<1>6. SubmittedOnce'
  BY DEF SubmittedOnce, MemoryInv, QueueInv
<1> QED BY <1>1, <1>2, <1>3, <1>4, <1>5, <1>6

LEMMA RecordSubmissionKeeps ==
  ASSUME LedgerInv, NEW w \in Workers, RecordSubmission(w)
  PROVE  LedgerInv'
<1>1. CASE LeaseLive(key[w]) /\ Commit(key[w], request[w]) /\ Proceeds(w, "answered")
  BY <1>1, CommitStep DEF RecordSubmission
<1>2. CASE Proceeds(w, "unrecorded") /\ UNCHANGED ledger
  BY <1>2, KnownStep DEF RecordSubmission
<1>3. CASE row[key[w]] \in Receipted /\ Proceeds(w, "answered") /\ UNCHANGED ledger
  BY <1>3, KnownStep DEF RecordSubmission
<1> QED BY <1>1, <1>2, <1>3 DEF RecordSubmission

LEMMA ReconcileSubmissionKeeps ==
  ASSUME LedgerInv, NEW w \in Workers, ReconcileSubmission(w)
  PROVE  LedgerInv'
<1>1. CASE Held(key[w]) /\ Commit(key[w], request[w]) /\ Proceeds(w, "answered")
  BY <1>1, CommitStep DEF ReconcileSubmission
<1>2. CASE Leaves(w) /\ UNCHANGED ledger
  BY <1>2, LeaveStep DEF ReconcileSubmission
<1>3. CASE row[key[w]] \in Receipted /\ Proceeds(w, "answered") /\ UNCHANGED ledger
  BY <1>3, KnownStep DEF ReconcileSubmission
<1> QED BY <1>1, <1>2, <1>3 DEF ReconcileSubmission

LEMMA InsertAssetKeeps ==
  ASSUME LedgerInv, NEW w \in Workers, InsertAsset(w)
  PROVE  LedgerInv'
<1>1. TypeOK'
  BY DEF InsertAsset
<1>2. RowInv'
  BY DEF RowInv, MemoryInv, QueueInv, InsertAsset
<1>3. MemoryInv'
  BY DEF RowInv, MemoryInv, OneHolder, QueueInv, InsertAsset
<1>4. OneHolder'
  BY DEF RowInv, MemoryInv, OneHolder, InsertAsset
<1>5. QueueInv'
  BY DEF RowInv, MemoryInv, QueueInv, InsertAsset
<1>6. SubmittedOnce'
  BY DEF SubmittedOnce, MemoryInv, QueueInv, InsertAsset
<1> QED BY <1>1, <1>2, <1>3, <1>4, <1>5, <1>6

LEMMA PollFailedKeeps ==
  ASSUME LedgerInv, NEW w \in Workers, NEW k \in Keys, PollFailed(w, k)
  PROVE  LedgerInv'
<1>1. TypeOK'
  BY DEF PollFailed
<1>2. RowInv'
  BY DEF RowInv, MemoryInv, QueueInv, PollFailed
<1>3. MemoryInv'
  BY DEF RowInv, MemoryInv, OneHolder, QueueInv, PollFailed
<1>4. OneHolder'
  BY DEF RowInv, MemoryInv, OneHolder, PollFailed
<1>5. QueueInv'
  BY DEF RowInv, MemoryInv, QueueInv, PollFailed
<1>6. SubmittedOnce'
  BY DEF SubmittedOnce, MemoryInv, QueueInv, PollFailed
<1> QED BY <1>1, <1>2, <1>3, <1>4, <1>5, <1>6

LEMMA ClipTooShortKeeps ==
  ASSUME LedgerInv, NEW w \in Workers, NEW k \in Keys, ClipTooShort(w, k)
  PROVE  LedgerInv'
<1>1. TypeOK'
  BY DEF ClipTooShort
<1>2. RowInv'
  BY DEF RowInv, MemoryInv, QueueInv, ClipTooShort
<1>3. MemoryInv'
  BY DEF RowInv, MemoryInv, OneHolder, QueueInv, ClipTooShort
<1>4. OneHolder'
  BY DEF RowInv, MemoryInv, OneHolder, ClipTooShort
<1>5. QueueInv'
  BY DEF RowInv, MemoryInv, QueueInv, ClipTooShort
<1>6. SubmittedOnce'
  BY DEF SubmittedOnce, MemoryInv, QueueInv, ClipTooShort
<1> QED BY <1>1, <1>2, <1>3, <1>4, <1>5, <1>6

LEMMA BillingPendingKeeps ==
  ASSUME LedgerInv, NEW w \in Workers, NEW k \in Keys, BillingPending(w, k)
  PROVE  LedgerInv'
<1>1. TypeOK'
  BY DEF BillingPending
<1>2. RowInv'
  BY DEF RowInv, MemoryInv, QueueInv, BillingPending
<1>3. MemoryInv'
  BY DEF RowInv, MemoryInv, OneHolder, QueueInv, BillingPending
<1>4. OneHolder'
  BY DEF RowInv, MemoryInv, OneHolder, BillingPending
<1>5. QueueInv'
  BY DEF RowInv, MemoryInv, QueueInv, BillingPending
<1>6. SubmittedOnce'
  BY DEF SubmittedOnce, MemoryInv, QueueInv, BillingPending
<1> QED BY <1>1, <1>2, <1>3, <1>4, <1>5, <1>6

LEMMA SettleOutputKeeps ==
  ASSUME LedgerInv, NEW w \in Workers, NEW k \in Keys, SettleOutput(w, k)
  PROVE  LedgerInv'
<1>1. TypeOK'
  BY DEF SettleOutput
<1>2. RowInv'
  BY DEF RowInv, MemoryInv, QueueInv, SettleOutput
<1>3. MemoryInv'
  BY DEF RowInv, MemoryInv, OneHolder, QueueInv, SettleOutput
<1>4. OneHolder'
  BY DEF RowInv, MemoryInv, OneHolder, SettleOutput
<1>5. QueueInv'
  BY DEF RowInv, MemoryInv, QueueInv, SettleOutput
<1>6. SubmittedOnce'
  BY DEF SubmittedOnce, MemoryInv, QueueInv, SettleOutput
<1> QED BY <1>1, <1>2, <1>3, <1>4, <1>5, <1>6

LEMMA FinishAssetKeeps ==
  ASSUME LedgerInv, NEW w \in Workers, FinishAsset(w)
  PROVE  LedgerInv'
<1>1. TypeOK'
  BY DEF FinishAsset
<1>2. RowInv'
  BY DEF RowInv, MemoryInv, QueueInv, FinishAsset
<1>3. MemoryInv'
  BY DEF RowInv, MemoryInv, OneHolder, QueueInv, FinishAsset
<1>4. OneHolder'
  BY DEF RowInv, MemoryInv, OneHolder, FinishAsset
<1>5. QueueInv'
  BY DEF RowInv, MemoryInv, QueueInv, FinishAsset
<1>6. SubmittedOnce'
  BY DEF SubmittedOnce, MemoryInv, QueueInv, FinishAsset
<1> QED BY <1>1, <1>2, <1>3, <1>4, <1>5, <1>6

LEMMA DiesKeeps ==
  ASSUME LedgerInv, NEW w \in Workers, Dies(w)
  PROVE  LedgerInv'
BY LeaveStep DEF Dies

LEMMA LeaseLapsesKeeps ==
  ASSUME LedgerInv, NEW k \in Keys, LeaseLapses(k)
  PROVE  LedgerInv'
<1>1. TypeOK'
  BY DEF LeaseLapses
<1>2. RowInv'
  BY DEF RowInv, MemoryInv, QueueInv, LeaseLapses
<1>3. MemoryInv'
  BY DEF RowInv, MemoryInv, OneHolder, QueueInv, LeaseLapses
<1>4. OneHolder'
  BY DEF RowInv, MemoryInv, OneHolder, LeaseLapses
<1>5. QueueInv'
  BY DEF RowInv, MemoryInv, QueueInv, LeaseLapses
<1>6. SubmittedOnce'
  BY DEF SubmittedOnce, MemoryInv, QueueInv, LeaseLapses
<1> QED BY <1>1, <1>2, <1>3, <1>4, <1>5, <1>6

LEMMA ProviderFinishesKeeps ==
  ASSUME LedgerInv, NEW n \in Requests, ProviderFinishes(n)
  PROVE  LedgerInv'
<1>1. TypeOK'
  BY DEF ProviderFinishes
<1>2. RowInv'
  BY DEF RowInv, MemoryInv, QueueInv, ProviderFinishes
<1>3. MemoryInv'
  BY DEF RowInv, MemoryInv, OneHolder, QueueInv, ProviderFinishes
<1>4. OneHolder'
  BY DEF RowInv, MemoryInv, OneHolder, ProviderFinishes
<1>5. QueueInv'
  BY DEF RowInv, MemoryInv, QueueInv, ProviderFinishes
<1>6. SubmittedOnce'
  BY DEF SubmittedOnce, MemoryInv, QueueInv, ProviderFinishes
<1> QED BY <1>1, <1>2, <1>3, <1>4, <1>5, <1>6

LEMMA ProviderBillsKeeps ==
  ASSUME LedgerInv, NEW n \in Requests, ProviderBills(n)
  PROVE  LedgerInv'
<1>1. TypeOK'
  BY DEF ProviderBills
<1>2. RowInv'
  BY DEF RowInv, MemoryInv, QueueInv, ProviderBills
<1>3. MemoryInv'
  BY DEF RowInv, MemoryInv, OneHolder, QueueInv, ProviderBills
<1>4. OneHolder'
  BY DEF RowInv, MemoryInv, OneHolder, ProviderBills
<1>5. QueueInv'
  BY DEF RowInv, MemoryInv, QueueInv, ProviderBills
<1>6. SubmittedOnce'
  BY DEF SubmittedOnce, MemoryInv, QueueInv, ProviderBills
<1> QED BY <1>1, <1>2, <1>3, <1>4, <1>5, <1>6

LEMMA CallbackKeeps ==
  ASSUME LedgerInv, NEW n \in Requests, Callback(n)
  PROVE  LedgerInv'
<1>1. TypeOK'
  BY DEF Callback
<1>2. RowInv'
  BY DEF RowInv, MemoryInv, QueueInv, Callback
<1>3. MemoryInv'
  BY DEF RowInv, MemoryInv, OneHolder, QueueInv, Callback
<1>4. OneHolder'
  BY DEF RowInv, MemoryInv, OneHolder, Callback
<1>5. QueueInv'
  BY DEF RowInv, MemoryInv, QueueInv, Callback
<1>6. SubmittedOnce'
  BY DEF SubmittedOnce, MemoryInv, QueueInv, Callback
<1> QED BY <1>1, <1>2, <1>3, <1>4, <1>5, <1>6

LEMMA LedgerStep == LedgerInv /\ [Next]_vars => LedgerInv'
<1> SUFFICES ASSUME LedgerInv, [Next]_vars PROVE LedgerInv'
  OBVIOUS
<1>1. ASSUME NEW w \in Workers, Dispatches(w) PROVE LedgerInv'
  BY <1>1, ReserveNewKeeps, ReserveReplayKeeps, ReserveExpiredKeeps, ClaimKeeps,
     BindCallbackKeeps, ProviderAcceptsKeeps, ProviderRefusesKeeps, ReportFailureKeeps,
     RecordSubmissionKeeps, ReconcileSubmissionKeeps, InsertAssetKeeps, Zenon
  DEF Dispatches
<1>2. ASSUME NEW w \in Workers, PollsOne(w) PROVE LedgerInv'
  BY <1>2, PollFailedKeeps, ClipTooShortKeeps, BillingPendingKeeps, SettleOutputKeeps,
     FinishAssetKeeps, Zenon DEF PollsOne
<1>3. ASSUME NEW n \in Requests, Provider(n) PROVE LedgerInv'
  BY <1>3, ProviderFinishesKeeps, ProviderBillsKeeps, CallbackKeeps, Zenon DEF Provider
<1>4. CASE UNCHANGED vars
  BY <1>4 DEF vars, RowInv, MemoryInv, OneHolder, QueueInv, SubmittedOnce
<1> QED BY <1>1, <1>2, <1>3, <1>4, DiesKeeps, LeaseLapsesKeeps DEF Next

-----------------------------------------------------------------------------
(* The ceiling.                                                             *)

ExposedKeys == {k \in Keys : row[k] \in Exposed}
Bought == {n \in Requests : accepted[n] # NoKey}

LEMMA InitExposure == Init => Exposure <= Ceiling
<1> SUFFICES ASSUME Init PROVE Exposure <= Ceiling
  OBVIOUS
<1>1. ExposedKeys = {}
  BY DEF Init, ExposedKeys
<1> QED BY <1>1, FS_EmptySet DEF Exposure, ExposedKeys

\* Only a reservation adds a row to those that count.
LEMMA ExposureShrinks ==
  ASSUME LedgerInv, [Next]_vars, \A w \in Workers, k \in Keys : ~ReserveNew(w, k)
  PROVE  ExposedKeys' \subseteq ExposedKeys
<1> USE DEF ExposedKeys
<1>1. ASSUME NEW w \in Workers, Dispatches(w) PROVE ExposedKeys' \subseteq ExposedKeys
  <2>1. \A k \in Keys : ~ReserveNew(w, k)
    OBVIOUS
  <2>2. place[w] # "idle" => key[w] \in Keys
    BY DEF MemoryInv
  <2> QED BY <1>1, <2>1, <2>2
      DEF Dispatches, ReserveReplay, ReserveExpired, Claim, BindCallback, ProviderAccepts,
          ProviderRefuses, ReportFailure, RecordSubmission, ReconcileSubmission, InsertAsset
<1>2. ASSUME NEW w \in Workers, PollsOne(w) PROVE ExposedKeys' \subseteq ExposedKeys
  BY <1>2 DEF PollsOne, PollFailed, ClipTooShort, BillingPending, SettleOutput, FinishAsset,
              RowInv
<1>3. ASSUME NEW n \in Requests, Provider(n) PROVE ExposedKeys' \subseteq ExposedKeys
  BY <1>3 DEF Provider, ProviderFinishes, ProviderBills, Callback
<1>4. CASE (\E w \in Workers : Dies(w)) \/ (\E k \in Keys : LeaseLapses(k)) \/ UNCHANGED vars
  BY <1>4 DEF Dies, LeaseLapses, vars
<1> QED BY <1>1, <1>2, <1>3, <1>4 DEF Next

LEMMA StepExposure ==
  ASSUME LedgerInv, [Next]_vars, Exposure <= Ceiling
  PROVE  Exposure' <= Ceiling
<1>1. IsFiniteSet(ExposedKeys) /\ Exposure = Cardinality(ExposedKeys)
      /\ Exposure' = Cardinality(ExposedKeys')
  BY FS_Subset DEF ExposedKeys, Exposure
<1>2. CASE \E w \in Workers, k \in Keys : ReserveNew(w, k)
  <2>1. PICK k \in Keys : Affordable(k) /\ row' = [row EXCEPT ![k] = "reserved"]
    BY <1>2 DEF ReserveNew
  <2>2. ExposedKeys' \subseteq ExposedKeys \cup {k}
    BY <2>1 DEF ExposedKeys
  <2>3. /\ IsFiniteSet(ExposedKeys \cup {k})
        /\ Cardinality(ExposedKeys \cup {k}) <= Cardinality(ExposedKeys) + 1
    <3>1. /\ IsFiniteSet(ExposedKeys \cup {k}) /\ Cardinality(ExposedKeys) \in Nat
          /\ Cardinality(ExposedKeys \cup {k}) =
               IF k \in ExposedKeys THEN Cardinality(ExposedKeys)
                                    ELSE Cardinality(ExposedKeys) + 1
      BY <1>1, FS_AddElement, FS_CardinalityType
    <3> HIDE DEF ExposedKeys
    <3> QED BY <3>1
  <2>4. Cardinality(ExposedKeys') <= Cardinality(ExposedKeys \cup {k})
    BY <2>2, <2>3, FS_Subset
  <2>5. Cardinality(ExposedKeys') \in Nat /\ Cardinality(ExposedKeys \cup {k}) \in Nat
        /\ Cardinality(ExposedKeys) \in Nat
    BY <1>1, <2>2, <2>3, FS_Subset, FS_CardinalityType
  <2> QED BY <1>1, <2>1, <2>3, <2>4, <2>5 DEF Affordable
<1>3. CASE \A w \in Workers, k \in Keys : ~ReserveNew(w, k)
  <2>1. ExposedKeys' \subseteq ExposedKeys
    BY <1>3, ExposureShrinks
  <2>2. /\ Cardinality(ExposedKeys') <= Cardinality(ExposedKeys)
        /\ Cardinality(ExposedKeys') \in Nat /\ Cardinality(ExposedKeys) \in Nat
    BY <1>1, <2>1, FS_Subset, FS_CardinalityType
  <2> QED BY <1>1, <2>2
<1> QED BY <1>2, <1>3

\* No two accepted requests share a row, and each keeps its row exposed.
LEMMA BoughtIsExposed ==
  ASSUME LedgerInv, Exposure <= Ceiling
  PROVE  SpendWithinCeiling
<1> DEFINE f == [n \in Bought |-> accepted[n]]
<1>1. f \in Injection(Bought, ExposedKeys)
  BY DEF Injection, IsInjective, Bought, ExposedKeys, QueueInv, SubmittedOnce
<1>2. IsFiniteSet(ExposedKeys)
  BY FS_Subset DEF ExposedKeys
<1>3. IsFiniteSet(Bought) /\ Cardinality(Bought) <= Cardinality(ExposedKeys)
  BY <1>1, <1>2, FS_Injection
<1>4. Cardinality(Bought) \in Nat /\ Cardinality(ExposedKeys) \in Nat
  BY <1>2, <1>3, FS_CardinalityType
<1> QED BY <1>3, <1>4 DEF SpendWithinCeiling, Exposure, Bought, ExposedKeys

-----------------------------------------------------------------------------
(* The properties.                                                          *)

\* The inductive invariant of the ledger, its workers and the provider.
THEOREM LedgerInvariance == Spec => [](LedgerInv /\ Exposure <= Ceiling)
<1>1. Init => LedgerInv /\ Exposure <= Ceiling
  BY LedgerInit, InitExposure
<1>2. LedgerInv /\ Exposure <= Ceiling /\ [Next]_vars => (LedgerInv /\ Exposure <= Ceiling)'
  BY LedgerStep, StepExposure
<1> QED BY <1>1, <1>2, PTL DEF Spec

\* Every variable keeps its type.
THEOREM LedgerTypeCorrect == Spec => []TypeOK
<1>1. LedgerInv => TypeOK
  OBVIOUS
<1> QED BY <1>1, LedgerInvariance, PTL

\* The provider accepts at most one request for a key.
THEOREM SubmittedOnceHolds == Spec => []SubmittedOnce
<1>1. LedgerInv => SubmittedOnce
  OBVIOUS
<1> QED BY <1>1, LedgerInvariance, PTL

\* What was accepted never costs more than the ceiling.
THEOREM SpendWithinCeilingHolds == Spec => []SpendWithinCeiling
<1>1. LedgerInv /\ Exposure <= Ceiling => SpendWithinCeiling
  BY BoughtIsExposed
<1> QED BY <1>1, LedgerInvariance, PTL

\* What is complete is the billed output of the request in its row.
THEOREM CompleteAssetIsPaidHolds == Spec => []CompleteAssetIsPaid
<1>1. LedgerInv => CompleteAssetIsPaid
  BY DEF CompleteAssetIsPaid, RowInv
<1> QED BY <1>1, LedgerInvariance, PTL

LEMMA PaidStep ==
  ASSUME LedgerInv, [Next]_vars, NEW k \in Keys, row[k] \in Receipted
  PROVE  row'[k] \in Receipted /\ receipt'[k] = receipt[k]
<1>1. ASSUME NEW w \in Workers, Dispatches(w)
      PROVE  row'[k] \in Receipted /\ receipt'[k] = receipt[k]
  <2>1. place[w] # "idle" => key[w] \in Keys
    BY DEF MemoryInv
  <2> QED BY <1>1, <2>1
      DEF Dispatches, ReserveNew, ReserveReplay, ReserveExpired, Claim, BindCallback,
          ProviderAccepts, ProviderRefuses, ReportFailure, RecordSubmission,
          ReconcileSubmission, InsertAsset
<1>2. ASSUME NEW w \in Workers, PollsOne(w)
      PROVE  row'[k] \in Receipted /\ receipt'[k] = receipt[k]
  BY <1>2 DEF PollsOne, PollFailed, ClipTooShort, BillingPending, SettleOutput, FinishAsset
<1>3. ASSUME NEW n \in Requests, Provider(n)
      PROVE  row'[k] \in Receipted /\ receipt'[k] = receipt[k]
  BY <1>3 DEF Provider, ProviderFinishes, ProviderBills, Callback
<1>4. CASE (\E w \in Workers : Dies(w)) \/ (\E i \in Keys : LeaseLapses(i)) \/ UNCHANGED vars
  BY <1>4 DEF Dies, LeaseLapses, vars
<1> QED BY <1>1, <1>2, <1>3, <1>4 DEF Next

\* A committed receipt is never lost or exchanged.
THEOREM PaidWorkIsKeptHolds == Spec => PaidWorkIsKept
<1>1. LedgerInv /\ [Next]_vars =>
        [\A k \in Keys : row[k] \in Receipted =>
           row'[k] \in Receipted /\ receipt'[k] = receipt[k]]_vars
  BY PaidStep
<1> QED BY <1>1, LedgerInvariance, PTL DEF Spec, PaidWorkIsKept
=============================================================================
