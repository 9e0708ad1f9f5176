--------------------------- MODULE NarrationProofs ---------------------------
(* Proofs about Narration, for every number of ingests, encodings and       *)
(* attempts.                                                               *)
EXTENDS Narration, TLAPS

-----------------------------------------------------------------------------
(* The inductive invariant.                                                 *)

\* The run is where its tick and its job are.
FrontInv ==
  /\ run = "queued" => tick = "idle" /\ job \in {"none", "reserved", "dispatching"}
  /\ run = "running" => tick \in {"dispatched", "prepared", "claimed"}
  /\ run = "succeeded" => job = "promoted"
  /\ tick \in {"dispatched", "prepared", "claimed"} =>
       run = "running" /\ job \in {"none", "reserved", "dispatching"}
  /\ tick \in {"marked", "consumed", "submitted", "answered", "accepted", "registered"} =>
       run = "waiting_external" /\ job = "dispatching"
  /\ job \in {"quarantined", "scanning"} => run = "waiting_external"
  /\ job = "promoted" => run = "succeeded"
  /\ job = "failed" => run = "failed"
  /\ job \in {"none", "reserved", "dispatching"} => \A w \in Ingests : place[w] = "idle"

\* What an ingest relies on came to be in this order, and stays.
EvidenceInv ==
  /\ evidence => asset = "promoted"
  /\ qc # "none" => evidence
  /\ clock => qc = "verified"
  /\ job = "promoted" => clock
  /\ content # NoBytes <=> asset = "promoted"
  /\ \A w \in Ingests :
       place[w] \in {"rescan", "promoted", "recorded", "qc", "reserved", "submitted",
                     "answered", "rejected", "verified", "clocked"} => asset = "promoted"

\* The check c is still to be submitted.
Unsubmitted(c) ==
  IF c = "asr" THEN qc \in {"none", "asr_reserved"}
  ELSE qc \in {"none", "asr_reserved", "asr_submitted", "asr_verified", "judge_reserved"}

\* A request is sent by the one that submitted it, and before that by nobody.
SpendInv ==
  /\ job \in {"none", "reserved"} => speech = "none"
  /\ speech \in {"none", "reserved", "queued"} => calls["speech"] = 0
  /\ tick = "submitted" => speech = "submitted" /\ calls["speech"] = 0
  /\ \A c \in Checks : Unsubmitted(c) =>
       calls[c] = 0 /\ \A w \in Ingests : place[w] # "submitted" \/ check[w] # c
  /\ \A w \in Ingests : place[w] = "submitted" =>
       /\ calls[check[w]] = 0
       /\ \A v \in Ingests : place[v] = "submitted" /\ check[v] = check[w] => v = w

\* An encoding is known from the scan on.
ScanInv == \A w \in Ingests :
  place[w] \in {"scanned", "attested", "removed", "stored"} => enc[w] \in Encodings

\* Without ingests that outlive their lease, the one at work holds the job,
AloneInv == punctual => \A w \in Ingests : place[w] # "idle" => Holds(w)

\* ... one that stores an object has the asset for itself,
ApartInv == punctual => \A w \in Ingests :
  place[w] \in {"scan", "scanned", "attested", "removed", "stored"} => asset # "promoted"

\* ... and the object stays what it stored.
StoreInv == punctual =>
  /\ \A w \in Ingests : place[w] = "stored" => object = enc[w]
  /\ content # NoBytes => object = content

IInv ==
  /\ TypeOK /\ FrontInv /\ EvidenceInv
  /\ SpendInv /\ SpentOnce /\ ScanInv /\ AloneInv /\ ApartInv /\ StoreInv

-----------------------------------------------------------------------------
(* Each command preserves each part.                                        *)

\* What an ingest at p does to the rest, when it only moves.
Only(w, p, Q) ==
  /\ place[w] = p
  /\ \E q \in Q : place' = [place EXCEPT ![w] = q]
  /\ UNCHANGED <<job, asset, object, content, holder, lapsed, punctual, enc>>

\* The claim of a check moves the ingest, and what is stored stays.
LEMMA ClaimQcMoves ==
  ASSUME IInv, NEW w \in Ingests, ClaimQc(w)
  PROVE  Only(w, "qc", {"retry", "reserved", "final", "verified", "qc"})
<1> USE DEF Rules, rear, ledger, lease, fixed
<1>1. UNCHANGED <<job, asset, object, content, holder, lapsed, punctual, enc>>
  BY DEF ClaimQc
<1>2. place[w] = "qc"
  BY DEF ClaimQc
<1>3. \E q \in {"retry", "reserved", "final", "verified", "qc"} :
        place' = [place EXCEPT ![w] = q]
  BY DEF ClaimQc
<1> QED BY <1>1, <1>2, <1>3 DEF Only

\* A move of an ingest at work leaves the leases what they are.
LEMMA AloneMove ==
  ASSUME TypeOK, AloneInv, NEW w \in Ingests, NEW p, p # "idle", NEW Q, Only(w, p, Q)
  PROVE  AloneInv'
<1>1. \A v \in Ingests : place'[v] # "idle" => place[v] # "idle"
  BY SMT DEF Only, TypeOK
<1>2. (punctual' <=> punctual) /\ \A v \in Ingests : Holds(v)' <=> Holds(v)
  BY Zenon DEF Only, Holds
<1> QED BY <1>1, <1>2, Zenon DEF AloneInv

\* Only the places where an object is stored matter to it.
Storing == {"scan", "scanned", "attested", "removed", "stored"}

LEMMA StoreMove ==
  ASSUME TypeOK, NEW w \in Ingests, NEW p, NEW Q, Q \cap Storing = {}, Only(w, p, Q)
  PROVE  /\ ApartInv => ApartInv'
         /\ StoreInv => StoreInv'
<1>1. \A v \in Ingests : place'[v] \in Storing => place'[v] = place[v]
  BY SMT DEF Only, TypeOK
<1>2. (punctual' <=> punctual) /\ asset' = asset /\ object' = object
      /\ content' = content /\ enc' = enc
  BY Zenon DEF Only
<1> QED BY <1>1, <1>2, SMT DEF ApartInv, StoreInv, Storing

\* The promotion is recorded or not, and the ingest moves.
LEMMA RecordPromotionMoves ==
  ASSUME TypeOK, NEW w \in Ingests, RecordPromotion(w)
  PROVE  /\ UNCHANGED <<rear, job, ledger, object, qc, clock, lease, calls, enc, check>>
         /\ evidence' \in BOOLEAN
         /\ \E q \in {"final", "recorded", "retry"} : place' = [place EXCEPT ![w] = q]
<1>1. UNCHANGED <<rear, job, ledger, object, qc, clock, lease, calls, enc, check>>
  BY DEF RecordPromotion, Moves
<1>2. evidence' = evidence \/ evidence' = TRUE
  BY DEF RecordPromotion, Moves
<1>3. evidence' \in BOOLEAN
  BY <1>2, Zenon DEF TypeOK
<1>4. \E q \in {"final", "recorded", "retry"} : place' = [place EXCEPT ![w] = q]
  BY DEF RecordPromotion, Moves
<1> QED BY <1>1, <1>3, <1>4

\* The clock is recorded or not, and the ingest moves.
LEMMA RecordClockMoves ==
  ASSUME TypeOK, NEW w \in Ingests, RecordClock(w)
  PROVE  /\ UNCHANGED <<rear, job, ledger, object, qc, evidence, lease, calls, enc, check>>
         /\ clock' \in BOOLEAN
         /\ \E q \in {"final", "clocked", "retry"} : place' = [place EXCEPT ![w] = q]
<1>1. UNCHANGED <<rear, job, ledger, object, qc, evidence, lease, calls, enc, check>>
  BY DEF RecordClock, Moves
<1>2. clock' = clock \/ clock' = TRUE
  BY DEF RecordClock, Moves
<1>3. clock' \in BOOLEAN
  BY <1>2, Zenon DEF TypeOK
<1>4. \E q \in {"final", "clocked", "retry"} : place' = [place EXCEPT ![w] = q]
  BY DEF RecordClock, Moves
<1> QED BY <1>1, <1>3, <1>4

\* The claim of an ingest.
LEMMA ClaimIngestMoves ==
  ASSUME TypeOK, NEW w \in Ingests, ClaimIngest(w)
  PROVE  /\ UNCHANGED <<rear, ledger, object, evidence, qc, clock, calls>>
         /\ job' = "scanning" /\ holder' = w /\ lapsed' = FALSE
         /\ enc' = [enc EXCEPT ![w] = NoBytes] /\ check' = [check EXCEPT ![w] = "asr"]
         /\ \E q \in {"recorded", "claimed"} : place' = [place EXCEPT ![w] = q]
<1>1. CASE evidence BY <1>1 DEF ClaimIngest
<1>2. CASE ~evidence BY <1>2 DEF ClaimIngest
<1> QED BY <1>1, <1>2

\* Every command keeps the types.
LEMMA TypeStep ==
  ASSUME IInv, Next
  PROVE  TypeOK'
<1> USE NarrationAssumption DEF IInv, TypeOK, ScanInv,
        Checks, Reserved, Submitted, Holds,
        money, ledger, verdict, lease, front, fixed, ingests, behind, rear
<1>1. CASE Dispatch BY <1>1 DEF Dispatch
<1>2. CASE Prepare BY <1>2 DEF Prepare
<1>3. CASE ClaimSpeech BY <1>3 DEF ClaimSpeech
<1>4. CASE TickFails BY <1>4 DEF TickFails
<1>5. CASE Mark BY <1>5 DEF Mark
<1>6. CASE Consume BY <1>6 DEF Consume, Advances
<1>7. CASE Submit BY <1>7 DEF Submit, Advances
<1>8. CASE Speak BY <1>8 DEF Speak
<1>9. CASE Accept BY <1>9 DEF Accept, Advances
<1>10. CASE Register BY <1>10 DEF Register
<1>11. CASE RecordOutput BY <1>11 DEF RecordOutput
<1>12. CASE TickDies BY <1>12 DEF TickDies
<1>13. ASSUME NEW w \in Ingests, Ingest(w) PROVE TypeOK'
  <2>1. CASE ClaimIngest(w)
    <3>1. \E q \in {"recorded", "claimed"} : place' = [place EXCEPT ![w] = q]
      BY <2>1, ClaimIngestMoves
    <3>2. enc' = [enc EXCEPT ![w] = NoBytes] /\ check' = [check EXCEPT ![w] = "asr"]
      BY <2>1, ClaimIngestMoves
    <3>3. /\ UNCHANGED <<rear, ledger, object, evidence, qc, clock, calls>>
          /\ job' = "scanning" /\ holder' = w /\ lapsed' = FALSE
      BY <2>1, ClaimIngestMoves
    <3>4. lapsed' \in BOOLEAN BY <3>3
    <3>5. holder' \in Ingests \cup {NoIngest} BY <3>3
    <3>6. UNCHANGED <<rear, ledger, object, evidence, qc, clock, calls>> /\ job' = "scanning"
      BY <3>3
    <3> QED BY <3>1, <3>2, <3>4, <3>5, <3>6
  <2>2. CASE Look(w) BY <2>2 DEF Look, Moves
  <2>3. CASE Scan(w) BY <2>3 DEF Scan, Moves
  <2>4. CASE Attest(w) BY <2>4 DEF Attest, Moves
  <2>5. CASE Remove(w) BY <2>5 DEF Remove, Stores
  <2>6. CASE Upload(w) BY <2>6 DEF Upload, Stores
  <2>7. CASE Promote(w) BY <2>7 DEF Promote, Moves, Promotable
  <2>8. CASE RecordPromotion(w) BY <2>8, RecordPromotionMoves
  <2>9. CASE Assemble(w) BY <2>9 DEF Assemble, Moves
  <2>10. CASE ClaimQc(w) BY <2>10 DEF ClaimQc, Rules, Submittable
  <2>11. CASE SubmitQc(w) BY <2>11 DEF SubmitQc, Rules, Submittable
  <2>12. CASE Call(w) BY <2>12 DEF Call
  <2>13. CASE RecordAnswer(w) BY <2>13 DEF RecordAnswer, Rules
  <2>14. CASE RecordRejection(w) BY <2>14 DEF RecordRejection, Rules
  <2>15. CASE RecordClock(w) BY <2>15, RecordClockMoves
  <2>16. CASE Complete(w) BY <2>16 DEF Complete, Moves, ends
  <2>17. CASE Fail(w) BY <2>17 DEF Fail, ends
  <2>18. CASE Falters(w) BY <2>18 DEF Falters, Moves
  <2>19. CASE Dies(w) BY <2>19 DEF Dies, Moves
  <2> QED BY <1>13, <2>1, <2>2, <2>3, <2>4, <2>5, <2>6, <2>7, <2>8, <2>9, <2>10,
            <2>11, <2>12, <2>13, <2>14, <2>15, <2>16, <2>17, <2>18, <2>19 DEF Ingest
<1>14. CASE Lapse BY <1>14 DEF Lapse
<1>15. CASE AuthorityExpires BY <1>15 DEF AuthorityExpires
<1>16. CASE Calms BY <1>16 DEF Calms
<1> QED BY <1>1, <1>2, <1>3, <1>4, <1>5, <1>6, <1>7, <1>8, <1>9,
          <1>10, <1>11, <1>12, <1>13, <1>14, <1>15, <1>16 DEF Next, Tick

\* Every command keeps the run, its tick and its job together.
LEMMA FrontStep ==
  ASSUME IInv, Next
  PROVE  FrontInv'
<1> USE NarrationAssumption DEF IInv, TypeOK, FrontInv,
        Checks, Reserved, Submitted, Holds,
        money, ledger, verdict, lease, front, fixed, ingests, behind, rear
<1>1. CASE Dispatch BY <1>1 DEF Dispatch
<1>2. CASE Prepare BY <1>2 DEF Prepare
<1>3. CASE ClaimSpeech BY <1>3 DEF ClaimSpeech
<1>4. CASE TickFails BY <1>4 DEF TickFails
<1>5. CASE Mark BY <1>5 DEF Mark
<1>6. CASE Consume BY <1>6 DEF Consume, Advances
<1>7. CASE Submit BY <1>7 DEF Submit, Advances
<1>8. CASE Speak BY <1>8 DEF Speak
<1>9. CASE Accept BY <1>9 DEF Accept, Advances
<1>10. CASE Register BY <1>10 DEF Register
<1>11. CASE RecordOutput BY <1>11 DEF RecordOutput
<1>12. CASE TickDies BY <1>12 DEF TickDies
<1>13. ASSUME NEW w \in Ingests, Ingest(w) PROVE FrontInv'
  <2>1. CASE ClaimIngest(w) BY <2>1 DEF ClaimIngest
  <2>2. CASE Look(w) BY <2>2 DEF Look, Moves
  <2>3. CASE Scan(w) BY <2>3 DEF Scan, Moves
  <2>4. CASE Attest(w) BY <2>4 DEF Attest, Moves
  <2>5. CASE Remove(w) BY <2>5 DEF Remove, Stores
  <2>6. CASE Upload(w) BY <2>6 DEF Upload, Stores
  <2>7. CASE Promote(w) BY <2>7 DEF Promote, Moves, Promotable
  <2>8. CASE RecordPromotion(w) BY <2>8 DEF RecordPromotion, Moves
  <2>9. CASE Assemble(w) BY <2>9 DEF Assemble, Moves
  <2>10. CASE ClaimQc(w) BY <2>10 DEF ClaimQc, Rules, Submittable
  <2>11. CASE SubmitQc(w) BY <2>11 DEF SubmitQc, Rules, Submittable
  <2>12. CASE Call(w) BY <2>12 DEF Call
  <2>13. CASE RecordAnswer(w) BY <2>13 DEF RecordAnswer, Rules
  <2>14. CASE RecordRejection(w) BY <2>14 DEF RecordRejection, Rules
  <2>15. CASE RecordClock(w) BY <2>15 DEF RecordClock, Moves
  <2>16. CASE Complete(w) BY <2>16 DEF Complete, Moves, ends
  <2>17. CASE Fail(w) BY <2>17 DEF Fail, ends
  <2>18. CASE Falters(w) BY <2>18 DEF Falters, Moves
  <2>19. CASE Dies(w) BY <2>19 DEF Dies, Moves
  <2> QED BY <1>13, <2>1, <2>2, <2>3, <2>4, <2>5, <2>6, <2>7, <2>8, <2>9, <2>10,
            <2>11, <2>12, <2>13, <2>14, <2>15, <2>16, <2>17, <2>18, <2>19 DEF Ingest
<1>14. CASE Lapse BY <1>14 DEF Lapse
<1>15. CASE AuthorityExpires BY <1>15 DEF AuthorityExpires
<1>16. CASE Calms BY <1>16 DEF Calms
<1> QED BY <1>1, <1>2, <1>3, <1>4, <1>5, <1>6, <1>7, <1>8, <1>9,
          <1>10, <1>11, <1>12, <1>13, <1>14, <1>15, <1>16 DEF Next, Tick

\* Every command keeps what the evidence rests on.
LEMMA EvidenceStep ==
  ASSUME IInv, Next
  PROVE  EvidenceInv'
<1> USE NarrationAssumption DEF IInv, TypeOK, FrontInv, EvidenceInv, ScanInv,
        Checks, Reserved, Submitted, Holds,
        money, ledger, verdict, lease, front, fixed, ingests, behind, rear
<1>1. CASE Dispatch BY <1>1 DEF Dispatch
<1>2. CASE Prepare BY <1>2 DEF Prepare
<1>3. CASE ClaimSpeech BY <1>3 DEF ClaimSpeech
<1>4. CASE TickFails BY <1>4 DEF TickFails
<1>5. CASE Mark BY <1>5 DEF Mark
<1>6. CASE Consume BY <1>6 DEF Consume, Advances
<1>7. CASE Submit BY <1>7 DEF Submit, Advances
<1>8. CASE Speak BY <1>8 DEF Speak
<1>9. CASE Accept BY <1>9 DEF Accept, Advances
<1>10. CASE Register BY <1>10 DEF Register
<1>11. CASE RecordOutput BY <1>11 DEF RecordOutput
<1>12. CASE TickDies BY <1>12 DEF TickDies
<1>13. ASSUME NEW w \in Ingests, Ingest(w) PROVE EvidenceInv'
  <2>1. CASE ClaimIngest(w) BY <2>1 DEF ClaimIngest
  <2>2. CASE Look(w) BY <2>2 DEF Look, Moves
  <2>3. CASE Scan(w) BY <2>3 DEF Scan, Moves
  <2>4. CASE Attest(w) BY <2>4 DEF Attest, Moves
  <2>5. CASE Remove(w) BY <2>5 DEF Remove, Stores
  <2>6. CASE Upload(w) BY <2>6 DEF Upload, Stores
  <2>7. CASE Promote(w) BY <2>7 DEF Promote, Moves, Promotable
  <2>8. CASE RecordPromotion(w) BY <2>8 DEF RecordPromotion, Moves
  <2>9. CASE Assemble(w) BY <2>9 DEF Assemble, Moves
  <2>10. CASE ClaimQc(w) BY <2>10 DEF ClaimQc, Rules, Submittable
  <2>11. CASE SubmitQc(w) BY <2>11 DEF SubmitQc, Rules, Submittable
  <2>12. CASE Call(w) BY <2>12 DEF Call
  <2>13. CASE RecordAnswer(w) BY <2>13 DEF RecordAnswer, Rules
  <2>14. CASE RecordRejection(w) BY <2>14 DEF RecordRejection, Rules
  <2>15. CASE RecordClock(w) BY <2>15 DEF RecordClock, Moves
  <2>16. CASE Complete(w) BY <2>16 DEF Complete, Moves, ends
  <2>17. CASE Fail(w) BY <2>17 DEF Fail, ends
  <2>18. CASE Falters(w) BY <2>18 DEF Falters, Moves
  <2>19. CASE Dies(w) BY <2>19 DEF Dies, Moves
  <2> QED BY <1>13, <2>1, <2>2, <2>3, <2>4, <2>5, <2>6, <2>7, <2>8, <2>9, <2>10,
            <2>11, <2>12, <2>13, <2>14, <2>15, <2>16, <2>17, <2>18, <2>19 DEF Ingest
<1>14. CASE Lapse BY <1>14 DEF Lapse
<1>15. CASE AuthorityExpires BY <1>15 DEF AuthorityExpires
<1>16. CASE Calms BY <1>16 DEF Calms
<1> QED BY <1>1, <1>2, <1>3, <1>4, <1>5, <1>6, <1>7, <1>8, <1>9,
          <1>10, <1>11, <1>12, <1>13, <1>14, <1>15, <1>16 DEF Next, Tick

\* Every command keeps the requests with those that submitted them.
LEMMA SpendStep ==
  ASSUME IInv, Next
  PROVE  SpendInv'
<1> USE NarrationAssumption DEF IInv, TypeOK, SpendInv, Unsubmitted,
        Checks, Reserved, Submitted, Holds,
        money, ledger, verdict, lease, front, fixed, ingests, behind, rear
<1>1. CASE Dispatch BY <1>1 DEF Dispatch
<1>2. CASE Prepare BY <1>2 DEF Prepare
<1>3. CASE ClaimSpeech BY <1>3 DEF ClaimSpeech
<1>4. CASE TickFails BY <1>4 DEF TickFails
<1>5. CASE Mark BY <1>5 DEF Mark
<1>6. CASE Consume BY <1>6 DEF Consume, Advances
<1>7. CASE Submit BY <1>7 DEF Submit, Advances
<1>8. CASE Speak BY <1>8 DEF Speak
<1>9. CASE Accept BY <1>9 DEF Accept, Advances
<1>10. CASE Register BY <1>10 DEF Register
<1>11. CASE RecordOutput BY <1>11 DEF RecordOutput
<1>12. CASE TickDies BY <1>12 DEF TickDies
<1>13. ASSUME NEW w \in Ingests, Ingest(w) PROVE SpendInv'
  <2>1. CASE ClaimIngest(w) BY <2>1 DEF ClaimIngest
  <2>2. CASE Look(w) BY <2>2 DEF Look, Moves
  <2>3. CASE Scan(w) BY <2>3 DEF Scan, Moves
  <2>4. CASE Attest(w) BY <2>4 DEF Attest, Moves
  <2>5. CASE Remove(w) BY <2>5 DEF Remove, Stores
  <2>6. CASE Upload(w) BY <2>6 DEF Upload, Stores
  <2>7. CASE Promote(w) BY <2>7 DEF Promote, Moves, Promotable
  <2>8. CASE RecordPromotion(w) BY <2>8 DEF RecordPromotion, Moves
  <2>9. CASE Assemble(w) BY <2>9 DEF Assemble, Moves
  <2>10. CASE ClaimQc(w) BY <2>10 DEF ClaimQc, Rules, Submittable
  <2>11. CASE SubmitQc(w) BY <2>11 DEF SubmitQc, Rules, Submittable
  <2>12. CASE Call(w) BY <2>12 DEF Call
  <2>13. CASE RecordAnswer(w) BY <2>13 DEF RecordAnswer, Rules
  <2>14. CASE RecordRejection(w) BY <2>14 DEF RecordRejection, Rules
  <2>15. CASE RecordClock(w) BY <2>15 DEF RecordClock, Moves
  <2>16. CASE Complete(w) BY <2>16 DEF Complete, Moves, ends
  <2>17. CASE Fail(w) BY <2>17 DEF Fail, ends
  <2>18. CASE Falters(w) BY <2>18 DEF Falters, Moves
  <2>19. CASE Dies(w) BY <2>19 DEF Dies, Moves
  <2> QED BY <1>13, <2>1, <2>2, <2>3, <2>4, <2>5, <2>6, <2>7, <2>8, <2>9, <2>10,
            <2>11, <2>12, <2>13, <2>14, <2>15, <2>16, <2>17, <2>18, <2>19 DEF Ingest
<1>14. CASE Lapse BY <1>14 DEF Lapse
<1>15. CASE AuthorityExpires BY <1>15 DEF AuthorityExpires
<1>16. CASE Calms BY <1>16 DEF Calms
<1> QED BY <1>1, <1>2, <1>3, <1>4, <1>5, <1>6, <1>7, <1>8, <1>9,
          <1>10, <1>11, <1>12, <1>13, <1>14, <1>15, <1>16 DEF Next, Tick

\* No command sends a request for the second time.
LEMMA OnceStep ==
  ASSUME IInv, Next
  PROVE  SpentOnce'
<1> USE NarrationAssumption DEF IInv, TypeOK, SpendInv, SpentOnce,
        Checks, Reserved, Submitted, Holds,
        money, ledger, verdict, lease, front, fixed, ingests, behind, rear
<1>1. CASE Dispatch BY <1>1 DEF Dispatch
<1>2. CASE Prepare BY <1>2 DEF Prepare
<1>3. CASE ClaimSpeech BY <1>3 DEF ClaimSpeech
<1>4. CASE TickFails BY <1>4 DEF TickFails
<1>5. CASE Mark BY <1>5 DEF Mark
<1>6. CASE Consume BY <1>6 DEF Consume, Advances
<1>7. CASE Submit BY <1>7 DEF Submit, Advances
<1>8. CASE Speak BY <1>8 DEF Speak
<1>9. CASE Accept BY <1>9 DEF Accept, Advances
<1>10. CASE Register BY <1>10 DEF Register
<1>11. CASE RecordOutput BY <1>11 DEF RecordOutput
<1>12. CASE TickDies BY <1>12 DEF TickDies
<1>13. ASSUME NEW w \in Ingests, Ingest(w) PROVE SpentOnce'
  <2>1. CASE ClaimIngest(w) BY <2>1 DEF ClaimIngest
  <2>2. CASE Look(w) BY <2>2 DEF Look, Moves
  <2>3. CASE Scan(w) BY <2>3 DEF Scan, Moves
  <2>4. CASE Attest(w) BY <2>4 DEF Attest, Moves
  <2>5. CASE Remove(w) BY <2>5 DEF Remove, Stores
  <2>6. CASE Upload(w) BY <2>6 DEF Upload, Stores
  <2>7. CASE Promote(w) BY <2>7 DEF Promote, Moves, Promotable
  <2>8. CASE RecordPromotion(w) BY <2>8 DEF RecordPromotion, Moves
  <2>9. CASE Assemble(w) BY <2>9 DEF Assemble, Moves
  <2>10. CASE ClaimQc(w) BY <2>10 DEF ClaimQc, Rules, Submittable
  <2>11. CASE SubmitQc(w) BY <2>11 DEF SubmitQc, Rules, Submittable
  <2>12. CASE Call(w) BY <2>12 DEF Call
  <2>13. CASE RecordAnswer(w) BY <2>13 DEF RecordAnswer, Rules
  <2>14. CASE RecordRejection(w) BY <2>14 DEF RecordRejection, Rules
  <2>15. CASE RecordClock(w) BY <2>15 DEF RecordClock, Moves
  <2>16. CASE Complete(w) BY <2>16 DEF Complete, Moves, ends
  <2>17. CASE Fail(w) BY <2>17 DEF Fail, ends
  <2>18. CASE Falters(w) BY <2>18 DEF Falters, Moves
  <2>19. CASE Dies(w) BY <2>19 DEF Dies, Moves
  <2> QED BY <1>13, <2>1, <2>2, <2>3, <2>4, <2>5, <2>6, <2>7, <2>8, <2>9, <2>10,
            <2>11, <2>12, <2>13, <2>14, <2>15, <2>16, <2>17, <2>18, <2>19 DEF Ingest
<1>14. CASE Lapse BY <1>14 DEF Lapse
<1>15. CASE AuthorityExpires BY <1>15 DEF AuthorityExpires
<1>16. CASE Calms BY <1>16 DEF Calms
<1> QED BY <1>1, <1>2, <1>3, <1>4, <1>5, <1>6, <1>7, <1>8, <1>9,
          <1>10, <1>11, <1>12, <1>13, <1>14, <1>15, <1>16 DEF Next, Tick

\* Every command keeps the encodings known.
LEMMA ScanStep ==
  ASSUME IInv, Next
  PROVE  ScanInv'
<1> USE NarrationAssumption DEF IInv, TypeOK, ScanInv,
        Checks, Reserved, Submitted, Holds,
        money, ledger, verdict, lease, front, fixed, ingests, behind, rear
<1>1. CASE Dispatch BY <1>1 DEF Dispatch
<1>2. CASE Prepare BY <1>2 DEF Prepare
<1>3. CASE ClaimSpeech BY <1>3 DEF ClaimSpeech
<1>4. CASE TickFails BY <1>4 DEF TickFails
<1>5. CASE Mark BY <1>5 DEF Mark
<1>6. CASE Consume BY <1>6 DEF Consume, Advances
<1>7. CASE Submit BY <1>7 DEF Submit, Advances
<1>8. CASE Speak BY <1>8 DEF Speak
<1>9. CASE Accept BY <1>9 DEF Accept, Advances
<1>10. CASE Register BY <1>10 DEF Register
<1>11. CASE RecordOutput BY <1>11 DEF RecordOutput
<1>12. CASE TickDies BY <1>12 DEF TickDies
<1>13. ASSUME NEW w \in Ingests, Ingest(w) PROVE ScanInv'
  <2>1. CASE ClaimIngest(w) BY <2>1 DEF ClaimIngest
  <2>2. CASE Look(w) BY <2>2 DEF Look, Moves
  <2>3. CASE Scan(w) BY <2>3 DEF Scan, Moves
  <2>4. CASE Attest(w) BY <2>4 DEF Attest, Moves
  <2>5. CASE Remove(w) BY <2>5 DEF Remove, Stores
  <2>6. CASE Upload(w) BY <2>6 DEF Upload, Stores
  <2>7. CASE Promote(w) BY <2>7 DEF Promote, Moves, Promotable
  <2>8. CASE RecordPromotion(w) BY <2>8 DEF RecordPromotion, Moves
  <2>9. CASE Assemble(w) BY <2>9 DEF Assemble, Moves
  <2>10. CASE ClaimQc(w) BY <2>10 DEF ClaimQc, Rules, Submittable
  <2>11. CASE SubmitQc(w) BY <2>11 DEF SubmitQc, Rules, Submittable
  <2>12. CASE Call(w) BY <2>12 DEF Call
  <2>13. CASE RecordAnswer(w) BY <2>13 DEF RecordAnswer, Rules
  <2>14. CASE RecordRejection(w) BY <2>14 DEF RecordRejection, Rules
  <2>15. CASE RecordClock(w) BY <2>15 DEF RecordClock, Moves
  <2>16. CASE Complete(w) BY <2>16 DEF Complete, Moves, ends
  <2>17. CASE Fail(w) BY <2>17 DEF Fail, ends
  <2>18. CASE Falters(w) BY <2>18 DEF Falters, Moves
  <2>19. CASE Dies(w) BY <2>19 DEF Dies, Moves
  <2> QED BY <1>13, <2>1, <2>2, <2>3, <2>4, <2>5, <2>6, <2>7, <2>8, <2>9, <2>10,
            <2>11, <2>12, <2>13, <2>14, <2>15, <2>16, <2>17, <2>18, <2>19 DEF Ingest
<1>14. CASE Lapse BY <1>14 DEF Lapse
<1>15. CASE AuthorityExpires BY <1>15 DEF AuthorityExpires
<1>16. CASE Calms BY <1>16 DEF Calms
<1> QED BY <1>1, <1>2, <1>3, <1>4, <1>5, <1>6, <1>7, <1>8, <1>9,
          <1>10, <1>11, <1>12, <1>13, <1>14, <1>15, <1>16 DEF Next, Tick

\* Every command leaves the job with the ingest at work.
LEMMA AloneStep ==
  ASSUME IInv, Next
  PROVE  AloneInv'
<1> USE NarrationAssumption DEF IInv, TypeOK, FrontInv, AloneInv,
        Checks, Reserved, Submitted, Holds,
        money, ledger, verdict, lease, front, fixed, ingests, behind, rear
<1>1. CASE Dispatch BY <1>1 DEF Dispatch
<1>2. CASE Prepare BY <1>2 DEF Prepare
<1>3. CASE ClaimSpeech BY <1>3 DEF ClaimSpeech
<1>4. CASE TickFails BY <1>4 DEF TickFails
<1>5. CASE Mark BY <1>5 DEF Mark
<1>6. CASE Consume BY <1>6 DEF Consume, Advances
<1>7. CASE Submit BY <1>7 DEF Submit, Advances
<1>8. CASE Speak BY <1>8 DEF Speak
<1>9. CASE Accept BY <1>9 DEF Accept, Advances
<1>10. CASE Register BY <1>10 DEF Register
<1>11. CASE RecordOutput BY <1>11 DEF RecordOutput
<1>12. CASE TickDies BY <1>12 DEF TickDies
<1>13. ASSUME NEW w \in Ingests, Ingest(w) PROVE AloneInv'
  <2>1. CASE ClaimIngest(w) BY <2>1 DEF ClaimIngest
  <2>2. CASE Look(w) BY <2>2 DEF Look, Moves
  <2>3. CASE Scan(w) BY <2>3 DEF Scan, Moves
  <2>4. CASE Attest(w) BY <2>4 DEF Attest, Moves
  <2>5. CASE Remove(w) BY <2>5 DEF Remove, Stores
  <2>6. CASE Upload(w) BY <2>6 DEF Upload, Stores
  <2>7. CASE Promote(w) BY <2>7 DEF Promote, Moves, Promotable
  <2>8. CASE RecordPromotion(w) BY <2>8 DEF RecordPromotion, Moves
  <2>9. CASE Assemble(w) BY <2>9 DEF Assemble, Moves
  <2>10. CASE ClaimQc(w)
    <3>1. Only(w, "qc", {"retry", "reserved", "final", "verified", "qc"})
      BY <2>10, ClaimQcMoves, Zenon
    <3>2. TypeOK /\ AloneInv OBVIOUS
    <3> QED BY <3>1, <3>2, AloneMove, Zenon
  <2>11. CASE SubmitQc(w) BY <2>11 DEF SubmitQc, Rules, Submittable
  <2>12. CASE Call(w) BY <2>12 DEF Call
  <2>13. CASE RecordAnswer(w) BY <2>13 DEF RecordAnswer, Rules
  <2>14. CASE RecordRejection(w) BY <2>14 DEF RecordRejection, Rules
  <2>15. CASE RecordClock(w) BY <2>15 DEF RecordClock, Moves
  <2>16. CASE Complete(w)
    <3>1. CASE Holds(w) /\ run = "waiting_external" /\ clock
      <4>1. (punctual' <=> punctual) /\ place' = [place EXCEPT ![w] = "idle"]
        BY <2>16, <3>1, Zenon DEF Complete, ends
      <4>2. punctual => \A v \in Ingests \ {w} : place[v] = "idle"
        BY <3>1, Zenon
      <4>3. punctual' => \A v \in Ingests : place'[v] = "idle"
        BY <4>1, <4>2
      <4> QED BY <4>3, Zenon
    <3>2. CASE ~(Holds(w) /\ run = "waiting_external" /\ clock)
      <4>1. Moves(w, {IF job = "promoted" THEN "idle" ELSE "retry"}) /\ UNCHANGED <<enc, check>>
        BY <2>16, <3>2, Zenon DEF Complete
      <4>2. place[w] = "clocked"
        BY <2>16, Zenon DEF Complete
      <4>3. Only(w, "clocked", {IF job = "promoted" THEN "idle" ELSE "retry"})
        BY <4>1, <4>2, Zenon DEF Moves, Only
      <4>4. TypeOK /\ AloneInv OBVIOUS
      <4> QED BY <4>3, <4>4, AloneMove, Zenon
    <3> QED BY <3>1, <3>2
  <2>17. CASE Fail(w) BY <2>17 DEF Fail, ends
  <2>18. CASE Falters(w) BY <2>18 DEF Falters, Moves
  <2>19. CASE Dies(w) BY <2>19 DEF Dies, Moves
  <2> QED BY <1>13, <2>1, <2>2, <2>3, <2>4, <2>5, <2>6, <2>7, <2>8, <2>9, <2>10,
            <2>11, <2>12, <2>13, <2>14, <2>15, <2>16, <2>17, <2>18, <2>19 DEF Ingest
<1>14. CASE Lapse BY <1>14 DEF Lapse
<1>15. CASE AuthorityExpires BY <1>15 DEF AuthorityExpires
<1>16. CASE Calms BY <1>16 DEF Calms
<1> QED BY <1>1, <1>2, <1>3, <1>4, <1>5, <1>6, <1>7, <1>8, <1>9,
          <1>10, <1>11, <1>12, <1>13, <1>14, <1>15, <1>16 DEF Next, Tick

\* Every command leaves the asset to the ingest that stores.
LEMMA ApartStep ==
  ASSUME IInv, Next
  PROVE  ApartInv'
<1> USE NarrationAssumption DEF IInv, TypeOK, FrontInv, AloneInv, ApartInv,
        Checks, Reserved, Submitted, Holds,
        money, ledger, verdict, lease, front, fixed, ingests, behind, rear
<1>1. CASE Dispatch BY <1>1 DEF Dispatch
<1>2. CASE Prepare BY <1>2 DEF Prepare
<1>3. CASE ClaimSpeech BY <1>3 DEF ClaimSpeech
<1>4. CASE TickFails BY <1>4 DEF TickFails
<1>5. CASE Mark BY <1>5 DEF Mark
<1>6. CASE Consume BY <1>6 DEF Consume, Advances
<1>7. CASE Submit BY <1>7 DEF Submit, Advances
<1>8. CASE Speak BY <1>8 DEF Speak
<1>9. CASE Accept BY <1>9 DEF Accept, Advances
<1>10. CASE Register BY <1>10 DEF Register
<1>11. CASE RecordOutput BY <1>11 DEF RecordOutput
<1>12. CASE TickDies BY <1>12 DEF TickDies
<1>13. ASSUME NEW w \in Ingests, Ingest(w) PROVE ApartInv'
  <2>1. CASE ClaimIngest(w) BY <2>1 DEF ClaimIngest
  <2>2. CASE Look(w) BY <2>2 DEF Look, Moves
  <2>3. CASE Scan(w) BY <2>3 DEF Scan, Moves
  <2>4. CASE Attest(w) BY <2>4 DEF Attest, Moves
  <2>5. CASE Remove(w) BY <2>5 DEF Remove, Stores
  <2>6. CASE Upload(w) BY <2>6 DEF Upload, Stores
  <2>7. CASE Promote(w) BY <2>7 DEF Promote, Moves, Promotable
  <2>8. CASE RecordPromotion(w) BY <2>8 DEF RecordPromotion, Moves
  <2>9. CASE Assemble(w) BY <2>9 DEF Assemble, Moves
  <2>10. CASE ClaimQc(w)
    <3>1. Only(w, "qc", {"retry", "reserved", "final", "verified", "qc"})
      BY <2>10, ClaimQcMoves, Zenon
    <3>2. {"retry", "reserved", "final", "verified", "qc"} \cap Storing = {}
      BY DEF Storing
    <3> HIDE DEF TypeOK, ApartInv
    <3> QED BY <3>1, <3>2, StoreMove, Zenon
  <2>11. CASE SubmitQc(w) BY <2>11 DEF SubmitQc, Rules, Submittable
  <2>12. CASE Call(w) BY <2>12 DEF Call
  <2>13. CASE RecordAnswer(w) BY <2>13 DEF RecordAnswer, Rules
  <2>14. CASE RecordRejection(w) BY <2>14 DEF RecordRejection, Rules
  <2>15. CASE RecordClock(w) BY <2>15 DEF RecordClock, Moves
  <2>16. CASE Complete(w) BY <2>16 DEF Complete, Moves, ends
  <2>17. CASE Fail(w) BY <2>17 DEF Fail, ends
  <2>18. CASE Falters(w) BY <2>18 DEF Falters, Moves
  <2>19. CASE Dies(w) BY <2>19 DEF Dies, Moves
  <2> QED BY <1>13, <2>1, <2>2, <2>3, <2>4, <2>5, <2>6, <2>7, <2>8, <2>9, <2>10,
            <2>11, <2>12, <2>13, <2>14, <2>15, <2>16, <2>17, <2>18, <2>19 DEF Ingest
<1>14. CASE Lapse BY <1>14 DEF Lapse
<1>15. CASE AuthorityExpires BY <1>15 DEF AuthorityExpires
<1>16. CASE Calms BY <1>16 DEF Calms
<1> QED BY <1>1, <1>2, <1>3, <1>4, <1>5, <1>6, <1>7, <1>8, <1>9,
          <1>10, <1>11, <1>12, <1>13, <1>14, <1>15, <1>16 DEF Next, Tick

\* Every command keeps the object with the one that stores it.
LEMMA StoreStep ==
  ASSUME IInv, Next
  PROVE  StoreInv'
<1> USE NarrationAssumption DEF IInv, TypeOK, FrontInv, EvidenceInv, ScanInv, AloneInv, ApartInv, StoreInv,
        Checks, Reserved, Submitted, Holds,
        money, ledger, verdict, lease, front, fixed, ingests, behind, rear
<1>1. CASE Dispatch BY <1>1 DEF Dispatch
<1>2. CASE Prepare BY <1>2 DEF Prepare
<1>3. CASE ClaimSpeech BY <1>3 DEF ClaimSpeech
<1>4. CASE TickFails BY <1>4 DEF TickFails
<1>5. CASE Mark BY <1>5 DEF Mark
<1>6. CASE Consume BY <1>6 DEF Consume, Advances
<1>7. CASE Submit BY <1>7 DEF Submit, Advances
<1>8. CASE Speak BY <1>8 DEF Speak
<1>9. CASE Accept BY <1>9 DEF Accept, Advances
<1>10. CASE Register BY <1>10 DEF Register
<1>11. CASE RecordOutput BY <1>11 DEF RecordOutput
<1>12. CASE TickDies BY <1>12 DEF TickDies
<1>13. ASSUME NEW w \in Ingests, Ingest(w) PROVE StoreInv'
  <2>1. CASE ClaimIngest(w) BY <2>1 DEF ClaimIngest
  <2>2. CASE Look(w) BY <2>2 DEF Look, Moves
  <2>3. CASE Scan(w) BY <2>3 DEF Scan, Moves
  <2>4. CASE Attest(w) BY <2>4 DEF Attest, Moves
  <2>5. CASE Remove(w) BY <2>5 DEF Remove, Stores
  <2>6. CASE Upload(w)
    <3>1. place[w] = "removed" /\ UNCHANGED <<job, asset, content, holder, lapsed, punctual, enc>>
      BY <2>6 DEF Upload, Stores
    <3>2. CASE object # NoBytes
      <4>1. Only(w, "removed", {"retry"})
        BY <2>6, <3>1, <3>2 DEF Upload, Stores, Only
      <4>2. {"retry"} \cap Storing = {}
        BY DEF Storing
      <4> HIDE DEF TypeOK, StoreInv
      <4> QED BY <4>1, <4>2, StoreMove, Zenon
    <3>3. CASE object = NoBytes
      <4>1. /\ \E q \in {"stored", "retry"} : place' = [place EXCEPT ![w] = q]
            /\ place'[w] = "stored" => object' = enc[w]
        BY <2>6, <3>3 DEF Upload, Stores
      <4>2. punctual => content' = NoBytes
        BY <3>1, Zenon
      <4>3. punctual => \A v \in Ingests \ {w} : place[v] = "idle"
        BY <3>1, Zenon
      <4>4. punctual => \A v \in Ingests : place'[v] = "stored" => v = w
        BY <4>1, <4>3
      <4>5. punctual => \A v \in Ingests : place'[v] = "stored" => object' = enc'[v]
        BY <3>1, <4>1, <4>4, Zenon
      <4> QED BY <3>1, <4>2, <4>5, Zenon
    <3> QED BY <3>2, <3>3
  <2>7. CASE Promote(w) BY <2>7 DEF Promote, Moves, Promotable
  <2>8. CASE RecordPromotion(w) BY <2>8 DEF RecordPromotion, Moves
  <2>9. CASE Assemble(w) BY <2>9 DEF Assemble, Moves
  <2>10. CASE ClaimQc(w)
    <3>1. Only(w, "qc", {"retry", "reserved", "final", "verified", "qc"})
      BY <2>10, ClaimQcMoves, Zenon
    <3>2. {"retry", "reserved", "final", "verified", "qc"} \cap Storing = {}
      BY DEF Storing
    <3> HIDE DEF TypeOK, StoreInv
    <3> QED BY <3>1, <3>2, StoreMove, Zenon
  <2>11. CASE SubmitQc(w) BY <2>11 DEF SubmitQc, Rules, Submittable
  <2>12. CASE Call(w) BY <2>12 DEF Call
  <2>13. CASE RecordAnswer(w) BY <2>13 DEF RecordAnswer, Rules
  <2>14. CASE RecordRejection(w) BY <2>14 DEF RecordRejection, Rules
  <2>15. CASE RecordClock(w) BY <2>15 DEF RecordClock, Moves
  <2>16. CASE Complete(w) BY <2>16 DEF Complete, Moves, ends
  <2>17. CASE Fail(w) BY <2>17 DEF Fail, ends
  <2>18. CASE Falters(w) BY <2>18 DEF Falters, Moves
  <2>19. CASE Dies(w) BY <2>19 DEF Dies, Moves
  <2> QED BY <1>13, <2>1, <2>2, <2>3, <2>4, <2>5, <2>6, <2>7, <2>8, <2>9, <2>10,
            <2>11, <2>12, <2>13, <2>14, <2>15, <2>16, <2>17, <2>18, <2>19 DEF Ingest
<1>14. CASE Lapse BY <1>14 DEF Lapse
<1>15. CASE AuthorityExpires BY <1>15 DEF AuthorityExpires
<1>16. CASE Calms BY <1>16 DEF Calms
<1> QED BY <1>1, <1>2, <1>3, <1>4, <1>5, <1>6, <1>7, <1>8, <1>9,
          <1>10, <1>11, <1>12, <1>13, <1>14, <1>15, <1>16 DEF Next, Tick

-----------------------------------------------------------------------------
(* A stale ingest.                                                          *)

\* What a step of the ingest w does to the others, and to the verdict when
\* the job is not its own.
Stale(w) ==
  /\ \A v \in Ingests \ {w} : place'[v] = place[v]
  /\ place[w] # "idle" /\ holder # w => UNCHANGED verdict

\* No step of an ingest moves another, or decides a job it does not hold.
LEMMA StaleStep ==
  ASSUME TypeOK, NEW w \in Ingests, Ingest(w)
  PROVE  Stale(w)
<1> USE DEF TypeOK, Stale, Holds, verdict, rear, ledger, lease, fixed
<1>1. CASE ClaimIngest(w) BY <1>1 DEF ClaimIngest
<1>2. CASE Look(w) BY <1>2 DEF Look, Moves
<1>3. CASE Scan(w) BY <1>3 DEF Scan, Moves
<1>4. CASE Attest(w) BY <1>4 DEF Attest, Moves
<1>5. CASE Remove(w) BY <1>5 DEF Remove, Stores
<1>6. CASE Upload(w) BY <1>6 DEF Upload, Stores
<1>7. CASE Promote(w) BY <1>7 DEF Promote, Moves, Promotable
<1>8. CASE RecordPromotion(w) BY <1>8 DEF RecordPromotion, Moves
<1>9. CASE Assemble(w) BY <1>9 DEF Assemble, Moves
<1>10. CASE ClaimQc(w) BY <1>10 DEF ClaimQc, Rules, Submittable
<1>11. CASE SubmitQc(w) BY <1>11 DEF SubmitQc, Rules, Submittable
<1>12. CASE Call(w) BY <1>12 DEF Call
<1>13. CASE RecordAnswer(w) BY <1>13 DEF RecordAnswer, Rules
<1>14. CASE RecordRejection(w) BY <1>14 DEF RecordRejection, Rules
<1>15. CASE RecordClock(w) BY <1>15 DEF RecordClock, Moves
<1>16. CASE Complete(w) BY <1>16 DEF Complete, Moves, ends
<1>17. CASE Fail(w) BY <1>17 DEF Fail, ends
<1>18. CASE Falters(w) BY <1>18 DEF Falters, Moves
<1>19. CASE Dies(w) BY <1>19 DEF Dies, Moves
<1> QED BY <1>1, <1>2, <1>3, <1>4, <1>5, <1>6, <1>7, <1>8, <1>9,
          <1>10, <1>11, <1>12, <1>13, <1>14, <1>15, <1>16, <1>17, <1>18, <1>19 DEF Ingest

\* The other steps move no ingest.
LEMMA TickStep ==
  ASSUME Next, ~ \E w \in Ingests : Ingest(w)
  PROVE  place' = place
<1> USE DEF behind, ingests
<1>1. CASE Tick
  <2>1. CASE Dispatch \/ Prepare \/ ClaimSpeech \/ TickFails \/ Mark \/ TickDies
    BY <2>1, Zenon DEF Dispatch, Prepare, ClaimSpeech, TickFails, Mark, TickDies
  <2>2. CASE Consume \/ Submit \/ Speak \/ Accept \/ Register \/ RecordOutput
    BY <2>2, Zenon DEF Consume, Submit, Speak, Accept, Register, RecordOutput, Advances
  <2> QED BY <1>1, <2>1, <2>2 DEF Tick
<1>2. CASE Lapse \/ AuthorityExpires \/ Calms
  BY <1>2, Zenon DEF Lapse, AuthorityExpires, Calms
<1> QED BY <1>1, <1>2 DEF Next

-----------------------------------------------------------------------------
(* The invariant and what follows from it.                                  *)

\* The run that waits for its tick satisfies it.
LEMMA Initially ==
  ASSUME Init
  PROVE  IInv
<1> USE NarrationAssumption DEF Init
<1>1. TypeOK
  <2>1. punctual \in BOOLEAN /\ FALSE \in BOOLEAN
    BY Zenon
  <2>2. 0 \in 0..MaxAttempts /\ 0 \in Nat
    OBVIOUS
  <2>3. /\ place \in [Ingests -> {"idle"}] /\ check \in [Ingests -> Checks]
        /\ enc \in [Ingests -> Encodings \cup {NoBytes}]
    BY DEF Checks
  <2>4. calls \in [Checks \cup {"speech"} -> Nat]
    BY <2>2, Zenon
  <2> QED BY <2>1, <2>2, <2>3, <2>4 DEF TypeOK
<1>2. FrontInv /\ EvidenceInv
  BY DEF FrontInv, EvidenceInv
<1>3. SpendInv /\ SpentOnce
  BY DEF SpendInv, SpentOnce, Unsubmitted, Checks
<1>4. ScanInv /\ AloneInv /\ ApartInv /\ StoreInv
  BY DEF ScanInv, AloneInv, ApartInv, StoreInv
<1> QED BY <1>1, <1>2, <1>3, <1>4 DEF IInv

\* A stuttering step keeps it.
LEMMA Stutters ==
  ASSUME IInv, UNCHANGED vars
  PROVE  IInv'
<1> USE DEF IInv, vars
<1>1. TypeOK'
  BY DEF TypeOK
<1>2. FrontInv' /\ EvidenceInv'
  BY DEF FrontInv, EvidenceInv
<1>3. SpendInv' /\ SpentOnce'
  BY DEF SpendInv, SpentOnce, Unsubmitted
<1>4. ScanInv' /\ AloneInv' /\ ApartInv' /\ StoreInv'
  BY Zenon DEF ScanInv, AloneInv, ApartInv, StoreInv, Holds
<1> QED BY <1>1, <1>2, <1>3, <1>4

\* The inductive invariant holds of every behaviour.
THEOREM NarrationInvariance == Spec => []IInv
<1>1. Init => IInv
  BY Initially
<1>2. IInv /\ [Next]_vars => IInv'
  <2>1. IInv /\ Next => IInv'
    BY TypeStep, FrontStep, EvidenceStep, SpendStep, OnceStep, ScanStep, AloneStep,
       ApartStep, StoreStep DEF IInv
  <2>2. IInv /\ UNCHANGED vars => IInv'
    BY Stutters
  <2> QED BY <2>1, <2>2
<1> QED BY <1>1, <1>2, PTL DEF Spec

\* Every variable keeps its type.
THEOREM NarrationTypeCorrect == Spec => []TypeOK
<1>1. IInv => TypeOK
  BY DEF IInv
<1> QED BY <1>1, NarrationInvariance, PTL

\* Each of the three providers is asked at most once for a narration.
THEOREM SpentOnceHolds == Spec => []SpentOnce
<1>1. IInv => SpentOnce
  BY DEF IInv
<1> QED BY <1>1, NarrationInvariance, PTL

\* The job, the run and the evidence are decided together.
THEOREM DecidedTogetherHolds == Spec => []DecidedTogether
<1>1. IInv => DecidedTogether
  BY DEF IInv, TypeOK, FrontInv, EvidenceInv, DecidedTogether
<1> QED BY <1>1, NarrationInvariance, PTL

\* The path of a promoted narration holds the bytes that were attested, when no
\* ingest outlives its lease.
THEOREM StoredAsPromotedHolds == Spec => []StoredAsPromoted
<1>1. IInv => StoredAsPromoted
  BY DEF IInv, StoreInv, StoredAsPromoted
<1> QED BY <1>1, NarrationInvariance, PTL

\* An ingest whose job another has claimed decides nothing.
THEOREM StaleIngestDecidesNothingHolds == Spec => StaleIngestDecidesNothing
<1>1. TypeOK /\ [Next]_vars =>
        [\A w \in Ingests : place[w] # "idle" /\ holder # w /\ place'[w] # place[w]
                            => UNCHANGED verdict]_vars
  <2>1. TypeOK /\ (\E w \in Ingests : Ingest(w)) =>
          \A w \in Ingests : place[w] # "idle" /\ holder # w /\ place'[w] # place[w]
                             => UNCHANGED verdict
    BY StaleStep, Zenon DEF Stale
  <2>2. Next /\ ~(\E w \in Ingests : Ingest(w)) => place' = place
    BY TickStep
  <2> QED BY <2>1, <2>2
<1> QED BY <1>1, NarrationTypeCorrect, PTL DEF Spec, StaleIngestDecidesNothing
=============================================================================
