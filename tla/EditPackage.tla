----------------------------- MODULE EditPackage -----------------------------
(***************************************************************************)
(* The media package an owner downloads once a film is approved:            *)
(* mvp_edit_packages, the object at its canonical path, and the half of a   *)
(* production tick that builds it (mvp-edit-package.ts).  FilmRelease       *)
(* composes it with the production of the films.                            *)
(*                                                                         *)
(* Each database command and each storage call is one action; a tick may    *)
(* die, or outlive its lease, between any two, and any answer may be lost.  *)
(*                                                                         *)
(* Abstractions.                                                           *)
(*  - a claim changes claim_token and version together and increments       *)
(*    claim_attempt: the number of the claim stands for the three.          *)
(*  - a film has one approved master, so the package is named by the film.  *)
(*  - the bytes of a package are a function of the ledger of its film and   *)
(*    of the release of the worker: the release stands for them.            *)
(***************************************************************************)
EXTENDS Integers

CONSTANTS
  Films,
  Packagers,    \* overlapping ticks
  Releases,     \* deployments of the worker whose zips differ
  Nothing,
  MaxClaims,    \* bound on claims (8 in the code)
  MaxFailures   \* a reported failure is final from this claim on (3 in the code)

ASSUME PackageAssumption ==
  /\ Nothing \notin Films /\ Nothing \notin Releases
  /\ MaxClaims \in Nat /\ MaxFailures \in 1..MaxClaims

Digests == Releases \cup {Nothing}
\* Where a tick is: about to claim, loading the approved ledger, uploading,
\* with an upload it has no good answer to, with the object in place, or with
\* an error to report.
Desks == {"idle", "turn", "loads", "uploads", "unsure", "stored", "fails"}

VARIABLES
  package,   \* the row: its state, claim_attempt, content_sha256, and whether
             \* lease_expires_at has passed
  object,    \* the object at approved-assets.zip, which storage never overwrites
  packager   \* each tick's own memory: its film, its claim, its release

packageVars == <<package, object, packager>>

PackageTypeOK ==
  /\ package \in [Films -> [state : {"none", "queued", "building", "ready", "failed"},
                            claims : 0..MaxClaims, lapsed : BOOLEAN, digest : Digests]]
  /\ object \in [Films -> Digests]
  /\ packager \in [Packagers -> [at : Desks, film : Films \cup {Nothing},
                                 claim : 0..MaxClaims, release : Digests]]

NoPackage == [state |-> "none", claims |-> 0, lapsed |-> FALSE, digest |-> Nothing]
NoTask == [at |-> "idle", film |-> Nothing, claim |-> 0, release |-> Nothing]

PackageInit ==
  /\ package = [f \in Films |-> NoPackage]
  /\ object = [f \in Films |-> Nothing]
  /\ packager = [p \in Packagers |-> NoTask]

-----------------------------------------------------------------------------
(* The row and its claims.                                                  *)

\* enqueue_mvp_edit_package, the trigger of an approval.
Enqueue(f) ==
  /\ package[f].state = "none"
  /\ package' = [package EXCEPT ![f].state = "queued"]
  /\ UNCHANGED <<object, packager>>

\* The tick of the cron route found no production job to advance.
Turn(p) ==
  /\ packager[p].at = "idle"
  /\ packager' = [packager EXCEPT ![p].at = "turn"]
  /\ UNCHANGED <<package, object>>

Lapsed(f) == package[f].state = "building" /\ package[f].lapsed
Exhausted(f) == Lapsed(f) /\ package[f].claims >= MaxClaims
Settled(f, s) == [package[f] EXCEPT !.state = s, !.lapsed = FALSE]

\* Fault: the claims that were never reported are not counted.
CountedRow(f) == [Settled(f, "building") EXCEPT
                        !.claims = IF package[f].state = "queued" THEN @ + 1 ELSE @]
ClaimedRow(f) == [Settled(f, "building") EXCEPT !.claims = @ + 1]

\* claim_next_mvp_edit_package: exhausted rows fail, then a lapsed row is taken
\* over before a queued one is started.
Claim(p, f, r) ==
  /\ packager[p].at = "turn" /\ ~Exhausted(f)
  /\ \/ Lapsed(f)
     \/ package[f].state = "queued" /\ \A g \in Films : Lapsed(g) => Exhausted(g)
  /\ package' = [g \in Films |-> IF Exhausted(g) THEN Settled(g, "failed")
                                 ELSE IF g = f THEN ClaimedRow(f) ELSE package[g]]
  /\ packager' = [packager EXCEPT ![p] = [at |-> "loads", film |-> f,
                    claim |-> package[f].claims + 1, release |-> r]]
  /\ UNCHANGED object

\* ... or there is nothing to claim.
ClaimNothing(p) ==
  /\ packager[p].at = "turn"
  /\ \A f \in Films : Lapsed(f) \/ package[f].state = "queued" => Exhausted(f)
  /\ package' = [g \in Films |-> IF Exhausted(g) THEN Settled(g, "failed") ELSE package[g]]
  /\ packager' = [packager EXCEPT ![p] = NoTask]
  /\ UNCHANGED object

LeaseLapses(f) ==
  /\ package[f].state = "building" /\ ~package[f].lapsed
  /\ package' = [package EXCEPT ![f].lapsed = TRUE]
  /\ UNCHANGED <<object, packager>>

-----------------------------------------------------------------------------
(* Building it.                                                             *)

AtDesk(p, d) == packager[p].at = d
Goes(p, d) == packager' = [packager EXCEPT ![p].at = d]

\* buildPackage up to the upload: the master, the job, the effective clips,
\* frames and edit decisions, every object checked against its digest, the zip.
Load(p) ==
  /\ AtDesk(p, "loads") /\ Goes(p, "uploads")
  /\ UNCHANGED <<package, object>>

\* Any read or sandbox call may fail.
LoadFails(p) ==
  /\ AtDesk(p, "loads") /\ Goes(p, "fails")
  /\ UNCHANGED <<package, object>>

\* Fault: the upload replaces what is there (upsert: true).
UploadOver(p) ==
  /\ AtDesk(p, "uploads")
  /\ object' = [object EXCEPT ![packager[p].film] = packager[p].release]
  /\ Goes(p, "stored") \/ Goes(p, "unsure")
  /\ UNCHANGED package
\* upload with upsert: false; the answer may be lost after the object commits.
Upload(p) ==
  /\ AtDesk(p, "uploads") /\ object[packager[p].film] = Nothing
  /\ object' = [object EXCEPT ![packager[p].film] = packager[p].release]
  /\ Goes(p, "stored") \/ Goes(p, "unsure")
  /\ UNCHANGED package

\* The path is taken, or the upload fails.
UploadRefused(p) ==
  /\ AtDesk(p, "uploads") /\ Goes(p, "unsure")
  /\ UNCHANGED <<package, object>>

\* The bytes at the path are read, if they can be, and compared.
Reconcile(p) ==
  /\ AtDesk(p, "unsure")
  /\ \/ Goes(p, "fails")
     \/ object[packager[p].film] = packager[p].release /\ Goes(p, "stored")
  /\ UNCHANGED <<package, object>>

-----------------------------------------------------------------------------
(* Reporting it.                                                            *)

HoldsPackage(p) == LET f == packager[p].film IN
  package[f].state = "building" /\ package[f].claims = packager[p].claim
                                /\ ~package[f].lapsed

\* complete_mvp_edit_package; its answer may be lost.
Complete(p) ==
  /\ AtDesk(p, "stored") /\ HoldsPackage(p)
  /\ package' = [package EXCEPT ![packager[p].film] =
                   [Settled(packager[p].film, "ready") EXCEPT !.digest = packager[p].release]]
  /\ Goes(p, "fails") \/ packager' = [packager EXCEPT ![p] = NoTask]
  /\ UNCHANGED object

\* ... replayed on the committed output it is answered with success, by
\* whichever claim.
CompleteAgain(p) ==
  /\ AtDesk(p, "stored")
  /\ package[packager[p].film].state = "ready"
  /\ package[packager[p].film].digest = packager[p].release
  /\ packager' = [packager EXCEPT ![p] = NoTask]
  /\ UNCHANGED <<package, object>>

\* ... it is stale, in conflict, or lost.
CompleteRefused(p) ==
  /\ AtDesk(p, "stored") /\ Goes(p, "fails")
  /\ UNCHANGED <<package, object>>

\* What a reported failure makes of the row.
AfterFailure(f) ==
  Settled(f, IF package[f].claims < MaxFailures THEN "queued" ELSE "failed")

\* fail_mvp_edit_package; whether it was refused or lost is not looked at.
Fail(p) ==
  /\ AtDesk(p, "fails")
  /\ \/ /\ HoldsPackage(p)
        /\ package' = [package EXCEPT ![packager[p].film] = AfterFailure(packager[p].film)]
     \/ UNCHANGED package
  /\ packager' = [packager EXCEPT ![p] = NoTask]
  /\ UNCHANGED object

\* The function that runs the tick is killed.
PackagerDies(p) ==
  /\ ~AtDesk(p, "idle")
  /\ packager' = [packager EXCEPT ![p] = NoTask]
  /\ UNCHANGED <<package, object>>

-----------------------------------------------------------------------------
Claims(p) == ClaimNothing(p) \/ \E f \in Films, r \in Releases : Claim(p, f, r)
Works(p) ==
  \/ LoadFails(p) \/ Upload(p) \/ UploadRefused(p) \/ Reconcile(p)
  \/ Complete(p) \/ CompleteAgain(p) \/ CompleteRefused(p) \/ Fail(p)
\* What the composition leaves as it is.
PackageStep ==
  \/ \E p \in Packagers : Claims(p) \/ Works(p) \/ PackagerDies(p)
  \/ \E f \in Films : LeaseLapses(f)

PackageNext ==
  \/ PackageStep
  \/ \E f \in Films : Enqueue(f)
  \/ \E p \in Packagers : Turn(p) \/ Load(p)

PackageSpec == PackageInit /\ [][PackageNext]_packageVars

-----------------------------------------------------------------------------
(* Properties.                                                              *)

\* "Reconcile the immutable bytes at that exact path": what a ready package
\* promises is what its path serves, though the object may have been put there
\* by a tick that died and the row completed by another, of another release.
ReadyIsStored ==
  \A f \in Films : package[f].state = "ready" => object[f] = package[f].digest

\* A claim never breaks claim_attempt between 0 and 8, which would stop the
\* queue for every film: a row that has used its claims is failed before.
ClaimsInBound ==
  \A f \in Films : package[f].state \in {"queued", "building"} =>
    package[f].claims + (IF package[f].state = "queued" THEN 1 ELSE 0) <= MaxClaims

\* No report of a superseded claim, replay or lapsed lease reopens a package
\* that is ready or failed.
SettledStays ==
  [][\A f \in Films : package[f].state \in {"ready", "failed"} => package'[f] = package[f]]_packageVars
=============================================================================
