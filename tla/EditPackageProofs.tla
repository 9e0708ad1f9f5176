-------------------------- MODULE EditPackageProofs --------------------------
(***************************************************************************)
(* For every number of films, overlapping ticks and releases of the worker, *)
(* and every bound on claims and failures, the package of a film keeps its  *)
(* promises; the composition of the packages with the production of the     *)
(* films implements both; and what is packaged is an approved film, whole.  *)
(***************************************************************************)
EXTENDS FilmRelease, MasterReviewProofs

\* A tick past its claim remembers a film and a release; one that found its
\* object in place is right about it.
TaskInv == \A p \in Packagers :
  /\ packager[p].at \notin {"idle", "turn"} =>
       packager[p].film \in Films /\ packager[p].release \in Releases
  /\ packager[p].at = "stored" => object[packager[p].film] = packager[p].release

\* A row that was never enqueued has no claim; a ready one names a release.
FreshInv == \A f \in Films :
  /\ package[f].state = "none" => package[f].claims = 0
  /\ package[f].state = "ready" => package[f].digest \in Releases

PackageInv == PackageTypeOK /\ TaskInv /\ FreshInv /\ ClaimsInBound /\ ReadyIsStored

PackageRows == [state : {"none", "queued", "building", "ready", "failed"},
         claims : 0..MaxClaims, lapsed : BOOLEAN, digest : Digests]
Tasks == [at : Desks, film : Films \cup {Nothing}, claim : 0..MaxClaims, release : Digests]

LEMMA TypeRows ==
  PackageTypeOK <=> /\ package \in [Films -> PackageRows] /\ object \in [Films -> Digests]
                    /\ packager \in [Packagers -> Tasks]
BY DEF PackageTypeOK, PackageRows, Tasks

LEMMA PackageInitInvariant == PackageInit => PackageInv
<1> SUFFICES ASSUME PackageInit PROVE PackageInv
  OBVIOUS
<1> USE PackageAssumption DEF PackageInit, NoPackage, NoTask
<1>1. PackageTypeOK
  BY TypeRows DEF PackageRows, Tasks, Digests, Desks
<1> QED BY <1>1 DEF PackageInv, TaskInv, FreshInv, ClaimsInBound, ReadyIsStored

-----------------------------------------------------------------------------
\* A step of a packager that leaves the rows and the objects alone, and is
\* right about its object when it says so, keeps the invariant.
LEMMA DeskStep ==
  ASSUME PackageInv, NEW p \in Packagers, NEW t \in Tasks,
         UNCHANGED <<package, object>>, packager' = [packager EXCEPT ![p] = t],
         t.at \notin {"idle", "turn"} => t.film \in Films /\ t.release \in Releases,
         t.at = "stored" => object[t.film] = t.release
  PROVE  PackageInv'
<1> USE DEF PackageInv
<1>1. PackageTypeOK'
  BY TypeRows DEF PackageTypeOK, PackageRows, Tasks
<1>2. TaskInv'
  BY TypeRows DEF TaskInv
<1> QED BY <1>1, <1>2 DEF FreshInv, ClaimsInBound, ReadyIsStored

\* The steps of a tick that keep its task: it goes to another desk.
LEMMA GoesStep ==
  ASSUME PackageInv, NEW p \in Packagers, NEW d \in Desks \ {"idle", "turn"}, Goes(p, d),
         packager[p].at \notin {"idle", "turn"}, UNCHANGED <<package, object>>,
         d = "stored" => object[packager[p].film] = packager[p].release
  PROVE  PackageInv'
<1> DEFINE t == [packager[p] EXCEPT !.at = d]
<1>1. t \in Tasks /\ t.film = packager[p].film /\ t.release = packager[p].release /\ t.at = d
  BY TypeRows DEF PackageInv, Tasks
<1>2. packager' = [packager EXCEPT ![p] = t]
  BY DEF Goes
<1>3. t.film \in Films /\ t.release \in Releases
  BY <1>1 DEF PackageInv, TaskInv
<1> HIDE DEF t
<1> QED BY <1>1, <1>2, <1>3, DeskStep

\* ... or ends.
LEMMA EndsStep ==
  ASSUME PackageInv, NEW p \in Packagers, packager' = [packager EXCEPT ![p] = NoTask],
         UNCHANGED <<package, object>>
  PROVE  PackageInv'
<1>1. NoTask \in Tasks /\ NoTask.at = "idle"
  BY PackageAssumption DEF NoTask, Tasks, Desks, Digests
<1> QED BY <1>1, DeskStep

\* A step of the rows: each row is typed, claimed within the bound, and ready
\* only with what its path serves.
RowOK(f, r) ==
  /\ r \in PackageRows
  /\ r.state = "none" => r.claims = 0
  /\ r.state \in {"queued", "building"} =>
       r.claims + (IF r.state = "queued" THEN 1 ELSE 0) <= MaxClaims
  /\ r.state = "ready" => r.digest \in Releases /\ object[f] = r.digest

LEMMA RowsAreOK == ASSUME PackageInv PROVE \A f \in Films : RowOK(f, package[f])
BY TypeRows DEF PackageInv, RowOK, FreshInv, ClaimsInBound, ReadyIsStored

LEMMA RowStep ==
  ASSUME PackageInv, UNCHANGED object,
         package' \in [Films -> PackageRows], \A f \in Films : RowOK(f, package'[f]),
         packager' \in [Packagers -> Tasks], TaskInv'
  PROVE  PackageInv'
<1>1. PackageTypeOK'
  BY TypeRows DEF PackageInv, PackageTypeOK, PackageRows, Tasks
<1> QED BY <1>1 DEF PackageInv, RowOK, FreshInv, ClaimsInBound, ReadyIsStored

\* What the commands make of a row.
LEMMA SettledRow ==
  ASSUME PackageInv, NEW f \in Films, package[f].state = "building"
  PROVE  RowOK(f, Settled(f, "failed"))
<1> DEFINE r == Settled(f, "failed")
<1>1. r \in PackageRows /\ r.state = "failed"
  BY TypeRows DEF PackageInv, Settled, PackageRows
<1> HIDE DEF r
<1>2. RowOK(f, r)
  BY <1>1 DEF RowOK
<1> QED BY <1>2 DEF r

LEMMA UnreadyRow ==
  ASSUME NEW f, NEW r \in PackageRows,
         r.state = "failed" \/ (r.state = "queued" /\ r.claims + 1 <= MaxClaims)
  PROVE  RowOK(f, r)
BY DEF RowOK

LEMMA FailedRow ==
  ASSUME PackageInv, NEW f \in Films, package[f].state = "building"
  PROVE  RowOK(f, AfterFailure(f))
<1> DEFINE r == AfterFailure(f)
<1>1. package[f] \in PackageRows /\ package[f].claims \in 0..MaxClaims
  BY TypeRows DEF PackageInv, PackageRows
<1>2. /\ r \in PackageRows /\ r.claims = package[f].claims
      /\ \/ r.state = "failed"
         \/ r.state = "queued" /\ package[f].claims < MaxFailures
  BY <1>1 DEF AfterFailure, Settled, PackageRows
<1> HIDE DEF r
<1>3. package[f].claims < MaxFailures => package[f].claims + 1 <= MaxClaims
  BY <1>1, PackageAssumption
<1> QED BY <1>2, <1>3, UnreadyRow DEF r

LEMMA TakenRow ==
  ASSUME PackageInv, NEW f \in Films, ~Exhausted(f),
         Lapsed(f) \/ package[f].state = "queued"
  PROVE  /\ RowOK(f, ClaimedRow(f)) /\ package[f].claims + 1 \in 0..MaxClaims
<1>1. package[f] \in PackageRows /\ package[f].claims \in 0..MaxClaims
  BY TypeRows DEF PackageInv, PackageRows
<1>2. package[f].claims + 1 <= MaxClaims
  BY <1>1, PackageAssumption DEF PackageInv, ClaimsInBound, Exhausted, Lapsed
<1>3. package[f].claims + 1 \in 0..MaxClaims
  BY <1>1, <1>2, PackageAssumption
<1> DEFINE r == ClaimedRow(f)
<1>4. r \in PackageRows /\ r.state = "building" /\ r.claims = package[f].claims + 1
  BY <1>1, <1>3 DEF ClaimedRow, Settled, PackageRows
<1> HIDE DEF r
<1>5. RowOK(f, r)
  BY <1>2, <1>3, <1>4 DEF RowOK
<1> QED BY <1>3, <1>5 DEF r

-----------------------------------------------------------------------------
LEMMA EnqueueStep == ASSUME PackageInv, NEW f \in Films, Enqueue(f) PROVE PackageInv'
<1> DEFINE r == [package[f] EXCEPT !.state = "queued"]
<1>1. RowOK(f, r)
  BY TypeRows, PackageAssumption DEF PackageInv, Enqueue, RowOK, PackageRows, FreshInv
<1>2. /\ package' = [package EXCEPT ![f] = r] /\ UNCHANGED <<object, packager>>
  BY DEF Enqueue
<1> HIDE DEF r
<1>3. package' \in [Films -> PackageRows] /\ \A g \in Films : RowOK(g, package'[g])
  BY <1>1, <1>2, RowsAreOK, TypeRows DEF PackageInv, RowOK
<1> QED BY <1>2, <1>3, RowStep, TypeRows DEF PackageInv, TaskInv

LEMMA LapseStep == ASSUME PackageInv, NEW f \in Films, LeaseLapses(f) PROVE PackageInv'
<1> DEFINE r == [package[f] EXCEPT !.lapsed = TRUE]
<1>1. RowOK(f, r)
  BY TypeRows, RowsAreOK DEF PackageInv, RowOK, PackageRows
<1>2. /\ package' = [package EXCEPT ![f] = r] /\ UNCHANGED <<object, packager>>
  BY DEF LeaseLapses
<1> HIDE DEF r
<1>3. package' \in [Films -> PackageRows] /\ \A g \in Films : RowOK(g, package'[g])
  BY <1>1, <1>2, RowsAreOK, TypeRows DEF PackageInv, RowOK
<1> QED BY <1>2, <1>3, RowStep, TypeRows DEF PackageInv, TaskInv

LEMMA TurnStep == ASSUME PackageInv, NEW p \in Packagers, Turn(p) PROVE PackageInv'
<1> DEFINE t == [packager[p] EXCEPT !.at = "turn"]
<1>1. t \in Tasks /\ t.at = "turn" /\ packager' = [packager EXCEPT ![p] = t]
  BY TypeRows DEF PackageInv, Tasks, Desks, Turn
<1> HIDE DEF t
<1> QED BY <1>1, DeskStep DEF Turn

LEMMA ClaimStep ==
  ASSUME PackageInv, NEW p \in Packagers, NEW f \in Films, NEW r \in Releases, Claim(p, f, r)
  PROVE  PackageInv'
<1> DEFINE t == [at |-> "loads", film |-> f, claim |-> package[f].claims + 1, release |-> r]
<1>1. /\ ~Exhausted(f) /\ (Lapsed(f) \/ package[f].state = "queued")
      /\ package' = [g \in Films |-> IF Exhausted(g) THEN Settled(g, "failed")
                                     ELSE IF g = f THEN ClaimedRow(f) ELSE package[g]]
      /\ packager' = [packager EXCEPT ![p] = t] /\ UNCHANGED object
  BY DEF Claim
<1>2. RowOK(f, ClaimedRow(f)) /\ t \in Tasks
  BY <1>1, TakenRow DEF Tasks, Desks, Digests
<1>3. \A g \in Films : Exhausted(g) => RowOK(g, Settled(g, "failed"))
  BY SettledRow DEF Exhausted, Lapsed
<1>4. t.at = "loads" /\ t.film \in Films /\ t.release \in Releases
  OBVIOUS
<1> HIDE DEF t
<1>5. \A g \in Films : RowOK(g, package'[g])
  BY <1>1, <1>2, <1>3, RowsAreOK
<1>6. package' \in [Films -> PackageRows]
  BY <1>1, <1>5 DEF RowOK
<1>7. packager' \in [Packagers -> Tasks] /\ TaskInv'
  BY <1>1, <1>2, <1>4, TypeRows DEF PackageInv, TaskInv
<1> QED BY <1>1, <1>5, <1>6, <1>7, RowStep

LEMMA ClaimNothingStep == ASSUME PackageInv, NEW p \in Packagers, ClaimNothing(p) PROVE PackageInv'
<1>1. /\ package' = [g \in Films |-> IF Exhausted(g) THEN Settled(g, "failed") ELSE package[g]]
      /\ packager' = [packager EXCEPT ![p] = NoTask] /\ UNCHANGED object
  BY DEF ClaimNothing
<1>2. NoTask \in Tasks /\ NoTask.at = "idle"
  BY PackageAssumption DEF NoTask, Tasks, Desks, Digests
<1>3. \A g \in Films : Exhausted(g) => RowOK(g, Settled(g, "failed"))
  BY SettledRow DEF Exhausted, Lapsed
<1>4. \A g \in Films : RowOK(g, package'[g])
  BY <1>1, <1>3, RowsAreOK
<1>5. package' \in [Films -> PackageRows]
  BY <1>1, <1>4 DEF RowOK
<1>6. packager' \in [Packagers -> Tasks] /\ TaskInv'
  BY <1>1, <1>2, TypeRows DEF PackageInv, TaskInv
<1> QED BY <1>1, <1>4, <1>5, <1>6, RowStep

\* The only step that stores anything: nothing was ready at that path.
LEMMA UploadStep == ASSUME PackageInv, NEW p \in Packagers, Upload(p) PROVE PackageInv'
<1> DEFINE f == packager[p].film
           r == packager[p].release
<1>1. /\ f \in Films /\ r \in Releases /\ object[f] = Nothing
      /\ object' = [object EXCEPT ![f] = r] /\ UNCHANGED package
      /\ packager[p].at = "uploads"
  BY DEF Upload, AtDesk, PackageInv, TaskInv
<1>2. PICK d \in {"stored", "unsure"} : packager' = [packager EXCEPT ![p] = [packager[p] EXCEPT !.at = d]]
  BY DEF Upload, Goes
<1>3. PackageTypeOK'
  BY <1>1, <1>2, TypeRows DEF PackageInv, PackageTypeOK, PackageRows, Tasks, Desks, Digests
<1>4. TaskInv'
  <2> SUFFICES ASSUME NEW q \in Packagers
               PROVE  /\ packager'[q].at \notin {"idle", "turn"} =>
                           packager'[q].film \in Films /\ packager'[q].release \in Releases
                      /\ packager'[q].at = "stored" => object'[packager'[q].film] = packager'[q].release
    BY DEF TaskInv
  <2>1. CASE q = p
    BY <1>1, <1>2, <2>1, TypeRows DEF PackageInv, Tasks
  <2>2. CASE q # p
    BY <1>1, <1>2, <2>2, TypeRows, PackageAssumption DEF PackageInv, TaskInv
  <2> QED BY <2>1, <2>2
<1>5. ReadyIsStored'
  BY <1>1, TypeRows, PackageAssumption DEF PackageInv, ReadyIsStored, FreshInv
<1> QED BY <1>1, <1>3, <1>4, <1>5 DEF PackageInv, FreshInv, ClaimsInBound

LEMMA CompleteStep == ASSUME PackageInv, NEW p \in Packagers, Complete(p) PROVE PackageInv'
<1> DEFINE f == packager[p].film
           r == [Settled(f, "ready") EXCEPT !.digest = packager[p].release]
<1>1. /\ f \in Films /\ packager[p].release \in Releases
      /\ object[f] = packager[p].release
      /\ package[f].state = "building" /\ packager[p].at = "stored"
      /\ package' = [package EXCEPT ![f] = r] /\ UNCHANGED object
  BY DEF Complete, AtDesk, HoldsPackage, PackageInv, TaskInv
<1>2. r \in PackageRows /\ r.state = "ready" /\ r.digest = packager[p].release
  BY <1>1, TypeRows DEF PackageInv, Settled, PackageRows, Digests
<1>3. NoTask \in Tasks /\ NoTask.at = "idle"
  BY PackageAssumption DEF NoTask, Tasks, Desks, Digests
<1>4. PICK t \in Tasks :
        /\ packager' = [packager EXCEPT ![p] = t]
        /\ t = NoTask \/ t = [packager[p] EXCEPT !.at = "fails"]
  <2>1. [packager[p] EXCEPT !.at = "fails"] \in Tasks
    BY TypeRows DEF PackageInv, Tasks, Desks
  <2> QED BY <1>3, <2>1 DEF Complete, Goes
<1>5. /\ t.at \notin {"idle", "turn"} => t.film \in Films /\ t.release \in Releases
      /\ t.at # "stored"
  BY <1>1, <1>3, <1>4, TypeRows DEF PackageInv, Tasks
<1> HIDE DEF r
<1>6. RowOK(f, r)
  BY <1>1, <1>2 DEF RowOK
<1>7. package' \in [Films -> PackageRows] /\ \A g \in Films : RowOK(g, package'[g])
  BY <1>1, <1>2, <1>6, RowsAreOK, TypeRows DEF PackageInv
<1>8. packager' \in [Packagers -> Tasks] /\ TaskInv'
  BY <1>1, <1>4, <1>5, TypeRows DEF PackageInv, TaskInv
<1> QED BY <1>1, <1>7, <1>8, RowStep

LEMMA FailStep == ASSUME PackageInv, NEW p \in Packagers, Fail(p) PROVE PackageInv'
<1>1. CASE UNCHANGED package
  BY <1>1, EndsStep DEF Fail
<1>2. CASE ~UNCHANGED package
  <2> DEFINE f == packager[p].film
             r == AfterFailure(f)
  <2>1. /\ f \in Films /\ package[f].state = "building" /\ UNCHANGED object
        /\ package' = [package EXCEPT ![f] = r]
        /\ packager' = [packager EXCEPT ![p] = NoTask]
    BY <1>2 DEF Fail, AtDesk, HoldsPackage, PackageInv, TaskInv
  <2>2. NoTask \in Tasks /\ NoTask.at = "idle"
    BY PackageAssumption DEF NoTask, Tasks, Desks, Digests
  <2>3. RowOK(f, r)
    BY <2>1, FailedRow
  <2> HIDE DEF r
  <2>4. package' \in [Films -> PackageRows] /\ \A g \in Films : RowOK(g, package'[g])
    BY <2>1, <2>3, RowsAreOK, TypeRows DEF PackageInv, RowOK
  <2>5. packager' \in [Packagers -> Tasks] /\ TaskInv'
    BY <2>1, <2>2, TypeRows DEF PackageInv, TaskInv
  <2> QED BY <2>1, <2>4, <2>5, RowStep
<1> QED BY <1>1, <1>2

\* The steps that touch no row and no object.
LEMMA WorkStep ==
  ASSUME PackageInv, NEW p \in Packagers,
         \/ Load(p) \/ LoadFails(p) \/ UploadRefused(p) \/ Reconcile(p)
         \/ CompleteAgain(p) \/ CompleteRefused(p) \/ PackagerDies(p)
  PROVE  PackageInv'
<1>1. CASE Load(p)
  BY <1>1, GoesStep DEF Load, AtDesk, Desks
<1>2. CASE LoadFails(p)
  BY <1>2, GoesStep DEF LoadFails, AtDesk, Desks
<1>3. CASE UploadRefused(p)
  BY <1>3, GoesStep DEF UploadRefused, AtDesk, Desks
<1>4. CASE Reconcile(p)
  BY <1>4, GoesStep DEF Reconcile, AtDesk, Desks
<1>5. CASE CompleteAgain(p)
  BY <1>5, EndsStep DEF CompleteAgain
<1>6. CASE CompleteRefused(p)
  BY <1>6, GoesStep DEF CompleteRefused, AtDesk, Desks
<1>7. CASE PackagerDies(p)
  BY <1>7, EndsStep DEF PackagerDies
<1> QED BY <1>1, <1>2, <1>3, <1>4, <1>5, <1>6, <1>7

LEMMA PackageNextInvariant == PackageInv /\ [PackageNext]_packageVars => PackageInv'
<1> SUFFICES ASSUME PackageInv, [PackageNext]_packageVars PROVE PackageInv'
  OBVIOUS
<1>1. ASSUME NEW f \in Films, Enqueue(f) \/ LeaseLapses(f) PROVE PackageInv'
  BY <1>1, EnqueueStep, LapseStep
<1>2. ASSUME NEW p \in Packagers, Turn(p) \/ Load(p) \/ Claims(p) \/ Works(p) \/ PackagerDies(p)
      PROVE PackageInv'
  <2>1. CASE Claims(p)
    BY <2>1, ClaimStep, ClaimNothingStep DEF Claims
  <2>2. CASE Works(p)
    BY <2>2, WorkStep, UploadStep, CompleteStep, FailStep DEF Works
  <2>3. CASE Turn(p) \/ Load(p) \/ PackagerDies(p)
    BY <2>3, TurnStep, WorkStep
  <2> QED BY <1>2, <2>1, <2>2, <2>3
<1>3. CASE UNCHANGED packageVars
  BY <1>3 DEF packageVars, PackageInv, PackageTypeOK, TaskInv, FreshInv, ClaimsInBound, ReadyIsStored
<1> QED BY <1>1, <1>2, <1>3 DEF PackageNext, PackageStep

\* A row that is ready or failed is claimed by nobody and reported by nobody.
LEMMA SettledStep ==
  ASSUME PackageInv, [PackageNext]_packageVars, NEW f \in Films,
         package[f].state \in {"ready", "failed"}
  PROVE  package'[f] = package[f]
<1>1. CASE UNCHANGED package
  BY <1>1
<1>2. ASSUME NEW g \in Films, Enqueue(g) \/ LeaseLapses(g) PROVE package'[f] = package[f]
  BY <1>2, TypeRows DEF PackageInv, Enqueue, LeaseLapses
<1>3. ASSUME NEW p \in Packagers, Claims(p) PROVE package'[f] = package[f]
  BY <1>3 DEF Claims, Claim, ClaimNothing, Exhausted, Lapsed
<1>4. ASSUME NEW p \in Packagers, Complete(p) \/ Fail(p) PROVE package'[f] = package[f]
  BY <1>4, TypeRows DEF PackageInv, Complete, Fail, HoldsPackage
<1>5. ASSUME NEW p \in Packagers, Turn(p) \/ Load(p) \/ Works(p) \/ PackagerDies(p)
      PROVE  package'[f] = package[f]
  BY <1>4, <1>5 DEF Works, Turn, Load, LoadFails, Upload, UploadRefused, Reconcile,
     CompleteAgain, CompleteRefused, PackagerDies
<1> QED BY <1>1, <1>2, <1>3, <1>5 DEF PackageNext, PackageStep, packageVars

-----------------------------------------------------------------------------
\* The packager's own specification keeps its invariant.
THEOREM PackageInvariance == PackageSpec => []PackageInv
<1> QED BY PackageInitInvariant, PackageNextInvariant, PTL DEF PackageSpec

\* Whatever production does around them, the packages of the composition are
\* packages of that specification.
THEOREM ReleaseImplementsPackages == ReleaseSpec => PackageSpec
<1>1. ReleaseInit => PackageInit
  BY DEF ReleaseInit
<1>2. [ReleaseNext]_releaseVars => [PackageNext]_packageVars
  BY DEF ReleaseNext, releaseVars, PackageNext, Approves, Turns, Loads
<1> QED BY <1>1, <1>2, PTL DEF ReleaseSpec, PackageSpec

\* Every variable of the packages keeps its type.
THEOREM PackageTypeCorrect == ReleaseSpec => []PackageTypeOK
<1>1. PackageInv => PackageTypeOK
  BY DEF PackageInv
<1> QED BY <1>1, ReleaseImplementsPackages, PackageInvariance, PTL

\* What a ready package promises is what its path serves.
THEOREM ReadyIsStoredHolds == ReleaseSpec => []ReadyIsStored
<1>1. PackageInv => ReadyIsStored
  BY DEF PackageInv
<1> QED BY <1>1, ReleaseImplementsPackages, PackageInvariance, PTL

\* No claim exceeds the bound the table enforces.
THEOREM ClaimsInBoundHolds == ReleaseSpec => []ClaimsInBound
<1>1. PackageInv => ClaimsInBound
  BY DEF PackageInv
<1> QED BY <1>1, ReleaseImplementsPackages, PackageInvariance, PTL

\* No package that is ready or failed is reopened.
THEOREM SettledStaysHolds == ReleaseSpec => SettledStays
<1>1. PackageInv /\ [PackageNext]_packageVars =>
        [\A f \in Films : package[f].state \in {"ready", "failed"} =>
                          package'[f] = package[f]]_packageVars
  BY SettledStep
<1> QED BY <1>1, ReleaseImplementsPackages, PackageInvariance, PTL
        DEF PackageSpec, SettledStays

-----------------------------------------------------------------------------
(* The films.                                                               *)

\* Whatever the packager does around them, the films of the composition are
\* produced and reviewed as their own specification says.
THEOREM ReleaseImplementsReview == ReleaseSpec => Spec
<1>1. ReleaseInit => Init
  BY DEF ReleaseInit
<1>2. [ReleaseNext]_releaseVars => [Next]_all
  BY ReleaseAssumption DEF ReleaseNext, releaseVars, Produces, Approves, Turns, Loads, Next
<1> QED BY <1>1, <1>2, PTL DEF ReleaseSpec, Spec

\* Only an approval enqueues a package.
LEMMA EnqueuedStep ==
  ASSUME PackageInv, [ReleaseNext]_releaseVars, NEW f \in Films,
         package[f].state = "none", package'[f].state # "none"
  PROVE  Approve(f)
<1>1. /\ package \in [Films -> PackageRows]
      /\ \A p \in Packagers : packager[p].at \notin {"idle", "turn"} => packager[p].film \in Films
  BY TypeRows DEF PackageInv, TaskInv
<1>2. ASSUME NEW p \in Packagers, Claims(p) PROVE FALSE
  BY <1>2 DEF Claims, Claim, ClaimNothing, Exhausted, Lapsed
<1>3. ASSUME NEW p \in Packagers, Complete(p) \/ Fail(p) PROVE FALSE
  BY <1>1, <1>3 DEF Complete, Fail, HoldsPackage
<1>4. ASSUME NEW p \in Packagers, Turn(p) \/ Load(p) \/ Works(p) \/ PackagerDies(p) PROVE FALSE
  BY <1>3, <1>4 DEF Works, Turn, Load, LoadFails, Upload, UploadRefused, Reconcile,
     CompleteAgain, CompleteRefused, PackagerDies
<1>5. ASSUME NEW g \in Films, LeaseLapses(g) PROVE FALSE
  BY <1>1, <1>5 DEF LeaseLapses, PackageRows
<1>6. ASSUME NEW g \in Films, Approves(g) PROVE Approve(f)
  BY <1>1, <1>6 DEF Approves, Enqueue, PackageRows
<1>7. ~UNCHANGED packageVars
  BY DEF packageVars
<1> QED BY <1>2, <1>4, <1>5, <1>6, <1>7 DEF ReleaseNext, PackageStep, Turns, Loads, releaseVars

\* A film with a package is released.
ReleasedInv == \A f \in Films : package[f].state # "none" => job[f] = "export_ready"

LEMMA ReleasedStep ==
  ASSUME IInv, PackageInv, ReleasedInv, [ReleaseNext]_releaseVars, [Next]_all
  PROVE  ReleasedInv'
<1> SUFFICES ASSUME NEW f \in Films, package'[f].state # "none"
             PROVE  job'[f] = "export_ready"
  BY DEF ReleasedInv
<1>1. CASE package[f].state # "none"
  <2>1. job[f] = "export_ready"
    BY <1>1 DEF ReleasedInv
  <2>2. UNCHANGED all => job' = job
    BY DEF all, vars
  <2> QED BY <2>1, <2>2, DecidedStep, ReleaseAssumption
<1>2. CASE package[f].state = "none"
  BY <1>2, EnqueuedStep, OwnerSteps, TypeParts, ReleaseAssumption DEF IInv
<1> QED BY <1>1, <1>2

\* "The approved edit ledger is incomplete" cannot be: from its approval on,
\* the packager finds the job at the approved master, with every cue and every
\* selected clip, whatever late ticks still do to the film.
THEOREM LedgerIsWholeHolds == ReleaseSpec => []LedgerIsWhole
<1>1. ReleaseInit => ReleasedInv
  BY DEF ReleaseInit, PackageInit, NoPackage, ReleasedInv
<1>2. IInv /\ PackageInv /\ ReleasedInv /\ [ReleaseNext]_releaseVars /\ [Next]_all => ReleasedInv'
  BY ReleasedStep
<1>3. ASSUME IInv, RenderInputsComplete, ReleasedInv PROVE LedgerIsWhole
  <2> SUFFICES ASSUME NEW f \in Films, package[f].state # "none"
               PROVE  /\ job[f] = "export_ready" /\ master[f][attempt[f]] = "approved"
                      /\ RenderInputs(f, attempt[f])
    BY DEF LedgerIsWhole
  <2>1. f \in Jobs /\ job[f] = "export_ready" /\ attempt[f] \in Attempts
    BY <1>3, ReleaseAssumption, TypeParts DEF ReleasedInv, IInv, Rows
  <2>2. master[f][attempt[f]] = "approved"
    BY <1>3, <2>1 DEF IInv, MasterInv, Reviewed
  <2> QED BY <1>3, <2>1, <2>2 DEF RenderInputsComplete
<1>4. IInv /\ RenderInputsComplete /\ ReleasedInv => LedgerIsWhole
  BY <1>3
<1> QED BY <1>1, <1>2, <1>4, ReleaseImplementsReview, ReleaseImplementsPackages,
           ProductionInvariance, PackageInvariance, RenderInputsCompleteHolds, PTL
        DEF ReleaseSpec, Spec
=============================================================================
