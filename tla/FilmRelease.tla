----------------------------- MODULE FilmRelease -----------------------------
(***************************************************************************)
(* Films from their production to the package their owner downloads: the    *)
(* production and review of MasterReview and the packages of EditPackage.   *)
(* They meet in three places: an approval enqueues the package of the film, *)
(* a tick builds packages only when it found no job to advance, and the     *)
(* packager reads the ledger of the approved film from the job the approval *)
(* has released.                                                            *)
(***************************************************************************)
EXTENDS MasterReview, EditPackage

\* The film of a package is the job of its production run.
ASSUME ReleaseAssumption == Films = Jobs

releaseVars == <<packageVars, all>>

ReleaseInit == PackageInit /\ Init

\* command_claim_next_mvp_production_job finds nothing.
ProductionIdle == \A f \in Films : ~(job[f] \in Working /\ Free(f))

\* loadEddBinding, selectedAssetIds: the decisions and selections of a repaired
\* film are found through active_repair_request_id.
LedgerBound(f) == attempt[f] > 1 => request[f] # "none"

\* Fault: any decision of the owner enqueues the package.
PackagesReviewed(f) == (Approve(f) \/ Reject(f)) /\ Enqueue(f)
Approves(f) == Approve(f) /\ Enqueue(f)
Turns(p) == Turn(p) /\ ProductionIdle /\ UNCHANGED all
Loads(p) == Load(p) /\ LedgerBound(packager[p].film) /\ UNCHANGED all

Produces ==
  \/ ProductionNext /\ UNCHANGED review
  \/ ReviewSource
  \/ \E f \in Films : DecideCulture(f) \/ Reject(f) \/ Retry(f) \/ Answer(f)

ReleaseNext ==
  \/ Produces /\ UNCHANGED packageVars
  \/ PackageStep /\ UNCHANGED all
  \/ \E f \in Films : Approves(f)
  \/ \E p \in Packagers : Turns(p) \/ Loads(p)

\* A tick that finds production idle goes on, and is not killed each time before
\* it has claimed a package; a claimed tick ends, one way or the other.
ReleaseFairness ==
  /\ \A p \in Packagers :
       /\ SF_releaseVars(Turns(p)) /\ SF_releaseVars(Claims(p) /\ UNCHANGED all)
       /\ WF_releaseVars(Loads(p) \/ ((Works(p) \/ PackagerDies(p)) /\ UNCHANGED all))
  /\ \A f \in Films : WF_releaseVars(LeaseLapses(f) /\ UNCHANGED all)

ReleaseSpec ==
  ReleaseInit /\ [][ReleaseNext]_releaseVars /\ ProductionFairness /\ ReleaseFairness

-----------------------------------------------------------------------------
(* Properties.                                                              *)

\* An approved film's package is ready or given up in the end, whichever ticks
\* die with it in their hands.
PackageSettles ==
  \A f \in Films : package[f].state = "queued" ~> package[f].state \in {"ready", "failed"}

\* MVP-EDIT-006: "Approval triggers an editable-media package containing all
\* and only the storyboard images and clips used by the approved master."
\* Whatever is approved, a tick can load what it was made of.
ApprovedIsPackageable ==
  \A f \in Films : package[f].state \in {"queued", "building"} => LedgerBound(f)

\* "The approved edit ledger is incomplete" cannot be: the packager reads the
\* rows of the film as they stand, and whatever late ticks still do to them,
\* an enqueued package is of the approved master of its job, every cue and
\* every selected clip of which is there.
LedgerIsWhole ==
  \A f \in Films : package[f].state # "none" =>
    /\ job[f] = "export_ready" /\ master[f][attempt[f]] = "approved"
    /\ RenderInputs(f, attempt[f])
=============================================================================
