----------------------------- MODULE RepairPlan -----------------------------
(***************************************************************************)
(* How an owner's feedback becomes a selective repair plan: the output of   *)
(* the repair director (mvp-repair-director.ts), its continuity closure     *)
(* (mvp-repair-plan.ts), the evidence that ties every affected shot to the  *)
(* feedback (mvp-repair-grounding-evidence.ts), and the command that        *)
(* publishes the plan.                                                      *)
(*                                                                         *)
(* Abstractions.                                                           *)
(*  - the order of the closure's queue is not kept: any shot found and not  *)
(*    visited may be next, which the result must not depend on.             *)
(*  - a reason is kept as the mark of a dependency or its absence; a shot   *)
(*    is grounded in feedback or not, whichever points those are.           *)
(*  - of the fields a shot may revise only the storyboard composition mode  *)
(*    is kept: the others are permitted by the action in both places.       *)
(***************************************************************************)
EXTENDS Integers

CONSTANTS
  TotalShots,   \* 1 to 80 in the code
  Frameless,    \* shots whose accepted clip has no storyboard frame
  Split         \* shots whose storyboard is a legacy split-screen board

ASSUME PlanAssumption ==
  /\ TotalShots \in Nat \ {0}
  /\ Frameless \subseteq 1..TotalShots /\ Split \subseteq 1..TotalShots

Shots == 1..TotalShots
Actions == {"reuse_all", "regenerate_storyboard_and_clip", "regenerate_clip", "reedit_only"}
Proposals == [action : Actions, marked : BOOLEAN]
Decisions == [action : Actions, marked : BOOLEAN, sources : SUBSET Shots]
NoDecision == [action |-> "reuse_all", marked |-> FALSE, sources |-> {}]

VARIABLES
  proposal,     \* the director's action for each shot, marked as a dependency or not
  dependents,   \* the continuity graph: the later shots that show what a shot shows
  stage,        \* how far the plan has come
  found,        \* the keys of the closure: the shots in its queue
  visited,      \* the shots of the queue the loop has passed
  plan          \* the compiled decisions

vars == <<proposal, dependents, stage, found, visited, plan>>

Stages == {"proposed", "refused", "closing", "compiled", "ungrounded", "grounded",
           "unpublished", "published"}
Compiled == stage \in Stages \ {"proposed", "refused", "closing"}

TypeOK ==
  /\ proposal \in [Shots -> Proposals]
  /\ dependents \in [Shots -> SUBSET Shots]
  /\ stage \in Stages
  /\ found \in SUBSET Shots /\ visited \in SUBSET Shots
  /\ plan \in [Shots -> Decisions]

\* sortedEdges: "Continuity dependencies must point to a later shot."
Later(s) == {t \in Shots : t > s}

Init ==
  /\ dependents \in {d \in [Shots -> SUBSET Shots] : \A s \in Shots : d[s] \subseteq Later(s)}
  /\ proposal \in [Shots -> Proposals]
  /\ stage = "proposed"
  /\ found = {} /\ visited = {}
  /\ plan = [s \in Shots |-> NoDecision]

-----------------------------------------------------------------------------
\* A clip cannot be regenerated without a frame: the frame is regenerated too.
Normalised(s) ==
  IF proposal[s].action = "regenerate_clip" /\ s \in Frameless
  THEN [action |-> "regenerate_storyboard_and_clip", marked |-> FALSE]
  ELSE proposal[s]

Affected(s) == Normalised(s).action # "reuse_all"
Direct(s) == Affected(s) /\ ~Normalised(s).marked
Roots == {s \in Shots : Direct(s) /\ Normalised(s).action = "regenerate_storyboard_and_clip"}

Refuse ==
  /\ stage' = "refused"
  /\ UNCHANGED <<proposal, dependents, found, visited, plan>>

\* Something changes, and every legacy board is migrated.
Acceptable ==
  /\ \E s \in Shots : Affected(s)
  /\ \A s \in Split : proposal[s].action = "regenerate_storyboard_and_clip"

Begin ==
  /\ stage = "proposed" /\ Acceptable
  /\ stage' = "closing" /\ found' = Roots
  /\ UNCHANGED <<proposal, dependents, visited, plan>>

RefuseProposal == stage = "proposed" /\ ~Acceptable /\ Refuse

\* Fault: only the dependents of the roots are found.
VisitOnce(s) ==
  /\ stage = "closing" /\ s \in found \ visited
  /\ found' = IF s \in Roots THEN found \cup dependents[s] ELSE found
  /\ visited' = visited \cup {s}
  /\ UNCHANGED <<proposal, dependents, stage, plan>>
\* One turn of the loop of continuityClosure.
Visit(s) ==
  /\ stage = "closing" /\ s \in found \ visited
  /\ found' = found \cup dependents[s]
  /\ visited' = visited \cup {s}
  /\ UNCHANGED <<proposal, dependents, stage, plan>>

\* Fault: the sources of a shot are those the director proposed.
ProposedSources(s) == {t \in Roots : s \in dependents[t]}
\* closure.get(shot): the visited shots it depends on.
Sources(s) == {t \in visited : s \in dependents[t]}
Cascaded(s) == Sources(s) # {}

EditNeighbour(s) ==
  /\ Normalised(s).action = "reedit_only"
  /\ \E t \in Shots : Direct(t) /\ (t = s + 1 \/ t = s - 1)
\* Fault: any affected shot may be marked.
JustifiedAny(s) == Normalised(s).marked => Affected(s)
Justified(s) ==
  Normalised(s).marked => Affected(s) /\ (s \in found \/ EditNeighbour(s))

Decides(s) ==
  [action |-> IF Cascaded(s) THEN "regenerate_storyboard_and_clip" ELSE Normalised(s).action,
   marked |-> Cascaded(s) \/ Normalised(s).marked, sources |-> Sources(s)]

\* compileMvpRepairPlan, after the closure.
Closed == stage = "closing" /\ found \subseteq visited
Compile ==
  /\ Closed /\ \A s \in Shots : Justified(s)
  /\ plan' = [s \in Shots |-> Decides(s)]
  /\ stage' = "compiled"
  /\ UNCHANGED <<proposal, dependents, found, visited>>

RefusePlan == Closed /\ ~(\A s \in Shots : Justified(s)) /\ Refuse

-----------------------------------------------------------------------------
(* The evidence.  The director grounds each action but reuse_all in points  *)
(* of the feedback; the migration of a legacy board may have none (audit).  *)

\* The feedback a shot inherits is that of its sources' own actions.
HasLineage(s, audit) ==
  \E t \in plan[s].sources \cup {s} : proposal[t].action # "reuse_all" /\ t \notin audit
Grounded(s, audit) ==
  \/ plan[s].action = "reuse_all"
  \/ HasLineage(s, audit)
  \/ s \in audit

\* compileMvpRepairGroundingEvidence: every affected shot has its lineage, or
\* the plan is given up.
Ground ==
  /\ stage = "compiled"
  /\ \E audit \in SUBSET Split :
       stage' = IF \A s \in Shots : Grounded(s, audit) THEN "grounded" ELSE "ungrounded"
  /\ UNCHANGED <<proposal, dependents, found, visited, plan>>

-----------------------------------------------------------------------------
\* The shots whose composition mode the director may have changed, and those
\* it must have.
MayMigrate == {s \in Shots : proposal[s].action = "regenerate_storyboard_and_clip"}

\* command_publish_mvp_repair_plan: no decision may change the composition
\* mode, or regenerate the clip of a shot without a frame.
Publishable(migrated) ==
  /\ migrated = {}
  /\ \A s \in Frameless : plan[s].action # "regenerate_clip"
Publish ==
  /\ stage = "grounded"
  /\ \E migrated \in SUBSET MayMigrate :
       /\ Split \subseteq migrated
       /\ stage' = IF Publishable(migrated) THEN "published" ELSE "unpublished"
  /\ UNCHANGED <<proposal, dependents, found, visited, plan>>

-----------------------------------------------------------------------------
Next ==
  \/ Begin \/ RefuseProposal
  \/ \E s \in Shots : Visit(s)
  \/ Compile \/ RefusePlan
  \/ Ground \/ Publish

Spec == Init /\ [][Next]_vars

-----------------------------------------------------------------------------
(* Properties.                                                              *)

Redrawn == {s \in Shots : plan[s].action = "regenerate_storyboard_and_clip"}
ClosedUnder(S) == \A s \in S : dependents[s] \subseteq S

\* "swaps only the dependency-closed affected shot set into the edit": no shot
\* keeps a storyboard drawn from one that is drawn again.
CascadeCloses == Compiled => ClosedUnder(Redrawn)

\* ... and nothing else is regenerated: what is drawn again lies in every
\* closed set that holds the direct repairs, and the rest is as proposed.
CascadeIsMinimal == Compiled =>
  /\ \A S \in SUBSET Shots : Roots \subseteq S /\ ClosedUnder(S) => Redrawn \subseteq S
  /\ \A s \in Shots \ Redrawn : plan[s].action = Normalised(s).action

\* The sources a decision names are the redrawn shots it depends on, all of
\* them, and every redrawn shot the director did not ask for names one.
SourcesAreExact == Compiled =>
  \A s \in Shots :
    /\ plan[s].sources = {t \in Redrawn : s \in dependents[t]}
    /\ s \in Redrawn \ Roots => plan[s].sources # {}

\* Closure is not the director's: a director that leaves the shots down the
\* graph at reuse_all still gets a plan through.  Whatever compiles is grounded.
CompiledIsGrounded == stage # "ungrounded"
=============================================================================
