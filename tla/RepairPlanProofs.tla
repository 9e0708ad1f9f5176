-------------------------- MODULE RepairPlanProofs --------------------------
(***************************************************************************)
(* For every number of shots and every continuity graph, the plan that is   *)
(* compiled redraws the shots the closure found, which are the least closed *)
(* set that holds the direct repairs, whatever order its queue is read in.  *)
(***************************************************************************)
EXTENDS RepairPlan, TLAPS

\* The loop: what it found holds the roots and the dependents of what it
\* visited, and nothing that is not a root or the dependent of a visited shot.
LoopInv == stage = "closing" \/ Compiled =>
  /\ Roots \subseteq found /\ visited \subseteq found
  /\ \A s \in visited : dependents[s] \subseteq found
  /\ \A s \in found : s \in Roots \/ Cascaded(s)
  /\ \A S \in SUBSET Shots : Roots \subseteq S /\ ClosedUnder(S) => found \subseteq S

\* The plan: compiled when the loop has passed everything it found.
PlanInv == Compiled =>
  /\ found \subseteq visited
  /\ \A s \in Shots : Justified(s)
  /\ plan = [s \in Shots |-> Decides(s)]

FreshInv == stage = "proposed" => visited = {}

IInv == TypeOK /\ LoopInv /\ PlanInv /\ FreshInv

-----------------------------------------------------------------------------
\* What the fallback returns is a proposal.
LEMMA NormalisedType ==
  ASSUME TypeOK, NEW s \in Shots PROVE Normalised(s) \in Proposals
BY DEF TypeOK, Normalised, Proposals, Actions

\* A step that keeps the director's proposal and the graph keeps the roots, and
\* with the visited shots it keeps what a shot is decided.
LEMMA SameRoots ==
  ASSUME UNCHANGED <<proposal, dependents>>
  PROVE  /\ Roots' = Roots
         /\ \A S : ClosedUnder(S)' <=> ClosedUnder(S)
         /\ \A s : Normalised(s)' = Normalised(s) /\ (Affected(s)' <=> Affected(s))
BY DEF Roots, Direct, Affected, Normalised, ClosedUnder

LEMMA SameDecisions ==
  ASSUME UNCHANGED <<proposal, dependents, found, visited>>
  PROVE  \A s : /\ (Cascaded(s)' <=> Cascaded(s)) /\ Decides(s)' = Decides(s)
                /\ (Justified(s)' <=> Justified(s))
BY DEF Cascaded, Sources, Decides, Justified, EditNeighbour, Direct, Affected, Normalised

LEMMA InitInvariant == Init => IInv
<1> SUFFICES ASSUME Init PROVE IInv
  OBVIOUS
<1>1. TypeOK
  BY DEF Init, TypeOK, Stages, NoDecision, Decisions, Actions
<1>2. stage = "proposed" /\ ~Compiled /\ visited = {}
  BY DEF Init, Compiled, Stages
<1> QED BY <1>1, <1>2 DEF IInv, LoopInv, PlanInv, FreshInv

-----------------------------------------------------------------------------
\* A step that moves the stage only, outside of the loop.
LEMMA StageStep ==
  ASSUME IInv, UNCHANGED <<proposal, dependents, found, visited, plan>>,
         stage' \in Stages, stage' # "proposed", stage' # "closing",
         Compiled' => Compiled
  PROVE  IInv'
<1> USE DEF IInv
<1>1. TypeOK'
  BY DEF TypeOK
<1>2. LoopInv'
  <2> SUFFICES ASSUME Compiled' PROVE LoopInv'
    BY DEF LoopInv
  <2> QED BY SameRoots, SameDecisions DEF LoopInv
<1>3. PlanInv'
  BY SameDecisions DEF PlanInv
<1> QED BY <1>1, <1>2, <1>3 DEF FreshInv

LEMMA BeginStep == ASSUME IInv, Begin PROVE IInv'
<1> USE DEF IInv
<1>1. UNCHANGED <<proposal, dependents>> /\ found' = Roots /\ visited' = {}
  BY DEF Begin, FreshInv
<1>2. TypeOK'
  BY DEF Begin, TypeOK, Roots, Stages
<1>3. LoopInv'
  BY <1>1, SameRoots DEF LoopInv
<1>4. stage' = "closing" /\ ~Compiled'
  BY DEF Begin, Compiled, Stages
<1> QED BY <1>2, <1>3, <1>4 DEF PlanInv, FreshInv

LEMMA VisitStep == ASSUME IInv, NEW s \in Shots, Visit(s) PROVE IInv'
<1> USE DEF IInv
<1>1. /\ UNCHANGED <<proposal, dependents, plan>> /\ stage = "closing" /\ stage' = "closing"
      /\ s \in found /\ found' = found \cup dependents[s] /\ visited' = visited \cup {s}
  BY DEF Visit
<1>2. TypeOK'
  BY <1>1 DEF TypeOK
<1>3. ~Compiled'
  BY <1>1 DEF Compiled, Stages
<1>4. Roots' = Roots /\ \A S : ClosedUnder(S)' <=> ClosedUnder(S)
  BY <1>1, SameRoots
<1>5. \A t \in found' : t \in Roots \/ Cascaded(t)'
  <2> SUFFICES ASSUME NEW t \in found', t \notin Roots PROVE Cascaded(t)'
    OBVIOUS
  <2>1. CASE t \in found
    BY <1>1, <2>1 DEF LoopInv, Cascaded, Sources
  <2>2. CASE t \in dependents[s]
    BY <1>1, <2>2 DEF Cascaded, Sources
  <2> QED BY <1>1, <2>1, <2>2
<1>6. \A S \in SUBSET Shots : Roots \subseteq S /\ ClosedUnder(S) => found' \subseteq S
  BY <1>1 DEF LoopInv, ClosedUnder
<1>7. LoopInv'
  BY <1>1, <1>4, <1>5, <1>6 DEF LoopInv
<1> QED BY <1>1, <1>2, <1>3, <1>7 DEF PlanInv, FreshInv

LEMMA CompileStep == ASSUME IInv, Compile PROVE IInv'
<1> USE DEF IInv
<1>1. /\ UNCHANGED <<proposal, dependents, found, visited>>
      /\ stage = "closing" /\ found \subseteq visited
      /\ \A s \in Shots : Justified(s)
      /\ plan' = [s \in Shots |-> Decides(s)] /\ stage' = "compiled"
  BY DEF Compile, Closed
<1>2. TypeOK'
  <2>1. \A s \in Shots : Decides(s) \in Decisions
    BY NormalisedType DEF Decides, Decisions, Proposals, Actions, Sources, TypeOK, Cascaded
  <2> QED BY <1>1, <2>1 DEF TypeOK, Stages
<1>3. LoopInv'
  BY <1>1, SameRoots, SameDecisions DEF LoopInv
<1>4. PlanInv'
  BY <1>1, SameDecisions DEF PlanInv
<1> QED BY <1>1, <1>2, <1>3, <1>4 DEF FreshInv

LEMMA NextInvariant == IInv /\ [Next]_vars => IInv'
<1> SUFFICES ASSUME IInv, [Next]_vars PROVE IInv'
  OBVIOUS
<1>1. CASE Begin
  BY <1>1, BeginStep
<1>2. CASE \E s \in Shots : Visit(s)
  BY <1>2, VisitStep
<1>3. CASE Compile
  BY <1>3, CompileStep
<1>4. CASE RefuseProposal \/ RefusePlan
  BY <1>4, StageStep DEF RefuseProposal, RefusePlan, Refuse, Compiled, Stages
<1>5. CASE Ground
  BY <1>5, StageStep DEF Ground, Compiled, Stages
<1>6. CASE Publish
  BY <1>6, StageStep DEF Publish, Compiled, Stages
<1>7. CASE UNCHANGED vars
  <2>1. UNCHANGED <<proposal, dependents, stage, found, visited, plan>>
    BY <1>7 DEF vars
  <2> QED BY <2>1, SameRoots, SameDecisions
          DEF IInv, TypeOK, LoopInv, PlanInv, FreshInv, Compiled
<1> QED BY <1>1, <1>2, <1>3, <1>4, <1>5, <1>6, <1>7 DEF Next

-----------------------------------------------------------------------------
\* What a compiled plan redraws is what the closure found.
LEMMA RedrawnIsFound == ASSUME IInv, Compiled PROVE Redrawn = found
<1> USE DEF IInv
<1>1. ASSUME NEW s \in found PROVE s \in Redrawn
  <2>1. s \in Shots /\ plan[s] = Decides(s)
    BY <1>1 DEF TypeOK, PlanInv
  <2>2. s \in Roots \/ Cascaded(s)
    BY DEF LoopInv
  <2> QED BY <2>1, <2>2 DEF Redrawn, Decides, Roots
<1>2. ASSUME NEW s \in Redrawn PROVE s \in found
  <2>1. /\ s \in Shots /\ plan[s] = Decides(s) /\ Justified(s)
        /\ plan[s].action = "regenerate_storyboard_and_clip"
    BY <1>2 DEF Redrawn, PlanInv
  <2>2. CASE Cascaded(s)
    BY <2>2 DEF Cascaded, Sources, LoopInv
  <2>3. CASE ~Cascaded(s)
    <3>1. Normalised(s).action = "regenerate_storyboard_and_clip"
      BY <2>1, <2>3 DEF Decides
    <3>2. CASE Normalised(s).marked
      BY <2>1, <3>1, <3>2 DEF Justified, EditNeighbour
    <3>3. CASE ~Normalised(s).marked
      BY <2>1, <3>1, <3>3 DEF LoopInv, Roots, Direct, Affected
    <3> QED BY <3>2, <3>3
  <2> QED BY <2>2, <2>3
<1> QED BY <1>1, <1>2 DEF Redrawn

LEMMA PlanIsExact == IInv => CascadeCloses /\ CascadeIsMinimal /\ SourcesAreExact
<1> SUFFICES ASSUME IInv, Compiled
             PROVE  CascadeCloses /\ CascadeIsMinimal /\ SourcesAreExact
  BY DEF CascadeCloses, CascadeIsMinimal, SourcesAreExact
<1> USE DEF IInv
<1>1. Redrawn = found /\ found = visited
  BY RedrawnIsFound DEF LoopInv, PlanInv
<1>2. CascadeCloses
  BY <1>1 DEF CascadeCloses, ClosedUnder, LoopInv
<1>3. CascadeIsMinimal
  <2>1. ASSUME NEW s \in Shots \ Redrawn PROVE plan[s].action = Normalised(s).action
    BY <2>1 DEF PlanInv, Decides, Redrawn
  <2> QED BY <1>1, <2>1 DEF CascadeIsMinimal, LoopInv
<1>4. SourcesAreExact
  <2>1. ASSUME NEW s \in Shots PROVE plan[s].sources = Sources(s)
    BY <2>1 DEF PlanInv, Decides
  <2>2. \A s \in Shots : Sources(s) = {t \in Redrawn : s \in dependents[t]}
    BY <1>1 DEF Sources
  <2>3. \A s \in Redrawn \ Roots : s \in Shots /\ Sources(s) # {}
    BY <1>1 DEF LoopInv, Cascaded, TypeOK
  <2> QED BY <2>1, <2>2, <2>3 DEF SourcesAreExact
<1> QED BY <1>2, <1>3, <1>4

\* The inductive invariant holds of every behaviour.
THEOREM PlanInvariance == Spec => []IInv
<1> QED BY InitInvariant, NextInvariant, PTL DEF Spec

\* Every variable keeps its type.
THEOREM PlanTypeCorrect == Spec => []TypeOK
<1>1. IInv => TypeOK
  BY DEF IInv
<1> QED BY <1>1, PlanInvariance, PTL

\* No shot keeps a storyboard drawn from one that is drawn again.
THEOREM CascadeClosesHolds == Spec => []CascadeCloses
<1> QED BY PlanInvariance, PlanIsExact, PTL

\* Nothing is redrawn that the direct repairs do not reach.
THEOREM CascadeIsMinimalHolds == Spec => []CascadeIsMinimal
<1> QED BY PlanInvariance, PlanIsExact, PTL

\* The sources a decision names are the redrawn shots it depends on.
THEOREM SourcesAreExactHolds == Spec => []SourcesAreExact
<1> QED BY PlanInvariance, PlanIsExact, PTL
=============================================================================
