--------------------------- MODULE PreflightProofs ---------------------------
(***************************************************************************)
(* Proofs about Preflight and PreflightWorkers, for every number of runs,   *)
(* attempts and ticks.                                                     *)
(*                                                                         *)
(* The control plane comes first, under the assumptions of Preflight alone: *)
(* its types, its invariant, its promises, and that it implements the       *)
(* authority lane.  The processes come last: the ticks, the reconciler, the *)
(* reaper and the clock only ever do what its commands allow, so that all   *)
(* that is proved of it holds of them, and a tick whose authority is gone   *)
(* acts in vain.                                                           *)
(***************************************************************************)
EXTENDS PreflightWorkers, TLAPS

-----------------------------------------------------------------------------
(* Type correctness.                                                        *)

LEMMA CloseLeaseType ==
  ASSUME TypeOK, NEW r \in Runs, NEW a \in Slots, NEW s \in LeaseStates
  PROVE  CloseLease(r, a, s) \in [Slots -> LeaseStates]
BY DEF TypeOK, CloseLease

LEMMA SurfaceType ==
  ASSUME TypeOK, NEW r \in Runs, SurfaceTerminalFailure(r)
  PROVE  blockedWork' \in [Runs -> [Slots -> {"none", "open", "superseded"}]]
BY DEF TypeOK, SurfaceTerminalFailure

LEMMA SupersedeType ==
  ASSUME TypeOK, NEW r \in Runs, SupersedeRecoveredWork(r)
  PROVE  blockedWork' \in [Runs -> [Slots -> {"none", "open", "superseded"}]]
BY DEF TypeOK, SupersedeRecoveredWork

LEMMA RunFailsType ==
  ASSUME TypeOK, NEW r \in Runs,
         NEW att \in [Slots -> AttemptStates],
         NEW lse \in [Slots -> LeaseStates],
         NEW stg \in StageStates,
         RunFails(r, att, lse, stg)
  PROVE  /\ runState' \in [Runs -> RunStates]
         /\ attempt' \in [Runs -> [Slots -> AttemptStates]]
         /\ lease' \in [Runs -> [Slots -> LeaseStates]]
         /\ stageState' \in [Runs -> StageStates]
         /\ blockedWork' \in [Runs -> [Slots -> {"none", "open", "superseded"}]]
<1>1. runState' \in [Runs -> RunStates]
  BY DEF TypeOK, RunFails, RunStates, TerminalRun
<1>2. attempt' \in [Runs -> [Slots -> AttemptStates]]
  BY DEF TypeOK, RunFails, AttemptStates, TerminalStage
<1>3. lease' \in [Runs -> [Slots -> LeaseStates]]
  BY DEF TypeOK, RunFails, LeaseStates
<1>4. stageState' \in [Runs -> StageStates]
  BY DEF TypeOK, RunFails, StageStates, TerminalStage
<1>5. QED
  BY <1>1, <1>2, <1>3, <1>4, SurfaceType DEF RunFails

LEMMA RequeueType ==
  ASSUME TypeOK, NEW r \in Runs, RequeueRun(r)
  PROVE  /\ stageState' \in [Runs -> StageStates]
         /\ due' \in [Runs -> BOOLEAN]
         /\ runState' \in [Runs -> RunStates]
         /\ triggerRun' \in [Runs -> TriggerRuns \cup {NoTrigger}]
BY DEF TypeOK, RequeueRun, StageStates, RunStates

LEMMA IssueType ==
  ASSUME TypeOK, NEW r \in Runs, IssueAttempt(r)
  PROVE  /\ issued' \in [Runs -> Nat]
         /\ attempt' \in [Runs -> [Slots -> AttemptStates]]
         /\ lease' \in [Runs -> [Slots -> LeaseStates]]
         /\ stageState' \in [Runs -> StageStates]
<1>1. "claimed" \in AttemptStates /\ "claimed" \in StageStates
      /\ "live" \in LeaseStates
  BY DEF AttemptStates, StageStates, LiveStates, LeaseStates, ActiveLease
<1>2. issued' \in [Runs -> Nat]
  BY DEF TypeOK, IssueAttempt
<1>3. attempt' \in [Runs -> [Slots -> AttemptStates]]
  BY <1>1 DEF TypeOK, IssueAttempt
<1>4. lease' \in [Runs -> [Slots -> LeaseStates]]
  BY <1>1 DEF TypeOK, IssueAttempt
<1>5. stageState' \in [Runs -> StageStates]
  BY <1>1 DEF TypeOK, IssueAttempt
<1>6. QED
  BY <1>2, <1>3, <1>4, <1>5

LEMMA RunCommandType ==
  ASSUME TypeOK, NEW r \in Runs, RunCommand(r)
  PROVE  TypeOK'
<1>1. CASE CreateRun(r)
  BY <1>1 DEF TypeOK, CreateRun, RunStates, StageStates
<1>2. CASE EnqueueRun(r)
  BY <1>2 DEF TypeOK, EnqueueRun, MoveRun, RunStates
<1>3. CASE \E w \in WaitingStates : WaitRun(r, w)
  BY <1>3 DEF TypeOK, WaitRun, MoveRun, RunStates
<1>4. CASE PauseRun(r)
  BY <1>4 DEF TypeOK, PauseRun, MoveRun, RunStates
<1>5. CASE SucceedRun(r)
  BY <1>5, SupersedeType DEF TypeOK, SucceedRun, MoveRun, RunStates, TerminalRun
<1>6. CASE FailRun(r)
  <2>1. /\ attempt[r] \in [Slots -> AttemptStates]
        /\ lease[r] \in [Slots -> LeaseStates]
        /\ stageState[r] \in StageStates
    BY DEF TypeOK
  <2>2. QED
    BY <1>6, <2>1, RunFailsType DEF TypeOK, FailRun
<1>7. CASE RequeueClaimed(r)
  BY <1>7 DEF TypeOK, RequeueClaimed, MoveRun, RunStates
<1>8. QED
  BY <1>1, <1>2, <1>3, <1>4, <1>5, <1>6, <1>7 DEF RunCommand

LEMMA TriggerCommandType ==
  ASSUME TypeOK, NEW r \in Runs, NEW t \in TriggerRuns, TriggerCommand(r, t)
  PROVE  TypeOK'
<1>1. CASE StartRun(r, t)
  BY <1>1 DEF TypeOK, StartRun, MoveRun, RunStates
<1>2. CASE DispatchFresh(r, t)
  BY <1>2, IssueType DEF TypeOK, DispatchFresh, MoveRun, RunStates
<1>3. CASE DispatchResume(r, t)
  BY <1>3 DEF TypeOK, DispatchResume, MoveRun, RunStates
<1>4. CASE FinalizeControl(r, t)
  BY <1>4, SupersedeType
     DEF TypeOK, FinalizeControl, MoveRun, RunStates, TerminalRun
<1>5. QED
  BY <1>1, <1>2, <1>3, <1>4 DEF TriggerCommand

LEMMA StageCommandType ==
  ASSUME TypeOK, NEW r \in Runs, StageCommand(r)
  PROVE  TypeOK'
<1>1. CASE MakeStageReady(r)
  BY <1>1 DEF TypeOK, MakeStageReady, runVars, StageStates
<1>2. CASE ClaimStage(r)
  BY <1>2, IssueType DEF TypeOK, ClaimStage, runVars
<1>3. QED
  BY <1>1, <1>2 DEF StageCommand

LEMMA ControlCommandType ==
  ASSUME TypeOK, NEW r \in Runs, NEW a \in Slots, ControlCommand(r, a)
  PROVE  TypeOK'
<1>1. CloseLease(r, a, "consumed") \in [Slots -> LeaseStates]
  BY CloseLeaseType DEF LeaseStates
<1>2. CASE RecordOutput(r, a)
  BY <1>1, <1>2
     DEF TypeOK, RecordOutput, AttemptStates, StageStates, TerminalStage
<1>3. CASE FailControlRetry(r, a)
  BY <1>1, <1>3, RequeueType DEF TypeOK, FailControlRetry, AttemptStates
<1>4. CASE FailControlTerminal(r, a)
  <2>1. /\ [attempt[r] EXCEPT ![a] = "failed_terminal"] \in [Slots -> AttemptStates]
        /\ "failed_terminal" \in StageStates
    BY DEF TypeOK, AttemptStates, StageStates, TerminalStage
  <2>2. deadLetters' \in [Runs -> SUBSET Slots]
    BY <1>4 DEF TypeOK, FailControlTerminal
  <2>3. RunFails(r, [attempt[r] EXCEPT ![a] = "failed_terminal"],
                 CloseLease(r, a, "consumed"), "failed_terminal")
    BY <1>4 DEF FailControlTerminal
  <2>4. /\ runState' \in [Runs -> RunStates]
        /\ attempt' \in [Runs -> [Slots -> AttemptStates]]
        /\ lease' \in [Runs -> [Slots -> LeaseStates]]
        /\ stageState' \in [Runs -> StageStates]
        /\ blockedWork' \in [Runs -> [Slots -> {"none", "open", "superseded"}]]
    BY <1>1, <2>1, <2>3, RunFailsType DEF TypeOK
  <2>5. QED
    BY <1>4, <2>2, <2>4 DEF TypeOK, FailControlTerminal
<1>5. QED
  BY <1>2, <1>3, <1>4 DEF ControlCommand

LEMMA AttemptCommandType ==
  ASSUME TypeOK, NEW r \in Runs, NEW a \in Slots, AttemptCommand(r, a)
  PROVE  TypeOK'
<1>1. CloseLease(r, a, "consumed") \in [Slots -> LeaseStates]
  BY CloseLeaseType DEF LeaseStates
<1>2. CASE StartAttempt(r, a)
  BY <1>2 DEF TypeOK, StartAttempt, runVars, AttemptStates, StageStates, LiveStates
<1>3. CASE \E w \in WaitingStates : AttemptWaits(r, a, w)
  BY <1>3 DEF TypeOK, AttemptWaits, runVars, AttemptStates, StageStates,
              LiveStates, WaitingStates
<1>4. CASE AttemptSucceeds(r, a)
  BY <1>1, <1>4
     DEF TypeOK, AttemptSucceeds, runVars, AttemptStates, StageStates, TerminalStage
<1>5. CASE AttemptFailsRetryable(r, a)
  BY <1>1, <1>5
     DEF TypeOK, AttemptFailsRetryable, runVars, AttemptStates, StageStates,
         TerminalStage
<1>6. CASE AttemptFailsTerminal(r, a)
  BY <1>1, <1>6, SurfaceType
     DEF TypeOK, AttemptFailsTerminal, runVars, AttemptStates, StageStates,
         TerminalStage
<1>7. QED
  BY <1>2, <1>3, <1>4, <1>5, <1>6 DEF AttemptCommand

LEMMA ExternalCommandType ==
  ASSUME TypeOK, NEW r \in Runs, NEW a \in Slots, ExternalCommand(r, a)
  PROVE  TypeOK'
<1>1. /\ CloseLease(r, a, "consumed") \in [Slots -> LeaseStates]
      /\ CloseLease(r, a, "revoked") \in [Slots -> LeaseStates]
  BY CloseLeaseType DEF LeaseStates
<1>2. /\ [attempt[r] EXCEPT ![a] = "failed_terminal"] \in [Slots -> AttemptStates]
      /\ [attempt[r] EXCEPT ![a] = "failed_retryable"] \in [Slots -> AttemptStates]
      /\ "failed_terminal" \in StageStates
  BY DEF TypeOK, AttemptStates, StageStates, TerminalStage
<1>3. CASE MarkWaitingExternal(r, a)
  BY <1>1, <1>3 DEF TypeOK, MarkWaitingExternal, MoveRun, RunStates,
                    AttemptStates, StageStates, LiveStates, WaitingStates
<1>4. CASE CompleteExternal(r, a)
  BY <1>4, SupersedeType DEF TypeOK, CompleteExternal, RunStates, TerminalRun,
                    AttemptStates, StageStates, TerminalStage
<1>5. CASE FailNarrationRun(r, a)
  BY <1>1, <1>2, <1>5, RunFailsType DEF TypeOK, FailNarrationRun
<1>6. CASE FailWorldAnchorRun(r, a)
  <2>1. deadLetters' \in [Runs -> SUBSET Slots]
    BY <1>6 DEF TypeOK, FailWorldAnchorRun
  <2>2. RunFails(r, [attempt[r] EXCEPT ![a] = "failed_terminal"],
                 CloseLease(r, a, "revoked"), "failed_terminal")
    BY <1>6 DEF FailWorldAnchorRun
  <2>3. /\ runState' \in [Runs -> RunStates]
        /\ attempt' \in [Runs -> [Slots -> AttemptStates]]
        /\ lease' \in [Runs -> [Slots -> LeaseStates]]
        /\ stageState' \in [Runs -> StageStates]
        /\ blockedWork' \in [Runs -> [Slots -> {"none", "open", "superseded"}]]
    BY <1>1, <1>2, <2>2, RunFailsType DEF TypeOK
  <2>4. QED
    BY <1>6, <2>1, <2>3 DEF TypeOK, FailWorldAnchorRun
<1>7. QED
  BY <1>3, <1>4, <1>5, <1>6 DEF ExternalCommand

LEMMA ReapType ==
  ASSUME TypeOK, NEW r \in Runs, NEW a \in Slots, Reap(r, a)
  PROVE  TypeOK'
<1>1. CASE ReapRetry(r, a)
  BY <1>1, RequeueType DEF TypeOK, ReapRetry, AttemptStates, LeaseStates
<1>2. CASE ReapExhausted(r, a)
  <2>1. /\ [attempt[r] EXCEPT ![a] = "failed_retryable"] \in [Slots -> AttemptStates]
        /\ [lease[r] EXCEPT ![a] = "expired"] \in [Slots -> LeaseStates]
        /\ "failed_terminal" \in StageStates
    BY DEF TypeOK, AttemptStates, LeaseStates, StageStates, TerminalStage
  <2>2. QED
    BY <1>2, <2>1, RunFailsType DEF TypeOK, ReapExhausted
<1>3. CASE ReapOrphan(r, a)
  BY <1>3 DEF TypeOK, ReapOrphan, runVars, stageVars, LeaseStates
<1>4. QED
  BY <1>1, <1>2, <1>3 DEF Reap

LEMMA RepairType ==
  ASSUME TypeOK, NEW r \in Runs, RepairRequeue(r)
  PROVE  TypeOK'
BY RequeueType DEF TypeOK, RepairRequeue

LEMMA TimeType ==
  ASSUME TypeOK, NEW r \in Runs, Time(r)
  PROVE  TypeOK'
<1>1. CASE BackoffEnds(r)
  BY <1>1 DEF TypeOK, BackoffEnds, runVars
<1>2. ASSUME NEW a \in Slots, LeaseLapses(r, a)
      PROVE  TypeOK'
  BY <1>2 DEF TypeOK, LeaseLapses, runVars, stageVars, LeaseStates, ActiveLease
<1>3. ASSUME NEW a \in Slots, GraceEnds(r, a)
      PROVE  TypeOK'
  BY <1>3 DEF TypeOK, GraceEnds, runVars, stageVars, LeaseStates, ActiveLease
<1>4. QED
  BY <1>1, <1>2, <1>3 DEF Time

LEMMA TypeInit == Init => TypeOK
BY DEF Init, TypeOK, RunStates, StageStates, AttemptStates, LeaseStates

LEMMA TypeStep == TypeOK /\ [Next]_vars => TypeOK'
<1> SUFFICES ASSUME TypeOK, [Next]_vars PROVE TypeOK'
  OBVIOUS
<1>1. CASE UNCHANGED vars
  BY <1>1 DEF TypeOK, vars
<1>2. CASE Next
  <2>1. PICK r \in Runs : Step(r)
    BY <1>2 DEF Next
  <2>2. QED
    BY <2>1, RunCommandType, TriggerCommandType, StageCommandType,
       ControlCommandType, AttemptCommandType, ExternalCommandType, ReapType,
       RepairType, TimeType DEF Step
<1>3. QED
  BY <1>1, <1>2

\* The types of the run, stage, attempt, lease and work item rows are kept by
\* every command, whatever the bounds.
THEOREM TypeCorrect == Spec => []TypeOK
BY TypeInit, TypeStep, PTL DEF Spec

-----------------------------------------------------------------------------
(* The inductive invariant.  A command on run r touches the rows of r only, *)
(* keeps RunInv of r, and moves the states of r, and the owner's work       *)
(* items, in a few ways; these suffice for the two parts of the invariant   *)
(* that relate runs to each other.                                          *)

\* No row of run q changes.
SameRow(q) ==
  /\ runState'[q] = runState[q]
  /\ stageState'[q] = stageState[q]
  /\ issued'[q] = issued[q]
  /\ attempt'[q] = attempt[q]
  /\ lease'[q] = lease[q]
  /\ deadLetters'[q] = deadLetters[q]

\* What is decided or closed stays so.
RowIsFinal(r) ==
  /\ runState[r] \in TerminalRun => runState'[r] = runState[r]
  /\ stageState[r] \in TerminalStage => stageState'[r] = stageState[r]
  /\ \A a \in Slots : attempt[r][a] \notin LiveStates \cup {"none"}
       => attempt'[r][a] = attempt[r][a]

\* A run appears after the earlier ones, an attempt as claimed.
RowAppears(r) ==
  /\ runState'[r] = "none" => runState[r] = "none"
  /\ runState[r] = "none" /\ runState'[r] # "none"
       => \A q \in Runs : q < r => runState[q] \in TerminalRun
  /\ \A a \in Slots : attempt[r][a] = "none"
       => attempt'[r][a] \in {"none", "claimed"}

\* The three ways of the work items.
WorkMoves(r) ==
  \/ /\ blockedWork' = blockedWork \/ SurfaceTerminalFailure(r)
     /\ runState'[r] = "succeeded" => runState[r] = "succeeded"
  \/ SupersedeRecoveredWork(r)

Effect(r) ==
  /\ \A q \in Runs \ {r} : SameRow(q)
  /\ RunInv(r)'
  /\ RowIsFinal(r)
  /\ RowAppears(r)
  /\ WorkMoves(r)

LEMMA RowFrame ==
  ASSUME NEW q \in Runs, RunInv(q), SameRow(q)
  PROVE  RunInv(q)'
BY DEF SameRow, RunInv, LiveIsNewest, StageHasAttempt, SuccessIsNewest,
       UnusedSlots, BudgetKept, LeaseKept, DecidedRun, DeadLetterClosed,
       FailureCloses

-----------------------------------------------------------------------------
(* One step per command.                                                    *)

USE DEF Slots, LiveStates, WaitingStates, TerminalStage, TerminalRun, ActiveLease
USE DEF Effect, SameRow, RowIsFinal, RowAppears, WorkMoves
USE DEF RunInv, LiveIsNewest, StageHasAttempt, SuccessIsNewest, UnusedSlots,
        BudgetKept, LeaseKept, DecidedRun, DeadLetterClosed, FailureCloses

LEMMA RunCommandEffect ==
  ASSUME TypeOK, NEW r \in Runs, RunCommand(r), RunInv(r)
  PROVE  Effect(r)
<1>1. CASE CreateRun(r)
  BY <1>1, BoundsAssumption DEF TypeOK, CreateRun
<1>2. CASE EnqueueRun(r)
  BY <1>2, BoundsAssumption DEF TypeOK, EnqueueRun, MoveRun
<1>3. CASE \E w \in WaitingStates : WaitRun(r, w)
  BY <1>3, BoundsAssumption DEF TypeOK, WaitRun, MoveRun
<1>4. CASE PauseRun(r)
  BY <1>4, BoundsAssumption DEF TypeOK, PauseRun, MoveRun
<1>5. CASE SucceedRun(r)
  BY <1>5, BoundsAssumption DEF TypeOK, SucceedRun, MoveRun
<1>6. CASE FailRun(r)
  BY <1>6, BoundsAssumption DEF TypeOK, FailRun, RunFails,
                                SurfaceTerminalFailure
<1>7. CASE RequeueClaimed(r)
  BY <1>7, BoundsAssumption DEF TypeOK, RequeueClaimed, MoveRun
<1>8. QED
  BY <1>1, <1>2, <1>3, <1>4, <1>5, <1>6, <1>7 DEF RunCommand

LEMMA TriggerCommandEffect ==
  ASSUME TypeOK, NEW r \in Runs, NEW t \in TriggerRuns, TriggerCommand(r, t),
         RunInv(r)
  PROVE  Effect(r)
<1>1. CASE StartRun(r, t)
  BY <1>1, BoundsAssumption DEF TypeOK, StartRun, MoveRun
<1>2. CASE DispatchFresh(r, t)
  BY <1>2, BoundsAssumption DEF TypeOK, DispatchFresh, IssueAttempt, MoveRun
<1>3. CASE DispatchResume(r, t)
  BY <1>3, BoundsAssumption DEF TypeOK, DispatchResume, MoveRun
<1>4. CASE FinalizeControl(r, t)
  BY <1>4, BoundsAssumption DEF TypeOK, FinalizeControl, MoveRun
<1>5. QED
  BY <1>1, <1>2, <1>3, <1>4 DEF TriggerCommand

LEMMA StageCommandEffect ==
  ASSUME TypeOK, NEW r \in Runs, StageCommand(r), RunInv(r)
  PROVE  Effect(r)
<1>1. CASE MakeStageReady(r)
  BY <1>1, BoundsAssumption DEF TypeOK, MakeStageReady, runVars
<1>2. CASE ClaimStage(r)
  BY <1>2, BoundsAssumption DEF TypeOK, ClaimStage, IssueAttempt, BudgetLeft,
                                runVars
<1>3. QED
  BY <1>1, <1>2 DEF StageCommand

LEMMA ControlCommandEffect ==
  ASSUME TypeOK, NEW r \in Runs, NEW a \in Slots, ControlCommand(r, a),
         RunInv(r)
  PROVE  Effect(r)
<1>1. CASE RecordOutput(r, a)
  BY <1>1, BoundsAssumption DEF TypeOK, RecordOutput, CloseLease
<1>2. CASE FailControlRetry(r, a)
  BY <1>2, BoundsAssumption DEF TypeOK, FailControlRetry, CloseLease,
                                RequeueRun, BudgetLeft, HoldsControl
<1>3. CASE FailControlTerminal(r, a)
  BY <1>3, BoundsAssumption DEF TypeOK, FailControlTerminal, RunFails,
                                SurfaceTerminalFailure, CloseLease,
                                HoldsControl
<1>4. QED
  BY <1>1, <1>2, <1>3 DEF ControlCommand

LEMMA AttemptCommandEffect ==
  ASSUME TypeOK, NEW r \in Runs, NEW a \in Slots, AttemptCommand(r, a),
         RunInv(r)
  PROVE  Effect(r)
<1>1. CASE StartAttempt(r, a)
  BY <1>1, BoundsAssumption DEF TypeOK, StartAttempt, runVars
<1>2. CASE \E w \in WaitingStates : AttemptWaits(r, a, w)
  BY <1>2, BoundsAssumption DEF TypeOK, AttemptWaits, HoldsFence, runVars
<1>3. CASE AttemptSucceeds(r, a)
  BY <1>3, BoundsAssumption DEF TypeOK, AttemptSucceeds, CloseLease,
                                HoldsFence, runVars
<1>4. CASE AttemptFailsRetryable(r, a)
  BY <1>4, BoundsAssumption DEF TypeOK, AttemptFailsRetryable, CloseLease,
                                BudgetLeft, HoldsFence, runVars
<1>5. CASE AttemptFailsTerminal(r, a)
  BY <1>5, BoundsAssumption DEF TypeOK, AttemptFailsTerminal,
                                SurfaceTerminalFailure, CloseLease,
                                HoldsFence, runVars
<1>6. QED
  BY <1>1, <1>2, <1>3, <1>4, <1>5 DEF AttemptCommand

LEMMA ExternalCommandEffect ==
  ASSUME TypeOK, NEW r \in Runs, NEW a \in Slots, ExternalCommand(r, a),
         RunInv(r)
  PROVE  Effect(r)
<1>1. CASE MarkWaitingExternal(r, a)
  BY <1>1, BoundsAssumption DEF TypeOK, MarkWaitingExternal, CloseLease,
                                MoveRun
<1>2. CASE CompleteExternal(r, a)
  BY <1>2, BoundsAssumption DEF TypeOK, CompleteExternal, WaitsExternally
<1>3. CASE FailNarrationRun(r, a)
  BY <1>3, BoundsAssumption DEF TypeOK, FailNarrationRun, RunFails,
                                SurfaceTerminalFailure, CloseLease
<1>4. CASE FailWorldAnchorRun(r, a)
  BY <1>4, BoundsAssumption DEF TypeOK, FailWorldAnchorRun, RunFails,
                                SurfaceTerminalFailure, CloseLease,
                                WaitsExternally
<1>5. QED
  BY <1>1, <1>2, <1>3, <1>4 DEF ExternalCommand

LEMMA ReapEffect ==
  ASSUME TypeOK, NEW r \in Runs, NEW a \in Slots, Reap(r, a), RunInv(r)
  PROVE  Effect(r)
<1>1. CASE ReapRetry(r, a)
  BY <1>1, BoundsAssumption DEF TypeOK, ReapRetry, RequeueRun, BudgetLeft
<1>2. CASE ReapExhausted(r, a)
  BY <1>2, BoundsAssumption DEF TypeOK, ReapExhausted, RunFails,
                                SurfaceTerminalFailure, BudgetLeft
<1>3. CASE ReapOrphan(r, a)
  BY <1>3, BoundsAssumption DEF TypeOK, ReapOrphan, runVars, stageVars
<1>4. QED
  BY <1>1, <1>2, <1>3 DEF Reap

LEMMA RepairRequeueEffect ==
  ASSUME TypeOK, NEW r \in Runs, RepairRequeue(r), RunInv(r)
  PROVE  Effect(r)
BY BoundsAssumption DEF TypeOK, RepairRequeue, RequeueRun, BudgetLeft, Repairable

LEMMA TimeEffect ==
  ASSUME TypeOK, NEW r \in Runs, Time(r), RunInv(r)
  PROVE  Effect(r)
<1>1. CASE BackoffEnds(r)
  BY <1>1, BoundsAssumption DEF TypeOK, BackoffEnds, runVars
<1>2. CASE \E a \in Slots : LeaseLapses(r, a)
  BY <1>2, BoundsAssumption DEF TypeOK, LeaseLapses, runVars, stageVars
<1>3. CASE \E a \in Slots : GraceEnds(r, a)
  BY <1>3, BoundsAssumption DEF TypeOK, GraceEnds, runVars, stageVars
<1>4. QED
  BY <1>1, <1>2, <1>3 DEF Time

LEMMA StepEffect ==
  ASSUME TypeOK, NEW r \in Runs, Step(r), RunInv(r)
  PROVE  Effect(r)
<1> HIDE DEF Effect, RunInv
<1> QED
  BY RunCommandEffect, TriggerCommandEffect, StageCommandEffect,
     ControlCommandEffect, AttemptCommandEffect, ExternalCommandEffect,
     ReapEffect, RepairRequeueEffect, TimeEffect DEF Step

-----------------------------------------------------------------------------
(* The parts that relate runs.                                              *)

LEMMA OrderStep ==
  ASSUME IInv, NEW r \in Runs, Effect(r)
  PROVE  RunsInOrder'
<1> SUFFICES ASSUME NEW p \in Runs, NEW q \in Runs, q < p,
                    runState'[p] # "none"
             PROVE  runState'[q] \in TerminalRun
  BY DEF RunsInOrder
<1>1. CASE p = r
  BY <1>1 DEF IInv, RunsInOrder, Runs
<1>2. CASE p # r
  BY <1>2 DEF IInv, RunsInOrder, Runs
<1>3. QED
  BY <1>1, <1>2

LEMMA WorkStep ==
  ASSUME IInv, NEW r \in Runs, Effect(r)
  PROVE  NoObsoleteWork'
<1> SUFFICES ASSUME NEW q \in Runs, NEW a \in Slots, blockedWork'[q][a] = "open"
             PROVE  /\ attempt'[q][a] = "failed_terminal"
                    /\ \A p \in Runs : p >= q => runState'[p] # "succeeded"
  BY DEF NoObsoleteWork
<1>1. /\ RunInv(q) /\ RunInv(r)
      /\ RunInv(q)'
  BY RowFrame DEF IInv
<1>2. CASE blockedWork[q][a] = "open" /\ ~SupersedeRecoveredWork(r)
  <2>1. /\ attempt[q][a] = "failed_terminal"
        /\ \A p \in Runs : p >= q => runState[p] # "succeeded"
    BY <1>2 DEF IInv, NoObsoleteWork
  <2>2. QED
    BY <1>2, <2>1
<1>3. CASE blockedWork[q][a] # "open" /\ ~SupersedeRecoveredWork(r)
  <2>1. SurfaceTerminalFailure(r)
    BY <1>3
  <2>2. /\ q = r
        /\ attempt'[r][a] = "failed_terminal" /\ attempt[r][a] # "failed_terminal"
    BY <1>3, <2>1 DEF IInv, TypeOK, SurfaceTerminalFailure
  <2>3. runState[r] \notin TerminalRun
    BY <1>1, <2>2
  <2>4. \A p \in Runs : p > r => runState'[p] = "none"
    BY <2>3 DEF IInv, RunsInOrder, Runs
  <2>5. runState'[r] # "succeeded"
    BY <1>1, <2>2
  <2>6. QED
    BY <2>2, <2>4, <2>5 DEF Runs
<1>4. CASE SupersedeRecoveredWork(r)
  <2>1. blockedWork[q][a] = "open" /\ ~(q < r)
    BY <1>4 DEF SupersedeRecoveredWork
  <2>2. /\ attempt[q][a] = "failed_terminal"
        /\ \A p \in Runs : p >= q => runState[p] # "succeeded"
    BY <2>1 DEF IInv, NoObsoleteWork
  <2>3. attempt'[q][a] = "failed_terminal"
    BY <2>2
  <2>4. runState'[r] # "succeeded" \/ q > r
    BY <1>1, <2>1, <2>3 DEF Runs
  <2>5. q > r => \A p \in Runs : p >= q => p # r
    BY DEF Runs
  <2>6. QED
    BY <2>2, <2>3, <2>4, <2>5
<1>5. QED
  BY <1>2, <1>3, <1>4

LEMMA InvInit == Init => IInv
<1> SUFFICES ASSUME Init PROVE IInv
  OBVIOUS
<1>1. \A r \in Runs : RunInv(r)
  BY BoundsAssumption DEF Init
<1>2. RunsInOrder /\ NoObsoleteWork
  BY DEF Init, RunsInOrder, NoObsoleteWork
<1>3. QED
  BY <1>1, <1>2, TypeInit DEF IInv

LEMMA InvStep == IInv /\ [Next]_vars => IInv'
<1> SUFFICES ASSUME IInv, [Next]_vars PROVE IInv'
  OBVIOUS
<1>1. TypeOK'
  BY TypeStep DEF IInv
<1>2. CASE UNCHANGED vars
  <2>1. \A q \in Runs : RunInv(q)'
    BY <1>2, RowFrame DEF IInv, vars
  <2>2. RunsInOrder' /\ NoObsoleteWork'
    BY <1>2 DEF IInv, RunsInOrder, NoObsoleteWork, vars
  <2>3. QED
    BY <1>1, <2>1, <2>2 DEF IInv
<1>3. CASE Next
  <2>1. PICK r \in Runs : Step(r)
    BY <1>3 DEF Next
  <2>2. Effect(r)
    BY <2>1, StepEffect DEF IInv
  <2>3. \A q \in Runs : RunInv(q)'
    BY <2>2, RowFrame DEF IInv
  <2>4. QED
    BY <1>1, <2>2, <2>3, OrderStep, WorkStep DEF IInv
<1>4. QED
  BY <1>2, <1>3

\* The inductive invariant holds in every reachable state.
THEOREM Invariance == Spec => []IInv
BY InvInit, InvStep, PTL DEF Spec

-----------------------------------------------------------------------------
(* The properties.                                                          *)

LEMMA InvSingle == IInv => SingleAuthority
<1> SUFFICES ASSUME IInv, NEW r \in Runs, NEW q \in Runs,
                    NEW a \in Slots, NEW b \in Slots,
                    attempt[r][a] \in LiveStates, attempt[q][b] \in LiveStates
             PROVE  r = q /\ a = b
  BY DEF SingleAuthority
<1>1. RunInv(r) /\ RunInv(q)
  BY DEF IInv
<1>2. runState[r] \notin TerminalRun \cup {"none"}
      /\ runState[q] \notin TerminalRun \cup {"none"}
  BY <1>1
<1>3. r = q
  BY <1>2 DEF IInv, RunsInOrder, Runs
<1>4. QED
  BY <1>1, <1>3

\* Two workers are never both entitled to write: of all attempts of all runs
\* of a lane at most one is claimed, running or waiting.
THEOREM SingleAuthorityHolds == Spec => []SingleAuthority
BY Invariance, InvSingle, PTL

LEMMA InvAuthor == IInv => ResultHasOneAuthor
BY DEF IInv, ResultHasOneAuthor

\* The stage, its newest attempt and the run agree on success.
THEOREM ResultHasOneAuthorHolds == Spec => []ResultHasOneAuthor
BY Invariance, InvAuthor, PTL

LEMMA InvVanished == IInv => VanishedWorkerIsFound
BY DEF IInv, VanishedWorkerIsFound

\* Every attempt a worker may have abandoned has a lease the reaper will see.
THEOREM VanishedWorkerIsFoundHolds == Spec => []VanishedWorkerIsFound
BY Invariance, InvVanished, PTL

LEMMA InvQuiet == IInv => FailedRunIsQuiet
BY DEF IInv, FailedRunIsQuiet

\* A failed run holds no attempt, lease or open stage.
THEOREM FailedRunIsQuietHolds == Spec => []FailedRunIsQuiet
BY Invariance, InvQuiet, PTL

LEMMA InvBudget == IInv => AttemptBudget
BY DEF IInv, AttemptBudget

\* No order of requeues and dispatches issues more than the maximum attempts.
THEOREM AttemptBudgetHolds == Spec => []AttemptBudget
BY Invariance, InvBudget, PTL

LEMMA InvDeadLetter == IInv => DeadLetterIsLast
BY DEF IInv, DeadLetterIsLast

\* A dead-lettered attempt is the last of its stage, which is closed.
THEOREM DeadLetterIsLastHolds == Spec => []DeadLetterIsLast
BY Invariance, InvDeadLetter, PTL

LEMMA InvWork == IInv => NoObsoleteWork
BY DEF IInv

\* The owner's queue never shows an obstacle that has been overcome.
THEOREM NoObsoleteWorkHolds == Spec => []NoObsoleteWork
BY Invariance, InvWork, PTL

LEMMA FinalStep ==
  ASSUME IInv, [Next]_vars, NEW r \in Runs
  PROVE  RowIsFinal(r)
<1>1. CASE UNCHANGED vars
  BY <1>1 DEF vars
<1>2. CASE Next
  <2>1. PICK q \in Runs : Step(q)
    BY <1>2 DEF Next
  <2>2. Effect(q)
    BY <2>1, StepEffect DEF IInv
  <2>3. QED
    BY <2>2
<1>3. QED
  BY <1>1, <1>2

\* Late and duplicated commands change nothing that is decided or closed.
THEOREM TerminalIsFinalHolds == Spec => TerminalIsFinal
<1>1. IInv /\ [Next]_vars =>
        [\A r \in Runs :
           /\ runState[r] \in TerminalRun => runState'[r] = runState[r]
           /\ stageState[r] \in TerminalStage => stageState'[r] = stageState[r]
           /\ \A a \in Slots : attempt[r][a] \notin LiveStates \cup {"none"}
                => attempt'[r][a] = attempt[r][a]]_vars
  BY FinalStep
<1>2. QED
  BY <1>1, Invariance, PTL DEF Spec, TerminalIsFinal

-----------------------------------------------------------------------------
(* The control plane implements the authority lane.  Every command is one   *)
(* of seven kinds, told apart by the row of its run; each kind but the      *)
(* first is an action of the lane.                                          *)

Live(r) == {a \in Slots : attempt[r][a] \in LiveStates}
Done(r) == {a \in Slots : attempt[r][a] = "succeeded"}

KeepsVerdict(r) == Verdict(runState'[r]) = Verdict(runState[r])
IsOpen(r) == Verdict(runState[r]) = "open"

Quiet(r) ==
  /\ KeepsVerdict(r)
  /\ issued'[r] = issued[r]
  /\ Live(r)' = Live(r) /\ Done(r)' = Done(r)

Granted(r) ==
  /\ KeepsVerdict(r) /\ IsOpen(r) /\ runState[r] # "none"
  /\ issued[r] + 1 \in Slots /\ issued'[r] = issued[r] + 1
  /\ Live(r) = {} /\ Done(r) = {}
  /\ Live(r)' = {issued[r] + 1} /\ Done(r)' = {}

Released(r) ==
  /\ KeepsVerdict(r)
  /\ issued'[r] = issued[r] /\ issued[r] \in Live(r)
  /\ Live(r)' = {} /\ Done(r)' = Done(r)

Published(r) ==
  /\ KeepsVerdict(r)
  /\ issued'[r] = issued[r] /\ issued[r] \in Live(r)
  /\ Live(r)' = {} /\ Done(r)' = Done(r) \cup {issued[r]}

Succeeded(r) ==
  /\ IsOpen(r) /\ runState'[r] = "succeeded"
  /\ issued'[r] = issued[r] /\ Done(r) # {}
  /\ Live(r)' = Live(r) /\ Done(r)' = Done(r)

PublishedAndSucceeded(r) ==
  /\ IsOpen(r) /\ runState'[r] = "succeeded"
  /\ issued'[r] = issued[r] /\ issued[r] \in Live(r)
  /\ Live(r)' = {} /\ Done(r)' = Done(r) \cup {issued[r]}

Failed(r) ==
  /\ IsOpen(r) /\ runState'[r] = "failed"
  /\ issued'[r] = issued[r]
  /\ Live(r)' = {} /\ Done(r)' = Done(r)

Kind(r) ==
  \/ Quiet(r) \/ Granted(r) \/ Released(r) \/ Published(r)
  \/ Succeeded(r) \/ PublishedAndSucceeded(r) \/ Failed(r)

HIDE DEF Effect, SameRow, RowIsFinal, RowAppears, WorkMoves
USE DEF KeepsVerdict, IsOpen, Verdict, Live, Done

LEMMA RunCommandKind ==
  ASSUME TypeOK, NEW r \in Runs, RunCommand(r), RunInv(r)
  PROVE  Kind(r)
<1>1. ASSUME CreateRun(r) PROVE Quiet(r)
  BY <1>1, BoundsAssumption DEF Quiet, TypeOK, CreateRun
<1>2. ASSUME EnqueueRun(r) PROVE Quiet(r)
  BY <1>2, BoundsAssumption DEF Quiet, TypeOK, EnqueueRun, MoveRun
<1>3. ASSUME \E w \in WaitingStates : WaitRun(r, w) PROVE Quiet(r)
  BY <1>3, BoundsAssumption DEF Quiet, TypeOK, WaitRun, MoveRun
<1>4. ASSUME PauseRun(r) PROVE Quiet(r)
  BY <1>4, BoundsAssumption DEF Quiet, TypeOK, PauseRun, MoveRun
<1>5. ASSUME SucceedRun(r) PROVE Succeeded(r)
  BY <1>5, BoundsAssumption DEF Succeeded, TypeOK, SucceedRun, MoveRun
<1>6. ASSUME FailRun(r) PROVE Failed(r)
  BY <1>6, BoundsAssumption DEF Failed, TypeOK, FailRun, RunFails
<1>7. ASSUME RequeueClaimed(r) PROVE Quiet(r)
  BY <1>7, BoundsAssumption DEF Quiet, TypeOK, RequeueClaimed, MoveRun
<1>8. QED
  BY <1>1, <1>2, <1>3, <1>4, <1>5, <1>6, <1>7 DEF RunCommand, Kind

LEMMA TriggerCommandKind ==
  ASSUME TypeOK, NEW r \in Runs, NEW t \in TriggerRuns, TriggerCommand(r, t),
         RunInv(r)
  PROVE  Kind(r)
<1>1. ASSUME StartRun(r, t) PROVE Quiet(r)
  BY <1>1, BoundsAssumption DEF Quiet, TypeOK, StartRun, MoveRun
<1>2. ASSUME DispatchFresh(r, t) PROVE Granted(r)
  <2>1. issued[r] < MaximumAttempts /\ issued[r] \in Nat
    BY <1>2 DEF TypeOK, DispatchFresh
  <2>2. Live(r) = {} /\ Done(r) = {}
    BY <1>2 DEF TypeOK, DispatchFresh
  <2>3. issued[r] + 1 \in Slots
    BY <2>1, BoundsAssumption
  <2>4. attempt'[r] = [attempt[r] EXCEPT ![issued[r] + 1] = "claimed"]
    BY <1>2 DEF TypeOK, DispatchFresh, IssueAttempt
  <2>5. attempt[r] \in [Slots -> AttemptStates]
    BY DEF TypeOK
  <2>6. \A a \in Slots : attempt'[r][a]
           = IF a = issued[r] + 1 THEN "claimed" ELSE attempt[r][a]
    BY <2>4, <2>5
  <2>7. Live(r)' = {issued[r] + 1}
    BY <2>2, <2>3, <2>6
  <2>8. Done(r)' = {}
    BY <2>2, <2>6
  <2>9. QED
    BY <1>2, <2>2, <2>3, <2>7, <2>8
       DEF Granted, TypeOK, DispatchFresh, IssueAttempt, MoveRun
<1>3. ASSUME DispatchResume(r, t) PROVE Quiet(r)
  BY <1>3, BoundsAssumption DEF Quiet, TypeOK, DispatchResume, MoveRun
<1>4. ASSUME FinalizeControl(r, t) PROVE Succeeded(r)
  BY <1>4, BoundsAssumption DEF Succeeded, TypeOK, FinalizeControl, MoveRun
<1>5. QED
  BY <1>1, <1>2, <1>3, <1>4 DEF TriggerCommand, Kind

LEMMA StageCommandKind ==
  ASSUME TypeOK, NEW r \in Runs, StageCommand(r), RunInv(r)
  PROVE  Kind(r)
<1>1. ASSUME MakeStageReady(r) PROVE Quiet(r)
  BY <1>1, BoundsAssumption DEF Quiet, TypeOK, MakeStageReady, runVars
<1>2. ASSUME ClaimStage(r) PROVE Granted(r)
  BY <1>2, BoundsAssumption DEF Granted, TypeOK, ClaimStage, IssueAttempt,
                                BudgetLeft, runVars
<1>3. QED
  BY <1>1, <1>2 DEF StageCommand, Kind

LEMMA ControlCommandKind ==
  ASSUME TypeOK, NEW r \in Runs, NEW a \in Slots, ControlCommand(r, a),
         RunInv(r)
  PROVE  Kind(r)
<1>1. ASSUME RecordOutput(r, a) PROVE Published(r)
  BY <1>1, BoundsAssumption DEF Published, TypeOK, RecordOutput
<1>2. ASSUME FailControlRetry(r, a) PROVE Released(r)
  BY <1>2, BoundsAssumption DEF Released, TypeOK, FailControlRetry,
                                RequeueRun, BudgetLeft, HoldsControl
<1>3. ASSUME FailControlTerminal(r, a) PROVE Failed(r)
  BY <1>3, BoundsAssumption DEF Failed, TypeOK, FailControlTerminal,
                                RunFails, HoldsControl
<1>4. QED
  BY <1>1, <1>2, <1>3 DEF ControlCommand, Kind

LEMMA AttemptCommandKind ==
  ASSUME TypeOK, NEW r \in Runs, NEW a \in Slots, AttemptCommand(r, a),
         RunInv(r)
  PROVE  Kind(r)
<1>1. ASSUME StartAttempt(r, a) PROVE Quiet(r)
  BY <1>1, BoundsAssumption DEF Quiet, TypeOK, StartAttempt, runVars
<1>2. ASSUME \E w \in WaitingStates : AttemptWaits(r, a, w) PROVE Quiet(r)
  BY <1>2, BoundsAssumption DEF Quiet, TypeOK, AttemptWaits, HoldsFence,
                                runVars
<1>3. ASSUME AttemptSucceeds(r, a) PROVE Published(r)
  BY <1>3, BoundsAssumption DEF Published, TypeOK, AttemptSucceeds,
                                HoldsFence, runVars
<1>4. ASSUME AttemptFailsRetryable(r, a) PROVE Released(r)
  BY <1>4, BoundsAssumption DEF Released, TypeOK, AttemptFailsRetryable,
                                BudgetLeft, HoldsFence, runVars
<1>5. ASSUME AttemptFailsTerminal(r, a) PROVE Released(r)
  BY <1>5, BoundsAssumption DEF Released, TypeOK, AttemptFailsTerminal,
                                HoldsFence, runVars
<1>6. QED
  BY <1>1, <1>2, <1>3, <1>4, <1>5 DEF AttemptCommand, Kind

LEMMA ExternalCommandKind ==
  ASSUME TypeOK, NEW r \in Runs, NEW a \in Slots, ExternalCommand(r, a),
         RunInv(r)
  PROVE  Kind(r)
<1>1. ASSUME MarkWaitingExternal(r, a) PROVE Quiet(r)
  BY <1>1, BoundsAssumption DEF Quiet, TypeOK, MarkWaitingExternal, MoveRun
<1>2. ASSUME CompleteExternal(r, a) PROVE PublishedAndSucceeded(r)
  BY <1>2, BoundsAssumption DEF PublishedAndSucceeded, TypeOK,
                                CompleteExternal, WaitsExternally
<1>3. ASSUME FailNarrationRun(r, a) PROVE Failed(r)
  BY <1>3, BoundsAssumption DEF Failed, TypeOK, FailNarrationRun, RunFails
<1>4. ASSUME FailWorldAnchorRun(r, a) PROVE Failed(r)
  BY <1>4, BoundsAssumption DEF Failed, TypeOK, FailWorldAnchorRun, RunFails,
                                WaitsExternally
<1>5. QED
  BY <1>1, <1>2, <1>3, <1>4 DEF ExternalCommand, Kind

LEMMA ReapKind ==
  ASSUME TypeOK, NEW r \in Runs, NEW a \in Slots, Reap(r, a), RunInv(r)
  PROVE  Kind(r)
<1>1. ASSUME ReapRetry(r, a) PROVE Released(r)
  BY <1>1, BoundsAssumption DEF Released, TypeOK, ReapRetry, RequeueRun,
                                BudgetLeft
<1>2. ASSUME ReapExhausted(r, a) PROVE Failed(r)
  BY <1>2, BoundsAssumption DEF Failed, TypeOK, ReapExhausted, RunFails,
                                BudgetLeft
<1>3. ASSUME ReapOrphan(r, a) PROVE Quiet(r)
  BY <1>3, BoundsAssumption DEF Quiet, TypeOK, ReapOrphan, runVars, stageVars
<1>4. QED
  BY <1>1, <1>2, <1>3 DEF Reap, Kind

LEMMA RepairRequeueKind ==
  ASSUME TypeOK, NEW r \in Runs, RepairRequeue(r), RunInv(r)
  PROVE  Kind(r)
BY BoundsAssumption DEF Kind, Quiet, TypeOK, RepairRequeue, RequeueRun, BudgetLeft, Repairable

LEMMA TimeKind ==
  ASSUME TypeOK, NEW r \in Runs, Time(r), RunInv(r)
  PROVE  Kind(r)
<1>1. ASSUME BackoffEnds(r) PROVE Quiet(r)
  BY <1>1, BoundsAssumption DEF Quiet, TypeOK, BackoffEnds, runVars
<1>2. ASSUME \E a \in Slots : LeaseLapses(r, a) PROVE Quiet(r)
  BY <1>2, BoundsAssumption DEF Quiet, TypeOK, LeaseLapses, runVars,
                                stageVars
<1>3. ASSUME \E a \in Slots : GraceEnds(r, a) PROVE Quiet(r)
  BY <1>3, BoundsAssumption DEF Quiet, TypeOK, GraceEnds, runVars, stageVars
<1>4. QED
  BY <1>1, <1>2, <1>3 DEF Time, Kind

LEMMA StepKind ==
  ASSUME TypeOK, NEW r \in Runs, Step(r), RunInv(r)
  PROVE  Kind(r)
<1> HIDE DEF RunInv
<1> QED
  BY RunCommandKind, TriggerCommandKind, StageCommandKind, ControlCommandKind,
     AttemptCommandKind, ExternalCommandKind, ReapKind, RepairRequeueKind,
     TimeKind DEF Step

\* When a run is granted nobody in the lane holds anything.
LEMMA NobodyHolds ==
  ASSUME IInv, NEW r \in Runs, Granted(r), NEW q \in Runs
  PROVE  Live(q) = {} /\ (q < r => Verdict(runState[q]) # "open")
<1>1. RunInv(q) /\ RunInv(r)
  BY DEF IInv
<1>2. CASE q = r
  BY <1>2 DEF Granted, Runs
<1>3. CASE q < r
  BY <1>1, <1>3 DEF IInv, RunsInOrder, Granted
<1>4. CASE q > r
  <2>1. runState[q] = "none"
    BY <1>4 DEF IInv, RunsInOrder, Granted
  <2>2. QED
    BY <1>1, <1>4, <2>1 DEF Runs
<1>5. QED
  BY <1>2, <1>3, <1>4 DEF Runs

\* A step of one row is a step of the mapped variables at one point.
LEMMA MapStep ==
  ASSUME TypeOK, TypeOK', NEW r \in Runs, \A q \in Runs \ {r} : SameRow(q)
  PROVE  /\ LaneVerdict' = [LaneVerdict EXCEPT ![r] = Verdict(runState'[r])]
         /\ issued' = [issued EXCEPT ![r] = issued'[r]]
         /\ LaneHolders' = [LaneHolders EXCEPT ![r] = Live(r)']
         /\ LaneResults' = [LaneResults EXCEPT ![r] = Done(r)']
<1>1. LaneVerdict' = [LaneVerdict EXCEPT ![r] = Verdict(runState'[r])]
  BY DEF SameRow, LaneVerdict
<1>2. issued' = [issued EXCEPT ![r] = issued'[r]]
  BY DEF SameRow, TypeOK
<1>3. LaneHolders' = [LaneHolders EXCEPT ![r] = Live(r)']
  BY DEF SameRow, LaneHolders
<1>4. LaneResults' = [LaneResults EXCEPT ![r] = Done(r)']
  BY DEF SameRow, LaneResults
<1>5. QED
  BY <1>1, <1>2, <1>3, <1>4

LEMMA MapValue ==
  ASSUME NEW q \in Runs
  PROVE  /\ LaneVerdict[q] = Verdict(runState[q])
         /\ LaneHolders[q] = Live(q)
         /\ LaneResults[q] = Done(q)
BY DEF LaneVerdict, LaneHolders, LaneResults

LEMMA MapSame ==
  ASSUME TypeOK, NEW r \in Runs
  PROVE  /\ LaneVerdict = [LaneVerdict EXCEPT ![r] = LaneVerdict[r]]
         /\ issued = [issued EXCEPT ![r] = issued[r]]
         /\ LaneHolders = [LaneHolders EXCEPT ![r] = LaneHolders[r]]
         /\ LaneResults = [LaneResults EXCEPT ![r] = LaneResults[r]]
<1>1. LaneVerdict = [LaneVerdict EXCEPT ![r] = LaneVerdict[r]]
  BY DEF LaneVerdict
<1>2. issued = [issued EXCEPT ![r] = issued[r]]
  BY DEF TypeOK
<1>3. LaneHolders = [LaneHolders EXCEPT ![r] = LaneHolders[r]]
  BY DEF LaneHolders
<1>4. LaneResults = [LaneResults EXCEPT ![r] = LaneResults[r]]
  BY DEF LaneResults
<1>5. QED
  BY <1>1, <1>2, <1>3, <1>4

LEMMA KindIsLaneStep ==
  ASSUME IInv, TypeOK', NEW r \in Runs, Kind(r),
         \A q \in Runs \ {r} : SameRow(q)
  PROVE  [Lane!Next]_(Lane!laneVars)
<1>1. /\ LaneVerdict' = [LaneVerdict EXCEPT ![r] = Verdict(runState'[r])]
      /\ issued' = [issued EXCEPT ![r] = issued'[r]]
      /\ LaneHolders' = [LaneHolders EXCEPT ![r] = Live(r)']
      /\ LaneResults' = [LaneResults EXCEPT ![r] = Done(r)']
  BY MapStep DEF IInv
<1>2. /\ LaneVerdict[r] = Verdict(runState[r])
      /\ LaneHolders[r] = Live(r)
      /\ LaneResults[r] = Done(r)
  BY MapValue
<1>3. /\ LaneVerdict = [LaneVerdict EXCEPT ![r] = LaneVerdict[r]]
      /\ issued = [issued EXCEPT ![r] = issued[r]]
      /\ LaneHolders = [LaneHolders EXCEPT ![r] = LaneHolders[r]]
      /\ LaneResults = [LaneResults EXCEPT ![r] = LaneResults[r]]
  BY MapSame DEF IInv
<1> HIDE DEF Live, Done, Verdict, RunInv
<1>4. CASE Quiet(r)
  BY <1>1, <1>2, <1>3, <1>4 DEF Quiet, Lane!laneVars
<1>5. CASE Granted(r)
  <2>1. \A q \in Runs : LaneHolders[q] = {} /\ (q < r => LaneVerdict[q] # "open")
    BY <1>5, MapValue, NobodyHolds
  <2>2. Lane!Grant(r)
    BY <1>1, <1>2, <1>3, <1>5, <2>1 DEF Granted, Lane!Grant
  <2>3. QED
    BY <2>2 DEF Lane!Next
<1>6. CASE Released(r)
  <2>1. Lane!Release(r)
    BY <1>1, <1>2, <1>3, <1>6 DEF Released, Lane!Release
  <2>2. QED
    BY <2>1 DEF Lane!Next
<1>7. CASE Published(r)
  <2>1. Lane!Publish(r)
    BY <1>1, <1>2, <1>3, <1>7 DEF Published, Lane!Publish
  <2>2. QED
    BY <2>1 DEF Lane!Next
<1>8. CASE Succeeded(r)
  <2>1. Verdict("succeeded") = "succeeded"
    BY DEF Verdict
  <2>2. Lane!Succeed(r)
    BY <1>1, <1>2, <1>3, <1>8, <2>1 DEF Succeeded, Lane!Succeed
  <2>3. QED
    BY <2>2 DEF Lane!Next
<1>9. CASE PublishedAndSucceeded(r)
  <2>1. Verdict("succeeded") = "succeeded"
    BY DEF Verdict
  <2>2. Lane!PublishAndSucceed(r)
    BY <1>1, <1>2, <1>3, <1>9, <2>1
       DEF PublishedAndSucceeded, Lane!PublishAndSucceed
  <2>3. QED
    BY <2>2 DEF Lane!Next
<1>10. CASE Failed(r)
  <2>1. Verdict("failed") = "failed"
    BY DEF Verdict
  <2>2. Lane!Fail(r)
    BY <1>1, <1>2, <1>3, <1>10, <2>1 DEF Failed, Lane!Fail
  <2>3. QED
    BY <2>2 DEF Lane!Next
<1>11. QED
  BY <1>4, <1>5, <1>6, <1>7, <1>8, <1>9, <1>10 DEF Kind

LEMMA LaneInit == Init => Lane!Init
BY DEF Init, Lane!Init, LaneVerdict, LaneHolders, LaneResults

LEMMA LaneStep == IInv /\ [Next]_vars => [Lane!Next]_(Lane!laneVars)
<1> SUFFICES ASSUME IInv, [Next]_vars PROVE [Lane!Next]_(Lane!laneVars)
  OBVIOUS
<1>1. CASE UNCHANGED vars
  BY <1>1 DEF vars, Lane!laneVars, LaneVerdict, LaneHolders, LaneResults
<1>2. CASE Next
  <2>1. PICK r \in Runs : Step(r)
    BY <1>2 DEF Next
  <2>2. RunInv(r) /\ TypeOK
    BY DEF IInv
  <2>3. Kind(r) /\ \A q \in Runs \ {r} : SameRow(q)
    BY <2>1, <2>2, StepKind, StepEffect DEF Effect
  <2>4. TypeOK'
    BY <2>2, TypeStep
  <2>5. QED
    BY <2>3, <2>4, KindIsLaneStep
<1>3. QED
  BY <1>1, <1>2

\* Every behaviour of the control plane is one of the authority lane: exactly
\* one numbered holder at a time decides a run, and at most once.
THEOREM ImplementsLane == Spec => LaneSpec
BY Invariance, LaneInit, LaneStep, PTL DEF Spec, LaneSpec, Lane!Spec

-----------------------------------------------------------------------------
(* The processes.                                                           *)

\* A tick at work was dispatched under an identity of its own.
Dispatched == \A w \in Workers : pc[w] # "idle" => task[w].trigger \in TriggerRuns

WorkerInv == IInv /\ WorkerTypeOK /\ Dispatched

Points == {"idle", "executing", "recorded", "failing"}
Tasks == [run : Runs, attempt : Slots, trigger : TriggerRuns \cup {NoTrigger}]

LEMMA TypeTasks ==
  WorkerTypeOK <=> /\ pc \in [Workers -> Points] /\ task \in [Workers -> Tasks]
                   /\ ticks \in Nat
BY DEF WorkerTypeOK, Points, Tasks

LEMMA WorkerInitInvariant == WorkersInit => WorkerInv
<1> SUFFICES ASSUME WorkersInit PROVE WorkerInv
  OBVIOUS
<1>1. IInv
  BY InvInit DEF WorkersInit
<1>2. Idle \in Tasks
  BY BoundsAssumption DEF Idle, Tasks, Runs, Slots
<1> QED BY <1>1, <1>2, TypeTasks DEF WorkersInit, WorkerInv, Points, Dispatched

-----------------------------------------------------------------------------
(* Every step of the processes is a step of the control plane, or none.     *)

LEMMA DispatchIsStep ==
  ASSUME NEW w \in Workers, Dispatch(w)
  PROVE  Next
BY DEF Dispatch, Next, Step, TriggerCommand

LEMMA WorkIsStep ==
  ASSUME WorkerInv, NEW w \in Workers, Work(w)
  PROVE  [Next]_vars
<1> DEFINE r == task[w].run
           a == task[w].attempt
           t == task[w].trigger
<1>1. r \in Runs /\ a \in Slots /\ (pc[w] # "idle" => t \in TriggerRuns)
  BY TypeTasks DEF WorkerInv, Dispatched, Tasks
<1>2. CASE Record(w)
  <2>1. RecordOutput(r, a)
    BY <1>2 DEF Record
  <2> QED BY <1>1, <2>1 DEF Next, Step, ControlCommand
<1>3. CASE Externalize(w)
  <2>1. MarkWaitingExternal(r, a)
    BY <1>3 DEF Externalize
  <2> QED BY <1>1, <2>1 DEF Next, Step, ExternalCommand
<1>4. CASE Throw(w)
  BY <1>4 DEF Throw
<1>5. CASE Finalize(w)
  <2>1. FinalizeControl(r, t) /\ pc[w] # "idle"
    BY <1>5 DEF Finalize
  <2> QED BY <1>1, <2>1 DEF Next, Step, TriggerCommand
<1>6. CASE ReportFailure(w)
  <2>1. FailControlRetry(r, a) \/ FailControlTerminal(r, a)
    BY <1>6 DEF ReportFailure
  <2> QED BY <1>1, <2>1 DEF Next, Step, ControlCommand
<1>7. CASE ReportRefused(w)
  BY <1>7 DEF ReportRefused
<1> QED BY <1>2, <1>3, <1>4, <1>5, <1>6, <1>7 DEF Work

LEMMA OthersAreSteps ==
  ASSUME Reconciler \/ Answer \/ Reaper \/ Clock
  PROVE  Next /\ UNCHANGED workerVars
<1>1. CASE Reconciler
  BY <1>1 DEF Reconciler, Next, Step, RunCommand
<1>2. CASE Answer
  BY <1>2 DEF Answer, Next, Step, ExternalCommand
<1>3. CASE Reaper
  BY <1>3 DEF Reaper, Next, Step
<1>4. CASE Clock
  BY <1>4 DEF Clock, Next, Step
<1> QED BY <1>1, <1>2, <1>3, <1>4

LEMMA WorkersRefine ==
  ASSUME WorkerInv, [WorkersNext]_allVars
  PROVE  [Next]_vars
<1>1. CASE \E w \in Workers : Dispatch(w)
  BY <1>1, DispatchIsStep
<1>2. CASE \E w \in Workers : Work(w)
  BY <1>2, WorkIsStep
<1>3. CASE \E w \in Workers : Crash(w)
  BY <1>3 DEF Crash
<1>4. CASE Reconciler \/ Answer \/ Reaper \/ Clock
  BY <1>4, OthersAreSteps
<1>5. CASE UNCHANGED allVars
  BY <1>5 DEF allVars
<1> QED BY <1>1, <1>2, <1>3, <1>4, <1>5 DEF WorkersNext

-----------------------------------------------------------------------------
(* The ticks' own memory.                                                   *)

LEMMA IdleStep ==
  ASSUME WorkerInv, NEW w \in Workers, GoIdle(w)
  PROVE  WorkerTypeOK' /\ Dispatched'
<1>1. Idle \in Tasks
  BY BoundsAssumption DEF Idle, Tasks, Runs, Slots
<1> QED BY <1>1, TypeTasks DEF WorkerInv, WorkerTypeOK, Tasks, GoIdle, Goto, Dispatched

LEMMA GotoStep ==
  ASSUME WorkerInv, NEW w \in Workers, NEW p \in Points, pc[w] # "idle", Goto(w, p),
         UNCHANGED <<task, ticks>>
  PROVE  WorkerTypeOK' /\ Dispatched'
BY TypeTasks DEF WorkerInv, WorkerTypeOK, Points, Goto, Dispatched

LEMMA DispatchStep ==
  ASSUME WorkerInv, IInv', NEW w \in Workers, Dispatch(w)
  PROVE  WorkerTypeOK' /\ Dispatched'
<1>1. PICK r \in Runs :
        /\ DispatchFresh(r, ticks + 1)
        /\ task' = [task EXCEPT ![w] = [run |-> r, attempt |-> issued[r] + 1,
                                        trigger |-> ticks + 1]]
  BY DEF Dispatch
<1>2. issued[r] + 1 \in Slots
  <2>1. issued'[r] = issued[r] + 1 /\ issued[r] \in Nat
    BY <1>1 DEF DispatchFresh, IssueAttempt, WorkerInv, IInv, TypeOK
  <2>2. issued'[r] <= MaximumAttempts
    BY DEF IInv, RunInv, BudgetKept
  <2> QED BY <2>1, <2>2, BoundsAssumption DEF Slots
<1>3. [run |-> r, attempt |-> issued[r] + 1, trigger |-> ticks + 1] \in Tasks
  BY <1>2 DEF Dispatch, Tasks
<1>4. ticks + 1 \in TriggerRuns /\ ticks' = ticks + 1 /\ Goto(w, "executing")
  BY DEF Dispatch
<1> HIDE DEF Tasks
<1> DEFINE k == [run |-> r, attempt |-> issued[r] + 1, trigger |-> ticks + 1]
<1>5. k \in Tasks /\ k.trigger \in TriggerRuns /\ task' = [task EXCEPT ![w] = k]
  BY <1>1, <1>3, <1>4
<1> HIDE DEF k
<1> QED BY <1>4, <1>5, TypeTasks DEF WorkerInv, WorkerTypeOK, Points, Tasks, Goto, Dispatched

LEMMA WorkerNextInvariant == WorkerInv /\ [WorkersNext]_allVars => WorkerInv'
<1> SUFFICES ASSUME WorkerInv, [WorkersNext]_allVars PROVE WorkerInv'
  OBVIOUS
<1>1. IInv'
  BY WorkersRefine, InvStep DEF WorkerInv
<1>2. CASE \E w \in Workers : Dispatch(w)
  BY <1>1, <1>2, DispatchStep DEF WorkerInv
<1>3. ASSUME NEW w \in Workers, Work(w) PROVE WorkerInv'
  <2>1. CASE GoIdle(w)
    BY <1>1, <2>1, IdleStep DEF WorkerInv
  <2>2. CASE ~GoIdle(w)
    <3>1. Record(w) \/ Throw(w)
      BY <1>3, <2>2 DEF Work, Externalize, Finalize, ReportFailure, ReportRefused
    <3>2. /\ pc[w] # "idle" /\ UNCHANGED <<task, ticks>>
          /\ \E p \in Points : Goto(w, p)
      BY <3>1 DEF Record, Throw, Points
    <3> QED BY <1>1, <3>2, GotoStep DEF WorkerInv
  <2> QED BY <2>1, <2>2
<1>4. CASE \E w \in Workers : Crash(w)
  BY <1>1, <1>4, IdleStep DEF Crash, WorkerInv
<1>5. CASE UNCHANGED workerVars
  BY <1>1, <1>5 DEF WorkerInv, workerVars, WorkerTypeOK, Dispatched
<1>6. CASE UNCHANGED allVars
  BY <1>5, <1>6 DEF allVars
<1> QED BY <1>2, <1>3, <1>4, <1>5, <1>6, OthersAreSteps DEF WorkersNext

\* The inductive invariant of the processes over the control plane.
THEOREM WorkerInvariance == WorkersSpec => []WorkerInv
BY WorkerInitInvariant, WorkerNextInvariant, PTL DEF WorkersSpec

\* The ticks never hold an envelope the control plane could not have issued.
THEOREM WorkerTypeCorrect == WorkersSpec => []WorkerTypeOK
<1>1. WorkerInv => WorkerTypeOK
  BY DEF WorkerInv
<1> QED BY <1>1, WorkerInvariance, PTL

\* Whatever the processes do is a behaviour of the control plane.
THEOREM WorkersImplementPreflight == WorkersSpec => Spec
<1>1. WorkersInit => Init
  BY DEF WorkersInit
<1>2. WorkerInv /\ [WorkersNext]_allVars => [Next]_vars
  BY WorkersRefine
<1> QED BY <1>1, <1>2, WorkerInvariance, PTL DEF WorkersSpec, Spec

-----------------------------------------------------------------------------
(* A stale tick.                                                            *)

\* A step that moves a tick is that tick's own.
LEMMA OwnStep ==
  ASSUME WorkerInv, WorkersNext, NEW w \in Workers, pc[w] # "idle",
         task'[w] # task[w] \/ pc'[w] # pc[w]
  PROVE  Work(w) \/ Crash(w)
<1>1. ASSUME NEW v \in Workers, v # w, Dispatch(v) \/ Work(v) \/ Crash(v)
      PROVE  FALSE
  <2>1. /\ \E p \in Points : pc' = [pc EXCEPT ![v] = p]
        /\ task' = task \/ \E k \in {task'[v]} : task' = [task EXCEPT ![v] = k]
    BY <1>1, TypeTasks
       DEF WorkerInv, Points, Dispatch, Work, Record, Externalize, Throw, Finalize,
           ReportFailure, ReportRefused, Crash, GoIdle, Goto
  <2> QED BY <1>1, <2>1, TypeTasks DEF WorkerInv
<1>2. CASE \E v \in Workers : Dispatch(v) \/ Work(v) \/ Crash(v)
  BY <1>1, <1>2 DEF Dispatch
<1>3. CASE Reconciler \/ Answer \/ Reaper \/ Clock
  BY <1>3, OthersAreSteps DEF workerVars
<1> QED BY <1>2, <1>3 DEF WorkersNext

LEMMA StaleStep ==
  ASSUME WorkerInv, WorkersNext, NEW w \in Workers, pc[w] \in {"executing", "failing"},
         attempt[task[w].run][task[w].attempt] \notin LiveStates,
         task'[w] # task[w] \/ pc'[w] # pc[w]
  PROVE  UNCHANGED vars
<1>1. Work(w) \/ Crash(w)
  BY OwnStep
<1>2. CASE Crash(w)
  BY <1>2 DEF Crash
<1>3. CASE Work(w)
  <2>1. ~Record(w) /\ ~Externalize(w) /\ ~Finalize(w) /\ ~ReportFailure(w)
    BY DEF Record, RecordOutput, Externalize, MarkWaitingExternal, Finalize,
           ReportFailure, FailControlRetry, FailControlTerminal, HoldsControl, LiveStates
  <2> QED BY <1>3, <2>1 DEF Work, Throw, ReportRefused
<1> QED BY <1>1, <1>2, <1>3

\* A tick that outlived its authority changes nothing of the lane.
THEOREM StaleTickHasNoEffectHolds == WorkersSpec => StaleTickHasNoEffect
<1>1. WorkerInv /\ [WorkersNext]_allVars =>
        [\A w \in Workers :
           /\ pc[w] \in {"executing", "failing"}
           /\ attempt[task[w].run][task[w].attempt] \notin LiveStates
           /\ task'[w] # task[w] \/ pc'[w] # pc[w]
           => UNCHANGED vars]_allVars
  BY StaleStep
<1> QED BY <1>1, WorkerInvariance, PTL DEF WorkersSpec, StaleTickHasNoEffect
=============================================================================
