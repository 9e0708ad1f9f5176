--------------------------- MODULE PreflightWorkers ---------------------------
(***************************************************************************)
(* The processes that drive a preflight lane: overlapping ticks of the     *)
(* inline cron runner (advanceNextMvpPreflight), the auto-reconciler that  *)
(* creates and enqueues runs, the reaper and the clock, over the commands  *)
(* of Preflight.  A tick dispatches with a fresh random trigger_run_id and *)
(* then holds, in its own memory, an envelope that may be stale by the     *)
(* time it is used.  A tick can die at the points in CrashPoints: a deploy *)
(* or the function's time limit ends it, and nothing remembers it.         *)
(*                                                                         *)
(* Only commands the application calls are steps here: the worker commands *)
(* on stages, pause, resume and requeue have no caller under src/src.      *)
(***************************************************************************)
EXTENDS Preflight

CONSTANTS
  Workers,      \* ticks that may overlap
  CrashPoints   \* control points at which a tick may die

ASSUME CrashAssumption ==
  CrashPoints \subseteq {"executing", "recorded", "failing"}

\* Trigger identities are drawn in order, one for each dispatch; a run is
\* dispatched at most MaximumAttempts times, so that they never run out.
ASSUME FreshIdentities ==
  TriggerRuns = 1..(MaxRuns * MaximumAttempts) /\ NoTrigger = 0

VARIABLES
  pc,      \* where each tick is
  task,    \* the envelope it holds: run, attempt and its own trigger_run_id
  ticks    \* identities drawn so far

workerVars == <<pc, task, ticks>>
allVars    == <<vars, workerVars>>

Idle == [run |-> 1, attempt |-> 1, trigger |-> NoTrigger]

WorkerTypeOK ==
  /\ pc \in [Workers -> {"idle", "executing", "recorded", "failing"}]
  /\ task \in [Workers -> [run : Runs, attempt : Slots,
                           trigger : TriggerRuns \cup {NoTrigger}]]
  /\ ticks \in Nat

WorkersInit ==
  /\ Init
  /\ pc = [w \in Workers |-> "idle"]
  /\ task = [w \in Workers |-> Idle]
  /\ ticks = 0

Goto(w, point) == pc' = [pc EXCEPT ![w] = point]

GoIdle(w) ==
  /\ Goto(w, "idle")
  /\ task' = [task EXCEPT ![w] = Idle]
  /\ UNCHANGED ticks

-----------------------------------------------------------------------------

\* The tick picks the queued run and dispatches it; a run that is queued but
\* not yet due makes the command raise, and the tick ends.
Dispatch(w) ==
  /\ pc[w] = "idle" /\ ticks + 1 \in TriggerRuns
  /\ \E r \in Runs :
       /\ DispatchFresh(r, ticks + 1)
       /\ task' = [task EXCEPT ![w] = [run |-> r, attempt |-> issued[r] + 1,
                                       trigger |-> ticks + 1]]
  /\ ticks' = ticks + 1
  /\ Goto(w, "executing")

\* executePreflightControl produced an output and recorded it.
Record(w) ==
  /\ pc[w] = "executing"
  /\ RecordOutput(task[w].run, task[w].attempt)
  /\ Goto(w, "recorded")
  /\ UNCHANGED <<task, ticks>>

\* It left providers to answer instead.
Externalize(w) ==
  /\ pc[w] = "executing"
  /\ MarkWaitingExternal(task[w].run, task[w].attempt)
  /\ GoIdle(w)

\* Execution, or a command it called, threw.
Throw(w) ==
  /\ pc[w] = "executing"
  /\ Goto(w, "failing")
  /\ UNCHANGED <<vars, task, ticks>>

Finalize(w) ==
  /\ pc[w] = "recorded"
  /\ FinalizeControl(task[w].run, task[w].trigger)
  /\ GoIdle(w)

\* The catch block reports the failure, retryable or not ...
ReportFailure(w) ==
  /\ pc[w] = "failing"
  /\ \/ FailControlRetry(task[w].run, task[w].attempt)
     \/ FailControlTerminal(task[w].run, task[w].attempt)
  /\ GoIdle(w)

\* ... and swallows the refusal when its authority is gone.
ReportRefused(w) ==
  /\ pc[w] = "failing"
  /\ ~HoldsControl(task[w].run, task[w].attempt)
  /\ GoIdle(w)
  /\ UNCHANGED vars

\* The tick dies.  At "recorded" this is also a finalize that throws: the
\* report of that failure is refused, since the attempt is closed already.
Crash(w) ==
  /\ pc[w] \in CrashPoints
  /\ GoIdle(w)
  /\ UNCHANGED vars

\* The auto-reconciler creates the next run of the lane, and enqueues it.
Reconciler ==
  /\ \E r \in Runs :
       \/ CreateRun(r)
       \/ runState[r] = "created" /\ EnqueueRun(r)
  /\ UNCHANGED workerVars

\* Provider answers, by the ingest workers and pollers.
Answer ==
  /\ \E r \in Runs : \E a \in Slots :
       \/ CompleteExternal(r, a)
       \/ FailNarrationRun(r, a)
       \/ FailWorldAnchorRun(r, a)
  /\ UNCHANGED workerVars

\* Its repair loop finds nothing here: no command the application calls leaves
\* a stage failed_retryable.
Reaper ==
  /\ \E r \in Runs : \E a \in Slots : Reap(r, a)
  /\ UNCHANGED workerVars

Clock ==
  /\ \E r \in Runs : Time(r)
  /\ UNCHANGED workerVars

Work(w) ==
  \/ Record(w)
  \/ Externalize(w)
  \/ Throw(w)
  \/ Finalize(w)
  \/ ReportFailure(w)
  \/ ReportRefused(w)

WorkersNext ==
  \/ \E w \in Workers : Dispatch(w) \/ Work(w) \/ Crash(w)
  \/ Reconciler
  \/ Answer
  \/ Reaper
  \/ Clock

\* The cron calls the runner for ever, and each of its calls reaps first; a
\* function is run to its end or killed by its time limit; leases and back-offs
\* run out.  Nothing is assumed of providers, nor of the auto-reconciler.
WorkersFairness ==
  /\ WF_allVars(\E w \in Workers : Dispatch(w))
  /\ \A w \in Workers : WF_allVars(Work(w))
  /\ WF_allVars(Reaper)
  /\ WF_allVars(Clock)

WorkersSpec == WorkersInit /\ [][WorkersNext]_allVars /\ WorkersFairness

-----------------------------------------------------------------------------

\* A tick whose attempt was reaped, failed or decided meanwhile acts in vain:
\* whatever it calls, the lane does not change.
StaleTickHasNoEffect ==
  [][\A w \in Workers :
       /\ pc[w] \in {"executing", "failing"}
       /\ attempt[task[w].run][task[w].attempt] \notin LiveStates
       /\ task'[w] # task[w] \/ pc'[w] # pc[w]
       => UNCHANGED vars]_allVars

\* A dispatched run is not forgotten: however often ticks die, it is decided or
\* left to the providers.
RunSettles ==
  \A r \in Runs : runState[r] \in {"queued", "running"}
    ~> runState[r] \in TerminalRun \cup {"waiting_external"}

=============================================================================
