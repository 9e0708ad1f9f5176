SPECIFICATION Spec
CONSTANTS
  MaxRuns = 2
  MaximumAttempts = 3
  t1 = t1
  t2 = t2
  TriggerRuns = {t1, t2}
  NoTrigger = NoTrigger
SYMMETRY TriggerSymmetry
INVARIANTS
  ResultHasOneAuthor
  FailedRunIsQuiet
  AttemptBudget
  NoObsoleteWork
PROPERTIES
  TerminalIsFinal
  LaneSpec
CHECK_DEADLOCK FALSE
