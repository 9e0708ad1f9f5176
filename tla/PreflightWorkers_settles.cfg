SPECIFICATION WorkersSpec
CONSTANTS
  MaxRuns = 2
  MaximumAttempts = 2
  TriggerRuns = {1, 2, 3, 4}
  NoTrigger = 0
  w1 = w1
  w2 = w2
  Workers = {w1, w2}
  CrashPoints = {"executing", "failing"}
PROPERTIES
  StaleTickHasNoEffect
  RunSettles
CHECK_DEADLOCK FALSE
