SPECIFICATION Spec
CONSTANTS
  j1 = j1
  j2 = j2
  Jobs = {j1, j2}
  NoJob = NoJob
  w1 = w1
  w2 = w2
  Workers = {w1, w2}
  MaxAttempts = 3
  MaxPolls = 3
INVARIANTS
  PromotionIsWhole
  ArrivedIsNotGivenUp
  RejectedEndsWait
  OneIngest
PROPERTY DecidedIsQuiet
CHECK_DEADLOCK FALSE
