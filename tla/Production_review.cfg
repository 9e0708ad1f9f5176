SPECIFICATION Spec
CONSTANTS
  film = film
  Jobs = {film}
  Shots = {1, 2}
  w1 = w1
  w2 = w2
  Workers = {w1, w2}
  Nobody = Nobody
  Silent = {2}
  MaxAttempts = 2
  MaxRounds = 1
  MaxSources = 2
INVARIANTS
  RenderInputsComplete
  CuePaidOnce
  RepairKeepsTheRest
  RejectedIsRetryable
PROPERTIES
  ReleasedIsReviewed
  DecidedIsFinal
CHECK_DEADLOCK FALSE
