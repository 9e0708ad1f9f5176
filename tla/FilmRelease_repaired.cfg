SPECIFICATION ReleaseSpec
CONSTANTS
  film = film
  Films = {film}
  Jobs = {film}
  p1 = p1
  p2 = p2
  Packagers = {p1, p2}
  old = old
  new = new
  Releases = {old, new}
  Nothing = Nothing
  MaxClaims = 3
  MaxFailures = 2
  Shots = {1}
  w1 = w1
  Workers = {w1}
  Nobody = Nobody
  Silent = {}
  MaxAttempts = 2
  MaxRounds = 0
  MaxSources = 1
INVARIANTS
  ApprovedIsPackageable
CHECK_DEADLOCK FALSE
