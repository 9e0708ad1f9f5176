SPECIFICATION Spec
CONSTANTS
  Ingests = {w1, w2}
  NoIngest = none
  Encodings = {e1, e2}
  NoBytes = nothing
  MaxAttempts = 2
INVARIANTS SpentOnce DecidedTogether StoredAsPromoted
PROPERTIES StaleIngestDecidesNothing IngestSettles
CHECK_DEADLOCK FALSE
