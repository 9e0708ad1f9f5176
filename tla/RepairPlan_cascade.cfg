SPECIFICATION Spec
CONSTANTS
  TotalShots = 4
  Frameless = {2}
  Split = {}
INVARIANTS
  CascadeCloses
  CascadeIsMinimal
  SourcesAreExact
CHECK_DEADLOCK FALSE
