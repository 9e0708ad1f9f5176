SPECIFICATION Spec
CONSTANTS
  TotalShots = 3
  Frameless = {}
  Split = {}
INVARIANTS
  CompiledIsGrounded
CHECK_DEADLOCK FALSE
