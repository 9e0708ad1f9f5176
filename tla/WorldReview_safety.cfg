SPECIFICATION Spec
CONSTANTS
  hero = hero
  fort = fort
  u1 = u1
  u2 = u2
  Anchors = {hero, fort}
  NoAnchor = NoAnchor
  Uploaders = {u1, u2}
  MaxRequests = 2
  MaxRuns = 2
  MaxTries = 2
INVARIANTS TypeOK GeneratingIsQueued
PROPERTIES AcceptedIsKept ChoiceIsKept
CHECK_DEADLOCK FALSE
SYMMETRY Symmetry
