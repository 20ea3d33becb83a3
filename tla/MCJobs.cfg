SPECIFICATION Spec
CONSTANTS
  Exports = {e1, e2}
  Profiles = {p1, p2}
  Limits = {0, 1}
SYMMETRY Symmetry
INVARIANTS
  JobsInv
  CancelDispatched
  QuitIsComplete
PROPERTIES
  WithinLimit
  RefusedWhenFull
