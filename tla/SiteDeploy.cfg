SPECIFICATION Spec
CONSTANTS
  j1 = j1
  j2 = j2
  b1 = b1
  a1 = a1
  a2 = a2
  w1 = w1
  w2 = w2
  none = none
  Jobs = {j1, j2}
  Rollbacks = {b1}
  Attempts = {a1}
  Workers = {w1, w2}
  None = none
  Overlap = FALSE
SYMMETRY Symmetry
VIEW Matters
INVARIANTS
  FailedIsDown
  StatesAgree
  GcFindsLeftovers
PROPERTIES
  CurrentIsPublished
  PreviousStands
CHECK_DEADLOCK FALSE
