SPECIFICATION Spec
CONSTANTS
  w1 = w1
  w2 = w2
  s1 = s1
  s2 = s2
  none = none
  Workers = {w1, w2}
  Signatures = {s1, s2}
  NoSignature = none
  MaxFixAttempts = 3
  MaxTries = 1
  MaxMessages = 2
  Overlap = FALSE
SYMMETRY Symmetry
INVARIANTS
  AtMostOneCarrier
  ChargedOnce
  RetryCountsPatches
PROPERTIES
  OnlyAnswersResume
  NoProgressIsReal
  ImplementsLifecycle
CHECK_DEADLOCK FALSE
