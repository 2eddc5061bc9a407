SPECIFICATION Spec
CONSTANTS
  w1 = w1
  w2 = w2
  s1 = s1
  s2 = s2
  none = none
  Workers = {w1, w2}
  Signatures = {s1, s2}
  NoSignature = none
  MaxFixAttempts = 1
  MaxTries = 0
  MaxMessages = 1
  Overlap = TRUE
SYMMETRY Symmetry
VIEW WithoutHistory
INVARIANTS
  TypeOK
  ReasonIffFailed
  RetryWithinLimit
  ChargedBeforeWork
  FixingHasLog
PROPERTIES
  TerminalIsFinal
CHECK_DEADLOCK FALSE
