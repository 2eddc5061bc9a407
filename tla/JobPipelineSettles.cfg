SPECIFICATION FairSpec
CONSTANTS
  w1 = w1
  w2 = w2
  s1 = s1
  s2 = s2
  none = none
  Workers = {w1}
  Signatures = {s1, s2}
  NoSignature = none
  MaxFixAttempts = 1
  MaxTries = 0
  MaxMessages = 2
  Overlap = TRUE
PROPERTY Settles
CHECK_DEADLOCK FALSE
