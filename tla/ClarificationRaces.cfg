SPECIFICATION FairSpec
CONSTANTS
  j1 = j1
  j2 = j2
  r1 = r1
  r2 = r2
  a1 = a1
  a2 = a2
  bad = bad
  none = none
  Jobs = {j1, j2}
  Requests = {r1, r2}
  AnswerSets = {a1, a2}
  Incomplete = bad
  NoAnswers = none
INVARIANTS
  AcceptedIsKept
  VerdictsAgree
PROPERTY AnsweredSettles
CHECK_DEADLOCK FALSE
