SPECIFICATION Spec
CONSTANTS
  r1 = r1
  r2 = r2
  k1 = k1
  k2 = k2
  k3 = k3
  j1 = j1
  j2 = j2
  j3 = j3
  Requests = {r1, r2}
  Jobs = {j1, j2, j3}
  Keys = {k1, k2, k3}
  Cap = 1
  RetryCap = 1
  MaxProjects = 3
  Monthly = 1
  MonthlyEdits = 1
  MaxRetries = 1
  Cost = 2
  MaxBonus = 2
  MaxRefills = 1
  None = None
SYMMETRY Symmetry
INVARIANTS OneRetryPerJob
CHECK_DEADLOCK FALSE
