SPECIFICATION FairSpec
CONSTANTS
  c1 = c1
  o1 = o1
  o2 = o2
  Clients = {c1}
  Others = {o1, o2}
  MaxEvents = 3
  MaxWriters = 2
  MaxStreams = 1
  MaxCuts = 1
INVARIANTS FramesFaithful SlotsBounded RefusedForCause
PROPERTIES EndArrives
CHECK_DEADLOCK FALSE
