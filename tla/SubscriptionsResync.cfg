SPECIFICATION Spec
CONSTANTS
  h1 = h1
  h2 = h2
  r1 = r1
  Handlers = {h1, h2}
  Resyncs = {r1}
  MaxEvents = 2
PROPERTIES
  ResyncKeepsNewer
CHECK_DEADLOCK FALSE
