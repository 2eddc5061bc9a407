SPECIFICATION Spec
CONSTANTS
  u1 = u1
  u2 = u2
  w1 = w1
  w2 = w2
  s1 = s1
  s2 = s2
  c1 = c1
  c2 = c2
  o1 = o1
  a1 = a1
  a2 = a2
  Users = {u1, u2}
  Workers = {w1, w2}
  Purchases = {s1, s2, c1, c2, o1, a1, a2}
  Channel <- MCChannel
  Buyer <- MCBuyer
  Unknown = {s2}
  Nameless = {a2, c2}
  Cost = 2
  MaxOther = 0
SYMMETRY Symmetry
INVARIANTS
  AcknowledgedIsCredited
PROPERTIES
  ImplementsLedger
  
CHECK_DEADLOCK FALSE
