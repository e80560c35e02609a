SPECIFICATION Spec
CONSTANTS
  u1 = u1
  u2 = u2
  u3 = u3
  e1 = e1
  e2 = e2
  p1 = p1
  p2 = p2
  d1 = d1
  w1 = w1
  w2 = w2
  w3 = w3
  None = None
  Request = {u1,u2}
  Forced = {u2}
  Editor = {}
  Publisher = {p1}
  Reader = {}
  Worker = {w1}
  Required = 1
  RetryLimit = 0
  MaxImports = 0
  MaxFaults = 0
PROPERTY PublishGate
CHECK_DEADLOCK FALSE
