SPECIFICATION FairSpec
CONSTANTS
  u1 = u1
  u2 = u2
  u3 = u3
  w1 = w1
  w2 = w2
  w3 = w3
  None = None
  Upload = {u1, u2}
  Worker = {w1, w2, w3}
  Rows <- LongFiles
  Foreign = {w3}
  CheckInterval = 2
  RetryLimit = 0
  MaxTask = 4
  MaxFaults = 1
INVARIANT TypeOK
INVARIANT StaleRowsBounded
PROPERTY TaskEndsUnlessFault
CHECK_DEADLOCK FALSE
