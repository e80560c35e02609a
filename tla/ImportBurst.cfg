SPECIFICATION Spec
CONSTANTS
  u1 = u1
  u2 = u2
  u3 = u3
  w1 = w1
  w2 = w2
  w3 = w3
  None = None
  Upload = {u1, u2, u3}
  Worker = {w1, w2, w3}
  Rows <- MixedFiles
  Foreign = {}
  CheckInterval = 1
  RetryLimit = 0
  MaxTask = 6
  MaxFaults = 0
INVARIANT SomeImportCompletes
INVARIANT NewestTakesOver
INVARIANT LatestStampsItsWorkers
CHECK_DEADLOCK FALSE
