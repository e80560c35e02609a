SPECIFICATION FairSpec
CONSTANTS
  u1 = u1
  u2 = u2
  u3 = u3
  w1 = w1
  w2 = w2
  w3 = w3
  None = None
  Upload = {u1, u2}
  Worker = {w1, w2, w3}
  Rows <- OneRowFiles
  Foreign = {}
  CheckInterval = 1
  RetryLimit = 1
  MaxTask = 6
  MaxFaults = 1
INVARIANT OneActiveTask
INVARIANT StampedByWinner
PROPERTY NoResurrection
PROPERTY ImplementsSlot
PROPERTY PipelineDrains
CHECK_DEADLOCK FALSE
