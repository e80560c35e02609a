SPECIFICATION FairSpec
CONSTANTS
  c1 = c1
  c2 = c2
  m1 = m1
  m2 = m2
  s1 = s1
  s2 = s2
  w1 = w1
  w2 = w2
  None = None
  Company = {c1, c2}
  Month = {m1, m2}
  Slot = {s1, s2}
  Worker = {w1, w2}
  Session <- Sessions
  Start <- FirstScope
  Generated <- Month1
  MaxJobs = 2
  MaxImports = 2
CHECK_DEADLOCK FALSE
INVARIANT TypeOK
INVARIANT ScreenIsOfScope
INVARIANT ActsWereAsked
PROPERTY AnswersArrive
