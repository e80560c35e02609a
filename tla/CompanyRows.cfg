SPECIFICATION Spec
CONSTANTS
  None = None
  MaxCompany = 3
  MaxWorker = 3
  m1 = m1
  m2 = m2
  w1 = w1
  w2 = w2
  w3 = w3
  ViewMonth = {m1, m2}
  GridMonth = {m1, m2}
  Member = {w1, w2, w3}
  Call = {p1, p2}
  Session <- CompanySessions
CHECK_DEADLOCK FALSE
INVARIANT RowsAreOwn
