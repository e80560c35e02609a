SPECIFICATION Spec
CONSTANTS
  f1 = f1
  f2 = f2
  m1 = m1
  m2 = m2
  m3 = m3
  guard = guard
  screener = screener
  blank = blank
  letters = letters
  None = None
  MaxMember = 3
  Firm <- MCFirm
  Month <- MCMonth
  DayCount <- MCDayCount
  Role <- MCRole
  Char <- MCChar
  Session <- Sessions
  RawCell <- MCRawCell
  Fault <- MCFault
  Text <- MCText
  Garbage <- MCGarbage
  Empty = blank
  DbMax = 5
  Crew <- MCCrew
  PipeCrew = 200
  Delay <- MCDelay
CHECK_DEADLOCK FALSE
INVARIANT TypeOK
INVARIANT FileIsKept
INVARIANT RosterIsBest
PROPERTY EntriesArrive
PROPERTY SolveEnds
