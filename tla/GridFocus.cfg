SPECIFICATION Spec
CONSTANTS
  Size <- MCSize
  MaxRow = 5
  MaxCol = 3
  Height = 2
  Overscan = 1
  None = None
INVARIANT TypeOK
INVARIANT KeysActOnSelection
PROPERTY FocusFollows
