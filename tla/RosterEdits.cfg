SPECIFICATION Spec
CONSTANTS
  w1 = w1
  w2 = w2
  e1 = e1
  e2 = e2
  e3 = e3
  None = None
  Worker = {w1, w2}
  Editor = {e1, e2}
  Slot <- Slots
  Profile <- Profiles
  Required <- Requirements
INVARIANT TypeOK
INVARIANT DayCapUnlessRaced
INVARIANT OverMaxWasConfirmed
INVARIANT ValidatorAgreesWithSolver
PROPERTY SoloEditRepairs
PROPERTY AcksSurvive
SYMMETRY EditorSymmetry
CHECK_DEADLOCK FALSE
