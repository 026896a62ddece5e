CONSTANTS
  N = 2
  Size = 2
  NoVector = NoVector
  Inputs = {0, 1, 2, 3}
  Owner <- SmallOwner
  Problems <- SmallProblems
  MssOptions <- SmallOptions
SPECIFICATION MssFairSpec
INVARIANTS ChoiceValid FirstMaximumKept
PROPERTY MssTerminates
CHECK_DEADLOCK FALSE
