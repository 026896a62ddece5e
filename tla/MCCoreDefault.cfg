CONSTANTS
  N = 2
  Size = 5
  NoVector = NoVector
  Inputs = {0, 1, 2, 3, 4, 5, 6, 7}
  Owner <- TradeOwner
  Problems <- TradeProblems
  Configs <- DefaultConfig
SPECIFICATION Spec
INVARIANT VerdictSound
CHECK_DEADLOCK FALSE
