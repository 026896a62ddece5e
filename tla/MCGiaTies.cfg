CONSTANTS
  N = 2
  Size = 3
  NoVector = NoVector
  Formulas <- SmallFormulas
SPECIFICATION Spec
INVARIANT ParetoSearchFindsPareto
CHECK_DEADLOCK FALSE
