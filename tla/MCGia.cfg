CONSTANTS
  N = 3
  Size = 3
  NoVector = NoVector
  Formulas <- SmallFormulas
SPECIFICATION FairSpec
INVARIANTS FirstMaximumMinimal ParetoIfDistinct
PROPERTIES IndexJustified Implements Terminates
CHECK_DEADLOCK FALSE
