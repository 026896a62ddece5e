CONSTANTS
  N = 3
  Size = 4
  NoVector = NoVector
  Formulas <- SmallFormulas
  Modes = {"bin", "lin_su", "lin_us"}
SPECIFICATION FairSpec
INVARIANTS BoundsSound KeepsBetter PrefixOptimal NoErrorExit
PROPERTIES Implements Terminates
CHECK_DEADLOCK FALSE
