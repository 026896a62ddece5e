CONSTANTS
  N = 3
  Size = 2
  NoVector = NoVector
  Inputs = {0, 1, 2, 3}
  Owner <- SmallOwner
  Problems <- SmallProblems
  Configs <- SoundConfigs
SPECIFICATION FairSpec
INVARIANTS LowerBoundsSound NoInputLost BoundsFit PrefixReachable
PROPERTIES Implements Terminates
CHECK_DEADLOCK FALSE
