CONSTANTS
  N = 2
  Size = 2
  NoSolution = NoSolution
  Points <- SmallPoints
  Costs <- SmallCosts
  Configs <- BlockedFirst
SPECIFICATION Spec
INVARIANT ReportTrue
CHECK_DEADLOCK FALSE
