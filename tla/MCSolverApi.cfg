CONSTANTS
  N = 2
  Size = 2
  NoSolution = NoSolution
  Points <- SmallPoints
  Costs <- SmallCosts
  Configs <- SmallConfigs
SPECIFICATION Spec
INVARIANTS ReportTrue SolutionCovered BetterKept
CHECK_DEADLOCK FALSE
