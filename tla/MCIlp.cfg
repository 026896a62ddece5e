CONSTANTS
  N = 3
  Size = 3
  NoVector = NoVector
  Formulas <- SmallFormulas
  IlpSolvers = {"gurobi", "cplex"}
SPECIFICATION IlpSpec
INVARIANTS KeepsAsGood SolvedIsOptimal
CHECK_DEADLOCK FALSE
