-------------------------- MODULE ObjectiveInputs --------------------------
(***************************************************************************)
(* What the algorithms share that see the inputs of the objectives one by  *)
(* one: the core-guided algorithms (CoreGuided) assume them false until a  *)
(* core has them, the enumeration of maximal satisfiable subsets (Mss)     *)
(* collects those that can be false together.                              *)
(*                                                                         *)
(* A problem is the set of its models, and a model is the set of the       *)
(* inputs it makes true.                                                   *)
(***************************************************************************)
EXTENDS Leximax

CONSTANTS
  Inputs,      \* the objective variables
  Owner,       \* the objective of each of them (m_objectives)
  Problems,    \* the sets of models
  NoVector     \* no solution is held

ASSUME OwnerAssumption == Owner \in [Inputs -> Obj]
ASSUME InputsAssumption ==
  IsFiniteSet(Inputs) /\ \A j \in Obj : Cardinality({x \in Inputs : Owner[x] = j}) <= Size
ASSUME ProblemsAssumption == \A P \in Problems : P \subseteq SUBSET Inputs
ASSUME NoVectorAssumption == NoVector \notin Vector

VARIABLES
  models,    \* the models of the problem
  status,    \* m_status
  best,      \* objective vector of m_solution, or NoVector
  pc         \* where the algorithm is

Of(S, j) == {x \in S : Owner[x] = j}
Values(m) == [j \in Obj |-> Cardinality(Of(m, j))]
feasible == {Values(m) : m \in models}

Most(S) == CHOOSE a \in S : \A b \in S : b <= a
=============================================================================
