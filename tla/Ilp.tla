-------------------------------- MODULE Ilp --------------------------------
(***************************************************************************)
(* Solver::optimise with the ILP-based algorithm (optimise_ilp): the       *)
(* maxima are minimised one after the other, each by one run of Gurobi or  *)
(* CPLEX on a file.  The objectives relaxed in iteration i may exceed the  *)
(* ith maximum by a bound taken from the solution held.                    *)
(***************************************************************************)
EXTENDS Iterations

CONSTANT IlpSolvers    \* the values of m_ilp_solver
ASSUME IlpSolversAssumption == IlpSolvers \subseteq {"gurobi", "cplex"}

\* pc is also "call"
VARIABLES
  ilp_solver,   \* m_ilp_solver
  fixed,        \* values of the maxima before: the = constraints
  relax,        \* the bounds on what a relaxed objective exceeds them by
  cut           \* history: some run did not end with an optimal solution

ilp_vars == <<feasible, status, best, ilp_solver, pc, i, fixed, relax, cut>>

Largest(S) == CHOOSE a \in S : \A b \in S : b <= a
Smallest(S) == CHOOSE a \in S : \A b \in S : a <= b

(***************************************************************************)
(* The constraints of iteration n with value k of its maximum: at most n   *)
(* relaxation variables are true.  In iteration 0 there are none.          *)
(***************************************************************************)
Bounded(v, n, k, bound) ==
  AtMostAbove(v, n, k) /\ \A j \in Obj : v[j] <= k + IF n = 0 THEN 0 ELSE bound

ilp_bound_rest ==   \* a mutant: how far the ith maximum is below the first
  Largest({best[j] : j \in Obj}) - Maximum(best, i)
ilp_bound == Largest({best[j] : j \in Obj})

Constraints(v) == \A n \in 0 .. i-1 : Bounded(v, n, fixed[n], relax[n])
Reached(v, k) == Constraints(v) /\ Bounded(v, i, k, ilp_bound)
Optimum == Smallest({k \in Value : \E v \in feasible : Reached(v, k)})

IlpInit ==
  /\ SpecInit
  /\ ilp_solver \in IlpSolvers
  /\ pc = "start"
  /\ i = 0
  /\ fixed = [j \in Obj |-> 0] /\ relax = [j \in Obj |-> 0]
  /\ cut = FALSE

(* The call of the SAT solver that decides whether there is a solution.    *)
IlpCheckSat ==
  /\ pc = "start"
  /\ \/ Refute /\ pc' = "done"
     \/ Find /\ pc' = "call"
  /\ UNCHANGED <<ilp_solver, i, fixed, relax, cut>>

(***************************************************************************)
(* After a run the ith maximum of the solution held is fixed; after the    *)
(* last one optimise reports "o".                                          *)
(***************************************************************************)
Fix_first ==   \* a mutant: every maximum gets the value of the first
  /\ fixed' = [fixed EXCEPT ![i] = Maximum(best', 0)]
  /\ relax' = [relax EXCEPT ![i] = ilp_bound]
  /\ IF i = N-1 THEN pc' = "done" /\ status' = "o" /\ UNCHANGED i
                ELSE i' = i + 1 /\ UNCHANGED <<pc, status>>
Fix ==
  /\ fixed' = [fixed EXCEPT ![i] = Maximum(best', i)]
  /\ relax' = [relax EXCEPT ![i] = ilp_bound]
  /\ IF i = N-1 THEN pc' = "done" /\ status' = "o" /\ UNCHANGED i
                ELSE i' = i + 1 /\ UNCHANGED <<pc, status>>

Solved ==
  /\ pc = "call"
  /\ \E v \in feasible : Reached(v, Optimum) /\ best' = BestOf(v, best)
  /\ Fix
  /\ UNCHANGED <<feasible, ilp_solver, cut>>

(***************************************************************************)
(* The solver is stopped: it leaves some solution of the constraints, or   *)
(* none.  Without a solution Gurobi writes no file, and optimise exits;    *)
(* CPLEX's output has no solution in it, and set_solution ignores that.    *)
(***************************************************************************)
StoppedWithSolution ==
  /\ pc = "call"
  /\ \E v \in feasible, k \in Value : Reached(v, k) /\ best' = BestOf(v, best)
  /\ cut' = TRUE
  /\ Fix
  /\ UNCHANGED <<feasible, ilp_solver>>

StoppedWithout ==
  /\ pc = "call"
  /\ cut' = TRUE
  /\ UNCHANGED best
  /\ IF ilp_solver = "gurobi" THEN pc' = "exit" /\ UNCHANGED <<status, i, fixed, relax>>
                              ELSE Fix
  /\ UNCHANGED <<feasible, ilp_solver>>

IlpNext == IlpCheckSat \/ Solved \/ StoppedWithSolution \/ StoppedWithout

IlpSpec == IlpInit /\ [][IlpNext]_ilp_vars

-----------------------------------------------------------------------------
(***************************************************************************)
(* No run is on an infeasible problem: the solution held satisfies the     *)
(* constraints, whose relaxation bound is large enough for it.  And if no  *)
(* run was stopped, every solution that is as good satisfies them.         *)
(***************************************************************************)
KeepsAsGood ==
  pc = "call" =>
    /\ \E k \in Value : Reached(best, k)
    /\ ~ cut => \A v \in feasible : ~ Better(best, v) => Constraints(v)

(***************************************************************************)
(* If every run has found an optimal solution, so has optimise.            *)
(***************************************************************************)
SolvedIsOptimal == status = "o" /\ ~ cut => Optimal(best, feasible)
=============================================================================
