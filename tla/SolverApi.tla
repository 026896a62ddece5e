----------------------------- MODULE SolverApi -----------------------------
(***************************************************************************)
(* The life of a Solver object: what its caller may do (add clauses and    *)
(* objectives, approximate, optimise, get the solution, clear) and what    *)
(* the calls leave behind in the object.  The algorithms are those of the  *)
(* other modules, reduced to what they do to the members: they replace     *)
(* m_solution by better ones and add clauses to m_sat_solver.              *)
(*                                                                         *)
(* A formula is the set of the assignments of the input variables (points) *)
(* that satisfy it, and an objective the number of soft clauses that each  *)
(* point falsifies.  An objective that is not there yet counts 0, which    *)
(* makes no difference to the leximax order.                               *)
(***************************************************************************)
EXTENDS Leximax, Sequences

CONSTANTS
  Points,     \* the assignments of the input variables
  Costs,      \* what an objective function may be
  Configs,    \* the callers: [client, approx, optimise]
  NoSolution  \* m_solution is empty

ASSUME PointsAssumption == IsFiniteSet(Points)
ASSUME CostsAssumption == Costs \subseteq [Points -> Value]
ASSUME NoSolutionAssumption == NoSolution \notin [point : Points, vars : Nat]
(***************************************************************************)
(* A client of the library makes one call of approximate or optimise and   *)
(* clears the object before the next problem; main makes the calls the     *)
(* options ask for, and ends.                                              *)
(***************************************************************************)
ASSUME ConfigsAssumption ==
  Configs \subseteq [client : {"library", "main"}, approx : {"", "gia", "mss", "mss_incr"},
                     optimise : BOOLEAN]

VARIABLES
  config,      \* who uses the object, and its options
  formula,     \* history: the models of the clauses the client has added
  hard,        \* the models of m_input_hard
  sat,         \* what the clauses in m_sat_solver leave
  solver,      \* m_sat_solver is no null pointer
  objectives,  \* m_objectives
  ids,         \* m_id_count, in groups of variables that are made together; 0 if
               \* m_input_hard is empty
  inputVars,   \* m_input_nb_vars, in the same unit
  status,      \* m_status
  solution,    \* m_solution: the point, and the number of groups it has values of
  pc,          \* "idle", "approximate", "check", "optimise", "exit"
  calls        \* history: the calls made since the object was empty

problem == <<config, formula, objectives>>
vars == <<config, formula, hard, sat, solver, objectives, ids, inputVars, status,
          solution, pc, calls>>

(* The objective vector of a point (get_objective_vector).                 *)
Val(p) == [j \in Obj |-> IF j < Len(objectives) THEN objectives[j+1][p] ELSE 0]

(***************************************************************************)
(* set_solution with a model at p over v groups of variables: kept if none *)
(* is held or p is better.                                                 *)
(***************************************************************************)
Hold(p, v) ==
  solution' = IF solution = NoSolution \/ Better(Val(p), Val(solution.point))
              THEN [point |-> p, vars |-> v] ELSE solution

Init ==
  /\ config \in Configs
  /\ formula = Points /\ hard = Points /\ sat = Points
  /\ solver = TRUE
  /\ objectives = <<>>
  /\ ids = 0 /\ inputVars = 0
  /\ status = "?" /\ solution = NoSolution
  /\ pc = "idle" /\ calls = {}

(***************************************************************************)
(* add_hard_clause with a clause that the points in C satisfy.  The first  *)
(* one names the input variables, and makes the SAT solver after clear.    *)
(***************************************************************************)
AddHardClause(C) ==
  /\ pc = "idle" /\ calls = {}
  /\ formula' = formula \cap C /\ hard' = hard \cap C /\ sat' = sat \cap C
  /\ solver' = TRUE
  /\ ids' = IF ids = 0 THEN 1 ELSE ids
  /\ status' = IF status = "u" THEN "u" ELSE "?"
  /\ UNCHANGED <<config, objectives, inputVars, solution, pc, calls>>

(***************************************************************************)
(* add_soft_clauses.  Every soft clause gets a fresh variable, and hard    *)
(* clauses that exclude no point.  Without soft clauses (main does that    *)
(* for files with one objective) there is nothing to add.                  *)
(***************************************************************************)
AddSoftClauses(c) ==
  /\ pc = "idle" /\ calls = {}
  /\ Len(objectives) < N
  /\ objectives' = Append(objectives, c)
  /\ solver' = TRUE /\ ids' = ids + 1
  /\ status' = IF status = "u" THEN "u" ELSE "?"
  /\ UNCHANGED <<config, formula, hard, sat, inputVars, solution, pc, calls>>

AddNoSoftClauses ==
  /\ pc = "idle" /\ calls = {}
  /\ Len(objectives) < N
  /\ objectives' = Append(objectives, [p \in Points |-> 0])
  /\ status' = IF status = "o" THEN "s" ELSE status
  /\ UNCHANGED <<config, formula, hard, sat, solver, ids, inputVars, solution, pc, calls>>

(***************************************************************************)
(* approximate.  A null pointer ends the program in call_sat_solver.  The  *)
(* caller has added an objective: without one the algorithms take the      *)
(* largest element of an empty vector.                                     *)
(***************************************************************************)
Approximate ==
  /\ pc = "idle" /\ calls = {} /\ config.approx # "" /\ objectives # <<>>
  /\ calls' = calls \cup {"approximate"}
  /\ \/ /\ ~ solver
        /\ pc' = "exit" /\ UNCHANGED <<status, solution, ids>>
     \/ /\ solver /\ sat = {}
        /\ status' = "u" /\ UNCHANGED <<pc, solution, ids>>
     \/ /\ solver
        /\ \E p \in sat : Hold(p, ids)
        /\ status' = "s" /\ pc' = "approximate"
        /\ ids' = IF config.approx = "gia" THEN ids + 1 ELSE ids
  /\ UNCHANGED <<hard, sat, solver, inputVars, problem>>

(***************************************************************************)
(* The algorithms find better solutions, in m_sat_solver or in solvers     *)
(* that are made from m_input_hard.                                        *)
(***************************************************************************)
ApproximateImproves ==
  /\ pc = "approximate"
  /\ \E p \in hard : Better(Val(p), Val(solution.point)) /\ Hold(p, ids)
  /\ UNCHANGED <<hard, sat, solver, ids, inputVars, status, pc, calls, problem>>

(* gia bounds the objectives in m_sat_solver.                              *)
Bounded ==
  /\ pc = "approximate" /\ config.approx = "gia"
  /\ sat' \in SUBSET sat
  /\ UNCHANGED <<hard, solver, ids, inputVars, status, solution, pc, calls, problem>>

(* The incremental mss blocks what it has found by add_hard_clause.        *)
Blocked ==
  /\ pc = "approximate" /\ config.approx = "mss_incr"
  /\ \E B \in (SUBSET hard) \ {{}} : hard' = hard \ B /\ sat' = sat \ B
  /\ status' = "?"
  /\ UNCHANGED <<solver, ids, inputVars, solution, pc, calls, problem>>

ApproximateReturns ==
  /\ pc = "approximate"
  /\ pc' = "idle"
  /\ UNCHANGED <<hard, sat, solver, ids, inputVars, status, solution, calls, problem>>

(***************************************************************************)
(* optimise.  It notes the number of variables before it looks whether it  *)
(* may run at all; the signal handler may come in between.                 *)
(***************************************************************************)
MayOptimise ==
  /\ config.optimise
  /\ \/ calls = {}
     \/ config.client = "main" /\ calls = {"approximate"} /\ status # "u"

Optimise ==
  /\ pc = "idle" /\ MayOptimise
  /\ calls' = calls \cup {"optimise"}
  /\ inputVars' = ids
  /\ pc' = "check"
  /\ UNCHANGED <<hard, sat, solver, ids, status, solution, problem>>

CheckProblem ==
  /\ pc = "check"
  /\ \/ /\ status # "?" \/ Len(objectives) < 2 \/ ids = 0
        /\ pc' = "exit" /\ UNCHANGED <<status, solution, ids>>
     \/ /\ status = "?" /\ Len(objectives) >= 2 /\ ids # 0 /\ sat = {}
        /\ status' = "u" /\ pc' = "idle" /\ UNCHANGED <<solution, ids>>
     \/ /\ status = "?" /\ Len(objectives) >= 2 /\ ids # 0
        /\ \E p \in sat : Hold(p, ids)
        /\ status' = "s" /\ pc' = "optimise" /\ ids' = ids + 1
  /\ UNCHANGED <<hard, sat, solver, inputVars, calls, problem>>

OptimiseImproves ==
  /\ pc = "optimise"
  /\ \E p \in sat : Better(Val(p), Val(solution.point)) /\ Hold(p, ids)
  /\ UNCHANGED <<hard, sat, solver, ids, inputVars, status, pc, calls, problem>>

(***************************************************************************)
(* The searches add bounds and fix maxima in m_sat_solver.  They never     *)
(* exclude a solution that is better than the one held (KeepsBetter of     *)
(* module NonCore).                                                        *)
(***************************************************************************)
OptimiseRestricts ==
  /\ pc = "optimise"
  /\ \E B \in SUBSET sat :
       /\ \A p \in B : ~ Better(Val(p), Val(solution.point))
       /\ sat' = sat \ B
  /\ UNCHANGED <<hard, solver, ids, inputVars, status, solution, pc, calls, problem>>

OptimiseReturns ==
  /\ pc = "optimise"
  /\ \A p \in sat : ~ Better(Val(p), Val(solution.point))
  /\ status' = "o" /\ pc' = "idle"
  /\ UNCHANGED <<hard, sat, solver, ids, inputVars, solution, calls, problem>>

(***************************************************************************)
(* Mutants of clear that forget a member: the solution, the SAT solver,    *)
(* the number of input variables.                                          *)
(***************************************************************************)
Clear_keepsSolution ==
  /\ pc = "idle" /\ config.client = "library"
  /\ objectives' = <<>> /\ formula' = Points /\ hard' = Points
  /\ status' = "?"
  /\ ids' = 0 /\ inputVars' = 0
  /\ solver' = FALSE /\ sat' = Points
  /\ calls' = {}
  /\ UNCHANGED <<config, pc, solution>>

Clear_keepsSolver ==
  /\ pc = "idle" /\ config.client = "library"
  /\ objectives' = <<>> /\ formula' = Points /\ hard' = Points
  /\ solution' = NoSolution /\ status' = "?"
  /\ ids' = 0 /\ inputVars' = 0
  /\ calls' = {}
  /\ UNCHANGED <<config, pc, solver, sat>>

Clear_keepsInputVars ==
  /\ pc = "idle" /\ config.client = "library"
  /\ objectives' = <<>> /\ formula' = Points /\ hard' = Points
  /\ solution' = NoSolution /\ status' = "?"
  /\ ids' = 0
  /\ solver' = FALSE /\ sat' = Points
  /\ calls' = {}
  /\ UNCHANGED <<config, pc, inputVars>>

(* clear.                                                                  *)
Clear ==
  /\ pc = "idle" /\ config.client = "library"
  /\ objectives' = <<>> /\ formula' = Points /\ hard' = Points
  /\ solution' = NoSolution /\ status' = "?"
  /\ ids' = 0 /\ inputVars' = 0
  /\ solver' = FALSE /\ sat' = Points
  /\ calls' = {}
  /\ UNCHANGED <<config, pc>>

Next ==
  \/ \E C \in SUBSET Points : AddHardClause(C)
  \/ \E c \in Costs : AddSoftClauses(c)
  \/ AddNoSoftClauses
  \/ Approximate \/ ApproximateImproves \/ Bounded \/ Blocked \/ ApproximateReturns
  \/ Optimise \/ CheckProblem \/ OptimiseImproves \/ OptimiseRestricts \/ OptimiseReturns
  \/ Clear

Spec == Init /\ [][Next]_vars

-----------------------------------------------------------------------------
(***************************************************************************)
(* The types of the variables; a solution is held exactly when a call has  *)
(* found the formula satisfiable.                                          *)
(***************************************************************************)
TypeOK ==
  /\ config \in Configs
  /\ formula \subseteq Points /\ hard \subseteq Points /\ sat \subseteq hard
  /\ solver \in BOOLEAN
  /\ objectives \in Seq([Points -> Value]) /\ Len(objectives) <= N
  /\ ids \in Nat /\ inputVars \in Nat
  /\ status \in {"?", "s", "u", "o"}
  /\ solution \in [point : Points, vars : Nat] \cup {NoSolution}
  /\ status \in {"s", "o"} => solution # NoSolution
  /\ pc \in {"idle", "approximate", "check", "optimise", "exit"}
  /\ calls \subseteq {"approximate", "optimise"}

(***************************************************************************)
(* What get_status and get_solution say, and print_solution prints, is     *)
(* true of the formula the caller has given, in every state: the signal    *)
(* handler of main prints it from wherever the program is.  Nothing of an  *)
(* earlier problem, which clear ended, shows.                              *)
(***************************************************************************)
ReportTrue ==
  /\ status = "u" => formula = {}
  /\ status \in {"s", "o"} => solution # NoSolution /\ solution.point \in formula
  /\ status = "o" => \A p \in formula : ~ Better(Val(p), Val(solution.point))

(***************************************************************************)
(* get_solution does not read past the end of m_solution, which has the    *)
(* variables of the time it was found.                                     *)
(***************************************************************************)
SolutionCovered == status \in {"s", "o"} => inputVars <= solution.vars

(***************************************************************************)
(* While optimise runs, m_sat_solver still has every solution of the       *)
(* formula that is better than the one held.                               *)
(***************************************************************************)
BetterKept ==
  pc = "optimise" =>
    \A p \in formula : Better(Val(p), Val(solution.point)) => p \in sat
=============================================================================
