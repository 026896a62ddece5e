------------------------------ MODULE NonCore ------------------------------
(***************************************************************************)
(* Solver::optimise with the algorithms that are not core-guided           *)
(* (optimise_non_core): the maxima are minimised one after the other, each *)
(* by a search on its value with an incremental SAT solver.                *)
(*                                                                         *)
(* The solver's formula is the problem and, for every iteration reached,   *)
(* a fresh number y in unary (the soft variables) and the constraint that  *)
(* all but at most i objectives are <= y.  The model keeps the bounds the  *)
(* unit clauses put on each y, and a call of the solver returns any        *)
(* objective vector the formula allows, or any of the cores there can be.  *)
(***************************************************************************)
EXTENDS Iterations

CONSTANT Modes    \* the values of m_opt_mode
ASSUME ModesAssumption == Modes \subseteq {"bin", "lin_su", "lin_us"}

\* pc is also "encode" or "search"
VARIABLES
  mode,     \* m_opt_mode
  lb, ub,   \* bounds of the optimal value of the ith maximum (search)
  allUb,    \* encode_ub_sorted: bound on all the objectives
  cap,      \* unit clauses -y_p of iteration j: y <= cap[j]
  floor     \* unit clauses y_p of iteration j: y >= floor[j]

vars == <<feasible, status, best, mode, pc, i, lb, ub, allUb, cap, floor>>

Least(a, b) == IF a <= b THEN a ELSE b
Greatest(a, b) == IF a <= b THEN b ELSE a

(***************************************************************************)
(* The formula without assumptions, and under the assumptions y <= k of    *)
(* iteration i.  The y variables of the iterations still to come are not   *)
(* constrained: cap = Size, floor = 0.                                     *)
(***************************************************************************)
Allowed(v) ==
  /\ \A j \in Obj : v[j] <= allUb
  /\ \A j \in 0 .. i : AtMostAbove(v, j, cap[j]) /\ floor[j] <= cap[j]

AllowedUpTo(v, k) == Allowed(v) /\ AtMostAbove(v, i, k) /\ floor[i] <= k

Models(k) == {v \in feasible : AllowedUpTo(v, k)}

Init ==
  /\ SpecInit
  /\ mode \in Modes
  /\ pc = "start"
  /\ i = 0
  /\ lb = 0 /\ ub = 0
  /\ allUb = Size
  /\ cap = [j \in Obj |-> Size]
  /\ floor = [j \in Obj |-> 0]

(***************************************************************************)
(* The call of the SAT solver that decides whether there is a solution.    *)
(***************************************************************************)
CheckSat ==
  /\ pc = "start"
  /\ \/ Refute /\ pc' = "done"
     \/ Find /\ pc' = "encode"
  /\ UNCHANGED <<mode, i, lb, ub, allUb, cap, floor>>

(* A mutant: the lower bound of the previous maximum is kept. *)
Encode_staleLb ==
  /\ pc = "encode"
  /\ pc' = "search"
  /\ ub' = Maximum(best, i)
  /\ allUb' = IF i \in {0, 1} THEN Least(allUb, Maximum(best, 0)) ELSE allUb
  /\ cap' = [cap EXCEPT ![i] = Least(@, Maximum(best, i))]
  /\ UNCHANGED <<feasible, status, best, mode, i, lb, floor>>

(***************************************************************************)
(* Start of an iteration: generate_soft_clauses, encode_bounds,            *)
(* encode_relaxation, componentwise_OR, and the bounds of internal_solve.  *)
(***************************************************************************)
Encode ==
  /\ pc = "encode"
  /\ pc' = "search"
  /\ lb' = 0
  /\ ub' = Maximum(best, i)
  /\ allUb' = IF i \in {0, 1} THEN Least(allUb, Maximum(best, 0)) ELSE allUb
  /\ cap' = [cap EXCEPT ![i] = Least(@, Maximum(best, i))]
  /\ UNCHANGED <<feasible, status, best, mode, i, floor>>

(* A mutant: the floor of the middle becomes its ceiling.                  *)
Bound_ceiling == CASE mode = "bin" -> lb + (ub - lb + 1) \div 2
                   [] mode = "lin_su" -> ub - 1
                   [] mode = "lin_us" -> lb

(* The value tried next. *)
Bound == CASE mode = "bin" -> lb + (ub - lb) \div 2
           [] mode = "lin_su" -> ub - 1
           [] mode = "lin_us" -> lb

(***************************************************************************)
(* The formula has a model with y <= Bound.                                *)
(***************************************************************************)
SearchSat ==
  /\ pc = "search" /\ lb # ub
  /\ \E v \in Models(Bound) :
       /\ best' = BestOf(v, best)
       /\ ub' = Maximum(best', i)
       /\ cap' = [cap EXCEPT ![i] = Least(@, ub')]
  /\ UNCHANGED <<feasible, status, mode, pc, i, lb, allUb, floor>>

(***************************************************************************)
(* The assumptions are the first Size - Bound variables of y.  A core is   *)
(* told apart by the last position p of its variables: it says that no     *)
(* model has y <= Size - p - 1.  If the formula alone has no model the     *)
(* core may be empty.                                                      *)
(***************************************************************************)
EmptyCore == -1
Cores_oneMore == {p \in 0 .. Size - Bound : Models(Size - p - 1) = {}}
Cores ==
  {p \in 0 .. Size - Bound - 1 : Models(Size - p - 1) = {}}
  \cup {p \in {EmptyCore} : Models(Size) = {}}

(* The lower bound a core gives.                                           *)
CoreBound(p) == Size - p

(***************************************************************************)
(* The formula has no model with y <= Bound: update_lb.  A core of several *)
(* variables (the last one is then not at position 0) adds the new bound   *)
(* as a unit clause, and a bound that does not increase is an error.       *)
(***************************************************************************)
SearchUnsat ==
  /\ pc = "search" /\ lb # ub
  /\ Models(Bound) = {}
  /\ \E p \in Cores, several \in BOOLEAN :
       LET new == CoreBound(p) IN
       /\ several => p > 0
       /\ lb' = IF p = EmptyCore THEN lb ELSE new
       /\ pc' = IF p # EmptyCore /\ new <= lb THEN "exit" ELSE pc
       /\ floor' = IF several THEN [floor EXCEPT ![i] = Greatest(@, new)]
                    ELSE floor
  /\ UNCHANGED <<feasible, status, best, mode, i, ub, allUb, cap>>

(* A mutant: the search stops when the bounds are next to each other.      *)
FixMaximum_early ==
  /\ pc = "search" /\ ub <= lb + 1 /\ i < N-1
  /\ cap' = [cap EXCEPT ![i] = Least(@, Maximum(best, i))]
  /\ floor' = [floor EXCEPT ![i] = Greatest(@, Maximum(best, i))]
  /\ i' = i + 1
  /\ pc' = "encode"
  /\ UNCHANGED <<feasible, status, best, mode, lb, ub, allUb>>

(***************************************************************************)
(* The optimum of the maximum is known: fix_soft_vars and the next one, or *)
(* the end.                                                                *)
(***************************************************************************)
FixMaximum ==
  /\ pc = "search" /\ lb = ub /\ i < N-1
  /\ cap' = [cap EXCEPT ![i] = Least(@, Maximum(best, i))]
  /\ floor' = [floor EXCEPT ![i] = Greatest(@, Maximum(best, i))]
  /\ i' = i + 1
  /\ pc' = "encode"
  /\ UNCHANGED <<feasible, status, best, mode, lb, ub, allUb>>

Finish_unproved ==
  /\ pc = "search" /\ i = N-1
  /\ status' = "o"
  /\ pc' = "done"
  /\ UNCHANGED <<feasible, best, mode, i, lb, ub, allUb, cap, floor>>

Finish ==
  /\ pc = "search" /\ lb = ub /\ i = N-1
  /\ status' = "o"
  /\ pc' = "done"
  /\ UNCHANGED <<feasible, best, mode, i, lb, ub, allUb, cap, floor>>

Next == CheckSat \/ Encode \/ SearchSat \/ SearchUnsat \/ FixMaximum \/ Finish

Spec == Init /\ [][Next]_vars
FairSpec == Spec /\ WF_vars(Next)

-----------------------------------------------------------------------------
(* The types of the variables. *)
TypeOK ==
  /\ SpecTypeOK
  /\ mode \in Modes
  /\ pc \in {"start", "encode", "search", "done", "exit"}
  /\ i \in Obj
  /\ lb \in Value /\ ub \in Value
  /\ allUb \in Value
  /\ cap \in [Obj -> Value]
  /\ floor \in [Obj -> Value]

(***************************************************************************)
(* The clauses of earlier searches never exclude the solution held nor a   *)
(* better one: a bound left in the incremental solver by encode_ub_soft,   *)
(* update_lb or fix_soft_vars that is off by one does.                     *)
(***************************************************************************)
KeepsBetter ==
  pc \in {"encode", "search"} =>
    \A v \in feasible : v = best \/ Better(v, best) =>
      \A j \in 0 .. i-1 :
        /\ floor[j] <= Maximum(v, j)
        /\ Maximum(v, j) <= cap[j]

(***************************************************************************)
(* During a search the optimal value of the maximum lies between the       *)
(* bounds, the upper one is the value of the solution held, and the unit   *)
(* clauses agree with them.                                                *)
(***************************************************************************)
BoundsSound ==
  pc = "search" =>
    /\ lb <= ub /\ ub = Maximum(best, i) /\ Allowed(best)
    /\ \A v \in feasible : v = best \/ Better(v, best) =>
         Allowed(v) /\ lb <= Maximum(v, i)

(***************************************************************************)
(* When a maximum is fixed no solution improves on it: the maxima before i *)
(* are those of the leximax-optimal solutions.                             *)
(***************************************************************************)
PrefixOptimal ==
  pc \in {"encode", "search", "done"} =>
    \A v \in feasible, j \in 0 .. i-1 :
      SameMaxima(v, best, j) => Maximum(best, j) <= Maximum(v, j)

(***************************************************************************)
(* The verdicts are true: "o" is reported with a leximax-optimal solution  *)
(* and "u" only for a problem without solutions.                           *)
(***************************************************************************)
VerdictSound ==
  /\ status = "o" => Optimal(best, feasible)
  /\ status = "u" => feasible = {}

(***************************************************************************)
(* Every answer of the solver narrows the search: a model strictly         *)
(* improves the solution held and the upper bound, and a core strictly     *)
(* increases the lower bound, so that the error exit of update_lb is never *)
(* taken.                                                                  *)
(***************************************************************************)
Narrows ==
  [][pc = "search" /\ pc' = "search" =>
       \/ lb' = lb /\ ub' < ub /\ Better(best', best)
       \/ lb' > lb /\ ub' = ub /\ best' = best]_vars
NoErrorExit == pc # "exit"

(***************************************************************************)
(* The algorithm keeps the promise of LeximaxSpec.                         *)
(***************************************************************************)
Implements == AbstractSpec

(***************************************************************************)
(* If every call of the SAT solver returns, optimise returns.              *)
(***************************************************************************)
Terminates == <>(pc = "done")
=============================================================================
