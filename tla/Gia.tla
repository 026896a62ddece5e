-------------------------------- MODULE Gia --------------------------------
(***************************************************************************)
(* Solver::approximate with the Guided Improvement Algorithm: gia and      *)
(* pareto_search.  pareto_search decreases one maximum after the other     *)
(* while no other objective may grow; gia then asks whether the maximum at *)
(* max_index can be decreased when the smaller objectives may grow.        *)
(*                                                                         *)
(* A SAT solver is modelled by the objective vectors that the clauses      *)
(* added to it still allow: "main" for m_sat_solver, "local" for the       *)
(* solver of the current pareto_search, which is m_sat_solver itself if    *)
(* m_gia_incr is set.  A call may also be interrupted by the timeout.      *)
(***************************************************************************)
EXTENDS LeximaxSpec

VARIABLES
  incr,        \* m_gia_incr
  pareto,      \* m_gia_pareto
  pc,          \* "start", "top", "pareto", "check" or "done"
  max_index,   \* the maxima before it are taken to be minimal
  local_index, \* max_index_local of pareto_search
  skip,        \* the solution held is the result of a pareto_search
  main,        \* the vectors m_sat_solver allows
  local        \* the vectors the solver of pareto_search allows, while it runs

gvars == <<feasible, status, best, incr, pareto, pc, max_index, local_index,
           skip, main, local>>

AtMost(F, k) == {w \in F : \A j \in Obj : w[j] <= k}

(***************************************************************************)
(* The first m objectives, in the order of their indices, whose value is   *)
(* not smaller than the m largest: those fix_previous_max fixes.           *)
(***************************************************************************)
Reaches(m) == {j \in Obj : m > 0 /\ best[j] >= Maximum(best, m-1)}
Fixed(m) == {j \in Reaches(m) : Cardinality({k \in Reaches(m) : k < j}) < m}

(***************************************************************************)
(* The clauses of fix_previous_max, decrease_max and bound_objs.           *)
(***************************************************************************)
FixPrevious(w, m) == \A j \in Fixed(m) : w[j] = best[j]

(* A mutant: a literal of a sorted vector is taken one position off.       *)
Decrease_le(w, m) == \A j \in Obj \ Fixed(m) : w[j] <= Maximum(best, m)

Decrease(w, m) == \A j \in Obj \ Fixed(m) : w[j] < Maximum(best, m)
BoundObjs(w, m) == \A j \in Obj : best[j] < Maximum(best, m) => w[j] <= best[j]

Init ==
  /\ SpecInit
  /\ incr \in BOOLEAN /\ pareto \in BOOLEAN
  /\ pc = "start"
  /\ max_index = 0 /\ local_index = 0
  /\ skip = FALSE
  /\ main = feasible /\ local = {}

(***************************************************************************)
(* approximate: the first call of the solver, and encode_bounds(0, 0).     *)
(***************************************************************************)
Start ==
  /\ pc = "start"
  /\ \/ Refute /\ pc' = "done" /\ UNCHANGED main
     \/ Find /\ pc' = "top" /\ main' = AtMost(main, Maximum(best', 0))
  /\ UNCHANGED <<incr, pareto, max_index, local_index, skip, local>>

(***************************************************************************)
(* The loop of gia begins with a new solver, unless incremental, and       *)
(* calls pareto_search.                                                    *)
(***************************************************************************)
Top ==
  /\ pc = "top"
  /\ pc' = IF skip THEN "check" ELSE "pareto"
  /\ local' = main
  /\ local_index' = max_index
  /\ UNCHANGED <<feasible, status, best, incr, pareto, max_index, skip, main>>

(***************************************************************************)
(* One iteration of pareto_search.  Added are the clauses that become part *)
(* of a solver that is not kept; the models are those of all the clauses.  *)
(***************************************************************************)
Level == Maximum(best, local_index)
Added_decrease ==   \* a mutant: the decrease is never an assumption
  {w \in local : incr \/ /\ FixPrevious(w, local_index)
                         /\ BoundObjs(w, local_index)
                         /\ Decrease(w, local_index)}
Added ==
  {w \in local : incr \/ /\ FixPrevious(w, local_index)
                         /\ BoundObjs(w, local_index)
                         /\ pareto \/ Decrease(w, local_index)}
ParetoModels ==
  {w \in local : /\ FixPrevious(w, local_index)
                 /\ BoundObjs(w, local_index)
                 /\ Decrease(w, local_index)}

ParetoZero ==
  /\ pc = "pareto" /\ Level = 0
  /\ pc' = "check"
  /\ local' = {}
  /\ UNCHANGED <<feasible, status, best, incr, pareto, max_index, local_index,
                 skip, main>>

ParetoSat ==
  /\ pc = "pareto" /\ Level > 0
  /\ \E w \in ParetoModels : best' = BestOf(w, best)
  /\ local' = Added
  /\ UNCHANGED <<feasible, status, incr, pareto, pc, max_index, local_index,
                 skip, main>>

(* Mutants: the shortcut on neighbouring values is taken for values that   *)
(* differ by 2, or while another maximum is the one decreased.             *)
ParetoUnsat_wide ==
  /\ pc = "pareto" /\ Level > 0 /\ ParetoModels = {}
  /\ max_index' = IF /\ max_index = local_index
                     /\ Level - Maximum(best, N-1) <= 2
                  THEN max_index + 1 ELSE max_index
  /\ local_index' = IF pareto THEN local_index + 1 ELSE local_index
  /\ pc' = IF pareto /\ local_index' < N THEN "pareto" ELSE "check"
  /\ local' = IF pc' = "pareto" THEN Added ELSE {}
  /\ UNCHANGED <<feasible, status, best, incr, pareto, skip, main>>

ParetoUnsat_anyIndex ==
  /\ pc = "pareto" /\ Level > 0 /\ ParetoModels = {}
  /\ max_index' = IF Level - Maximum(best, N-1) <= 1
                  THEN max_index + 1 ELSE max_index
  /\ local_index' = IF pareto THEN local_index + 1 ELSE local_index
  /\ pc' = IF pareto /\ local_index' < N THEN "pareto" ELSE "check"
  /\ local' = IF pc' = "pareto" THEN Added ELSE {}
  /\ UNCHANGED <<feasible, status, best, incr, pareto, skip, main>>

ParetoUnsat ==
  /\ pc = "pareto" /\ Level > 0 /\ ParetoModels = {}
  /\ max_index' = IF /\ max_index = local_index
                     /\ Level - Maximum(best, N-1) <= 1
                  THEN max_index + 1 ELSE max_index
  /\ local_index' = IF pareto THEN local_index + 1 ELSE local_index
  /\ pc' = IF pareto /\ local_index' < N THEN "pareto" ELSE "check"
  /\ local' = IF pc' = "pareto" THEN Added ELSE {}
  /\ UNCHANGED <<feasible, status, best, incr, pareto, skip, main>>

(***************************************************************************)
(* The check of gia: nothing is left to improve, or m_sat_solver is asked  *)
(* for a solution with a smaller maximum at max_index.                     *)
(***************************************************************************)
Exhausted ==
  \/ max_index = N
  \/ max_index = N-1 /\ skip
  \/ Maximum(best, max_index) = 0

(* encode_ub_sorted, while the first maximum is not known to be minimal.   *)
Capped == IF max_index = 0 THEN AtMost(main, Maximum(best, 0)) ELSE main
CheckModels ==
  {w \in Capped : FixPrevious(w, max_index) /\ Decrease(w, max_index)}

Stop_claimsOptimal ==   \* a mutant
  /\ pc = "check" /\ Exhausted
  /\ pc' = "done"
  /\ status' = "o"
  /\ UNCHANGED <<feasible, best, incr, pareto, max_index, local_index,
                 skip, main, local>>

Stop ==
  /\ pc = "check" /\ Exhausted
  /\ pc' = "done"
  /\ UNCHANGED <<feasible, status, best, incr, pareto, max_index, local_index,
                 skip, main, local>>

CheckSat ==
  /\ pc = "check" /\ ~ Exhausted
  /\ \E w \in CheckModels : best' = BestOf(w, best)
  /\ main' = Capped
  /\ skip' = FALSE
  /\ pc' = "top"
  /\ UNCHANGED <<feasible, status, incr, pareto, max_index, local_index, local>>

CheckUnsat ==
  /\ pc = "check" /\ ~ Exhausted /\ CheckModels = {}
  /\ main' = Capped
  /\ skip' = pareto
  /\ max_index' = max_index + 1
  /\ pc' = IF max_index' = N THEN "done" ELSE "top"
  /\ UNCHANGED <<feasible, status, best, incr, pareto, local_index, local>>

(***************************************************************************)
(* The timeout stops a call of the solver: gia returns.                    *)
(***************************************************************************)
Interrupt ==
  /\ \/ pc = "pareto" /\ Level > 0
     \/ pc = "check" /\ ~ Exhausted
  /\ pc' = "done"
  /\ UNCHANGED <<feasible, status, best, incr, pareto, max_index, local_index,
                 skip, main, local>>

Advance ==
  \/ Start \/ Top
  \/ ParetoZero \/ ParetoSat \/ ParetoUnsat
  \/ Stop \/ CheckSat \/ CheckUnsat

Next == Advance \/ Interrupt

(***************************************************************************)
(* Every call of the SAT solver returns; the timeout need not strike.      *)
(***************************************************************************)
Spec == Init /\ [][Next]_gvars
FairSpec == Spec /\ WF_gvars(Advance)

-----------------------------------------------------------------------------
(* u is nowhere larger than v, and somewhere smaller. *)
Dominates(u, v) == u # v /\ \A j \in Obj : u[j] <= v[j]
ParetoOptimal(v) == v \in feasible /\ \A u \in feasible : ~ Dominates(u, v)

(***************************************************************************)
(* Once max_index has left the first maximum, that maximum is minimal,     *)
(* whatever was interrupted: encode_ub_sorted, the clauses left in a       *)
(* solver by earlier steps of pareto_search and its shortcut on            *)
(* neighbouring values do not make an improvement look impossible.         *)
(***************************************************************************)
FirstMaximumMinimal ==
  max_index > 0 => \A v \in feasible : Maximum(best, 0) <= Maximum(v, 0)

(* A solution decreases maximum m while the objectives fixed keep    *)
(* their values.                                                           *)
Decreasable(m) == \E v \in feasible : FixPrevious(v, m) /\ Decrease(v, m)

(***************************************************************************)
(* max_index moves on only if no solution of the problem decreases that    *)
(* maximum while the objectives fixed keep their values.  This is also so  *)
(* where pareto_search moves it without the call of gia.                   *)
(***************************************************************************)
IndexJustified ==
  [][max_index' # max_index => ~ Decreasable(max_index)]_gvars

(***************************************************************************)
(* With m_gia_pareto a completed pareto_search leaves a Pareto-optimal     *)
(* solution, if no two of its objectives have the same positive value: the *)
(* clauses it leaves in its solver rule out no solution that dominates.    *)
(***************************************************************************)
ParetoIfDistinct ==
  pc = "check" /\ pareto
  /\ (\A j, k \in Obj : j # k /\ best[j] > 0 => best[j] # best[k])
    => ParetoOptimal(best)

(***************************************************************************)
(* What pareto_search notes where it has tried all the maxima, whatever    *)
(* the values: "Pareto-optimal solution has been found".  It fixes, of     *)
(* objectives of one value, only those with the smallest indices, and so   *)
(* never tries to decrease these while the others stay as they are.        *)
(***************************************************************************)
ParetoSearchFindsPareto ==
  pc = "check" /\ local_index = N => ParetoOptimal(best)

(***************************************************************************)
(* The solution held only gets better, and it is a solution.               *)
(***************************************************************************)
Implements == AbstractSpec

(***************************************************************************)
(* gia returns without the help of the timeout: the loops of gia and       *)
(* pareto_search have no condition of their own.                           *)
(***************************************************************************)
Terminates == <>(pc = "done")
=============================================================================
