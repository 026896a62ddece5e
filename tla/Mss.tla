-------------------------------- MODULE Mss --------------------------------
(***************************************************************************)
(* Solver::approximate with maximal satisfiable subsets (mss_enumerate):   *)
(* a linear search collects objective variables (inputs) that can be false *)
(* together, a blocking clause then makes one of them true, and the next   *)
(* search begins.  A search stops as soon as some objective cannot get     *)
(* below the largest value of the solution held.                           *)
(*                                                                         *)
(* The order of the variables in the lists of the code is left open.       *)
(***************************************************************************)
EXTENDS ObjectiveInputs

CONSTANT MssOptions    \* values of m_mss_incr, _add_cls, _tolerance and _nb_limit

ASSUME MssOptionsAssumption ==
  MssOptions \subseteq [incr : BOOLEAN, add_cls : 0 .. 2, tolerance : 0 .. 100, nb_limit : Nat]

\* pc is "start", "enumerate", "search", or the end: "complete" or "stopped"
VARIABLES
  options,   \* the options of the enumeration
  blocked,   \* the satisfiable subsets found: each gave a blocking clause
  mss,       \* the subset in construction: inputs required to be false
  todo       \* the inputs not tried yet (todo_vec)

mss_vars == <<models, status, best, options, pc, blocked, mss, todo>>

Least(S) == CHOOSE a \in S : \A b \in S : a <= b
Largest(v) == Most({v[j] : j \in Obj})

(* best_max follows m_solution: set_solution returns its vector.           *)
best_max == Largest(best)

Hold(m) == best' = IF best = NoVector THEN Values(m) ELSE BestOf(Values(m), best)

Unblocked_none == models   \* a mutant: a new solver gets no blocking clauses
Unblocked == {m \in models : \A B \in blocked : m \cap B # {}}
Satisfying(S) == {m \in Unblocked : m \cap S = {}}

MssInit ==
  /\ models \in Problems
  /\ status = "?" /\ best = NoVector
  /\ options \in MssOptions
  /\ pc = "start"
  /\ blocked = {} /\ mss = {} /\ todo = {}

(* The call of the SAT solver that decides whether there is a solution.    *)
MssCheckSat ==
  /\ pc = "start"
  /\ \/ /\ models = {}
        /\ status' = "u" /\ pc' = "complete" /\ UNCHANGED best
     \/ /\ status' = "s" /\ pc' = "enumerate"
        /\ \E m \in models : Hold(m)
  /\ UNCHANGED <<models, options, blocked, mss, todo>>

(***************************************************************************)
(* mss_add_falsified: besides S, which inputs of T that are false in the   *)
(* model enter the subset.  With add_cls = 1 the upper bounds come down to *)
(* the largest of those that adding all of them would give.                *)
(***************************************************************************)
Upper(S, j) == Cardinality(Of(Inputs, j)) - Cardinality(Of(S, j))
Falsified(m, S, T) ==
  LET all == T \ m
      even == Most({Upper(S \cup all, j) : j \in Obj})
  IN CASE options.add_cls = 0 -> {all}
       [] options.add_cls = 1 ->
            {A \in SUBSET all : \A j \in Obj :
               Cardinality(Of(A, j)) = Most({0, Upper(S, j) - even})}
       [] options.add_cls = 2 -> {{}}

Add(m, S, T) ==
  \E A \in Falsified(m, S, T) : mss' = S \cup A /\ todo' = T \ A

(***************************************************************************)
(* mss_choose_obj: -1 if the bound of some objective, were all its untried *)
(* inputs false, would still be no less than best_max; else the objective  *)
(* with the largest bound, or, if the bounds are close to each other, the  *)
(* first with untried inputs.                                              *)
(***************************************************************************)
CannotImprove_early ==   \* a mutant
  \E j \in Obj : Upper(mss, j) - Cardinality(Of(todo, j)) >= best_max - 1
CannotImprove_all ==   \* a mutant: every objective must be stuck
  \A j \in Obj : Upper(mss, j) - Cardinality(Of(todo, j)) >= best_max
CannotImprove == \E j \in Obj : Upper(mss, j) - Cardinality(Of(todo, j)) >= best_max

ChosenObj ==
  LET bounds == {Upper(mss, j) : j \in Obj}
      most == Most(bounds)
      open == {j \in Obj : Of(todo, j) # {}}
  IN CASE CannotImprove -> -1
       [] ~ CannotImprove /\ ((most - Least(bounds)) * 100) \div most >= options.tolerance ->
            Least({j \in Obj : Upper(mss, j) = most})
       [] OTHER -> IF open = {} THEN -1 ELSE Least(open)

(***************************************************************************)
(* The first call of a search.  The enumeration ends if it has no model,   *)
(* if it is interrupted (timeout), or at the limit on the number of MSSes. *)
(***************************************************************************)
Start ==
  /\ pc = "enumerate"
  /\ options.nb_limit = 0 \/ Cardinality(blocked) < options.nb_limit
  /\ \E m \in Unblocked : Hold(m) /\ Add(m, {}, Inputs)
  /\ pc' = "search"
  /\ UNCHANGED <<models, status, options, blocked>>

Complete ==
  /\ pc = "enumerate" /\ Unblocked = {}
  /\ options.nb_limit = 0 \/ Cardinality(blocked) < options.nb_limit
  /\ pc' = "complete"
  /\ UNCHANGED <<models, status, best, options, blocked, mss, todo>>

Limit ==
  /\ pc = "enumerate"
  /\ options.nb_limit > 0 /\ Cardinality(blocked) >= options.nb_limit
  /\ pc' = "stopped"
  /\ UNCHANGED <<models, status, best, options, blocked, mss, todo>>

Interrupt ==
  /\ pc \in {"enumerate", "search"}
  /\ pc = "enumerate" =>
       options.nb_limit = 0 \/ Cardinality(blocked) < options.nb_limit
  /\ pc = "search" => ChosenObj # -1
  /\ pc' = "stopped"
  /\ UNCHANGED <<models, status, best, options, blocked, mss, todo>>

(***************************************************************************)
(* An input of the chosen objective is tried: it enters the subset, or it  *)
(* is true in every model of the others in the subset.                     *)
(***************************************************************************)
TestSat ==
  /\ pc = "search" /\ ChosenObj # -1
  /\ \E x \in Of(todo, ChosenObj) :
       \E m \in Satisfying(mss \cup {x}) : Hold(m) /\ Add(m, mss \cup {x}, todo \ {x})
  /\ UNCHANGED <<models, status, options, pc, blocked>>

TestUnsat ==
  /\ pc = "search" /\ ChosenObj # -1
  /\ \E x \in Of(todo, ChosenObj) :
       Satisfying(mss \cup {x}) = {} /\ todo' = todo \ {x}
  /\ UNCHANGED <<models, status, best, options, pc, blocked, mss>>

(***************************************************************************)
(* The search has stopped.  With m_mss_incr the blocking clause is added   *)
(* by add_hard_clause, which resets the status.                            *)
(***************************************************************************)
Block ==
  /\ pc = "search" /\ ChosenObj = -1
  /\ IF mss = {} THEN pc' = "complete" /\ UNCHANGED <<status, blocked>>
     ELSE /\ blocked' = blocked \cup {mss}
          /\ status' = IF options.incr THEN "?" ELSE status
          /\ pc' = "enumerate"
  /\ mss' = {} /\ todo' = {}
  /\ UNCHANGED <<models, best, options>>

MssNext ==
  \/ MssCheckSat
  \/ Start \/ Complete \/ Limit \/ Interrupt
  \/ TestSat \/ TestUnsat \/ Block

(* Every call of the SAT solver returns.                                   *)
MssSpec == MssInit /\ [][MssNext]_mss_vars
MssFairSpec == MssSpec /\ WF_mss_vars(MssNext)

-----------------------------------------------------------------------------
(***************************************************************************)
(* mss_choose_obj takes no input from an empty list (todo.at(0) throws)    *)
(* and divides by no zero: the largest bound has untried inputs, for else  *)
(* it could not get below the largest value of the solution held.          *)
(***************************************************************************)
ChoiceValid ==
  pc = "search" /\ ~ CannotImprove =>
    /\ \E j \in Obj : Upper(mss, j) > 0
    /\ ChosenObj # -1 => Of(todo, ChosenObj) # {}

(***************************************************************************)
(* A search that stops early loses nothing: no solution that is blocked    *)
(* has a smaller largest value than the one held.  So if the enumeration   *)
(* is complete, the largest value of the solution held is the least.       *)
(***************************************************************************)
FirstMaximumKept ==
  pc # "start" /\ models # {} =>
    \A m \in models :
      pc = "complete" \/ m \notin Unblocked => best_max <= Largest(Values(m))

(***************************************************************************)
(* If every call of the SAT solver returns, the enumeration ends: no       *)
(* subset is found again.                                                  *)
(***************************************************************************)
MssTerminates == <>(pc \in {"complete", "stopped"})
=============================================================================
