----------------------------- MODULE CoreGuided -----------------------------
(***************************************************************************)
(* Solver::optimise with the core-guided algorithms (disjoint_cores and    *)
(* optimise_core_guided): the maxima get lower bounds, and the SAT solver  *)
(* is asked for a model in which the first i+1 maxima are equal to theirs. *)
(* Only the objective variables (inputs) that have been in a core enter    *)
(* the sorting networks; the others are assumed to be false.               *)
(*                                                                         *)
(* A sorting network is the set of inputs it sorts: its outputs are their  *)
(* number in unary.  The max variables of maximum n are bounded below by   *)
(* the outputs of all but at most n networks.                              *)
(***************************************************************************)
EXTENDS ObjectiveInputs

CONSTANT Configs    \* pairs of m_opt_mode and m_disjoint_cores

ModeNames ==
  {"core_static", "core_merge", "core_rebuild", "core_rebuild_incr", "core-merge"}
ASSUME ConfigsAssumption == Configs \subseteq ModeNames \X BOOLEAN

\* pc is "start", "disjoint", "solve", "inner", "finish", "done" or "exit"
VARIABLES
  config,    \* the mode, and whether disjoint cores are sought
  i,         \* the objective in disjoint_cores, then the maximum minimised
  lb,        \* lower_bounds
  lb_map,    \* bounds on the sums of the objectives in a set of them
  unsorted,  \* inputs_not_sorted
  units,     \* unit_core_vars
  sorted,    \* the inputs in the sorting networks
  copies     \* how often unit_core_vars were appended to each sorted vector

vars == <<models, status, best, config, pc, i, lb, lb_map, unsorted, units,
          sorted, copies>>

mode == config[1]
disjoint == config[2]

Promise == INSTANCE LeximaxSpec
             WITH Formulas <- {{Values(m) : m \in P} : P \in Problems}

(***************************************************************************)
(* The size of the largest sorted vector, the number of max variables, and *)
(* the values of the outputs of the networks in a model.                   *)
(***************************************************************************)
Wires(j) == Cardinality(Of(sorted, j)) + copies[j] * Cardinality(Of(units, j))
Width == CHOOSE w \in {Wires(j) : j \in Obj} : \A j \in Obj : Wires(j) <= w
Outputs(m) ==
  [j \in Obj |-> Cardinality(Of(m \cap sorted, j))
                 + copies[j] * Cardinality(Of(m \cap units, j))]

(***************************************************************************)
(* gen_assumps: the first Width - lb[n] of the variables of maximum n are  *)
(* assumed false.  The subtraction is unsigned: were it negative, all of   *)
(* them would be.                                                          *)
(***************************************************************************)
Cap(n) == IF lb[n] > Width THEN 0 ELSE lb[n]
PrefixCapped(m) == \A n \in 0 .. i-1 : AtMostAbove(Outputs(m), n, Cap(n))

(* Models in which the inputs in C are false.                              *)
Without(C) == {m \in models : m \cap C = {}}
CoreGuidedModels ==
  {m \in Without(unsorted) : PrefixCapped(m) /\ AtMostAbove(Outputs(m), i, Cap(i))}

Init ==
  /\ models \in Problems
  /\ status = "?" /\ best = NoVector
  /\ config \in Configs
  /\ pc = "start"
  /\ i = 0
  /\ lb = [j \in Obj |-> 0]
  /\ lb_map = [S \in (SUBSET Obj) \ {{}} |-> 0]
  /\ unsorted = Inputs /\ units = {}
  /\ sorted = IF mode = "core_static" THEN Inputs ELSE {}
  /\ copies = [j \in Obj |-> 1]

(***************************************************************************)
(* The call of the SAT solver that decides whether there is a solution.    *)
(***************************************************************************)
CheckSat ==
  /\ pc = "start"
  /\ \/ /\ models = {}
        /\ status' = "u" /\ pc' = "done" /\ UNCHANGED best
     \/ /\ status' = "s" /\ best' \in feasible
        /\ pc' = IF disjoint /\ mode # "core_static" THEN "disjoint" ELSE "solve"
  /\ UNCHANGED <<models, config, i, lb, lb_map, unsorted, units, sorted, copies>>

(***************************************************************************)
(* change_lb_map: a core C of inputs only says that one more of the inputs *)
(* of the objectives it meets is true.                                     *)
(***************************************************************************)
AddCore_each(C) ==   \* a mutant: the core counts for each objective it meets
  [lb_map EXCEPT ![{Owner[x] : x \in C}] = @ + 1,
                 ![{CHOOSE j \in {Owner[x] : x \in C} : TRUE}] = @ + 1]
AddCore(C) == [lb_map EXCEPT ![{Owner[x] : x \in C}] = @ + 1]

(***************************************************************************)
(* The bounds are then recomputed for the maximum m: from the bounds of    *)
(* single objectives, from that of the sum of all, and, if m < 2, from     *)
(* those of the other sets of objectives.                                  *)
(***************************************************************************)
Quotient(a, b) == IF a < 0 THEN -((-a) \div b) ELSE a \div b   \* as in C++
RoundUp(a, b, c) == Quotient(a, b) + IF a % c = 0 THEN 0 ELSE 1

Raised(map) ==
  [j \in Obj |-> Most({lb[j], Maximum([k \in Obj |-> map[{k}]], j)})]
(* The sum of the bounds of the maxima before m.                           *)
SumBefore(bounds, m) ==
  Cardinality({p \in (0 .. m-1) \X (1 .. Size) : p[2] <= bounds[p[1]]})
FromAll(m, map) == RoundUp(map[Obj] - SumBefore(Raised(map), m), N - m, N)
FromSome(m, map, S) ==
  LET out == RoundUp(map[S], Cardinality(S), Cardinality(S))
      rest == map[S] - Raised(map)[0]
      k == rest \div (Cardinality(S) - 1)
      in == IF rest <= 0 THEN rest ELSE RoundUp(k, 1, Cardinality(S) - 1)
  IN IF m = 0 \/ out < in THEN out ELSE in
LowerBounds(m, map) ==
  LET others == {S \in SUBSET Obj : m < 2 /\ Cardinality(S) \in 2 .. N-1}
  IN [Raised(map) EXCEPT ![m] = Most({@, FromAll(m, map)}
                                     \cup {FromSome(m, map, S) : S \in others})]

(***************************************************************************)
(* disjoint_cores: the cores of the inputs of each objective, and then of  *)
(* all the inputs.  One call of the solver is a step.                      *)
(***************************************************************************)
Assumed == IF i < N THEN Of(unsorted, i) ELSE unsorted

DisjointSat ==
  /\ pc = "disjoint" /\ i < N
  /\ \E m \in Without(Assumed) : best' = BestOf(Values(m), best)
  /\ i' = i + 1
  /\ UNCHANGED <<models, status, config, pc, lb, lb_map, unsorted, units, sorted,
                 copies>>

DisjointUnsat ==
  /\ pc = "disjoint"
  /\ \E C \in SUBSET Assumed :
       /\ Without(C) = {}
       /\ lb_map' = AddCore(C)
       /\ unsorted' = unsorted \ C
       /\ units' = IF Cardinality(C) = 1 THEN units \cup C ELSE units
  /\ lb' = LowerBounds(0, lb_map')
  /\ UNCHANGED <<models, status, best, config, pc, i, sorted, copies>>

(* A mutant: the unit_core_vars are left out.                              *)
DisjointEnd_noUnits ==
  /\ pc = "disjoint" /\ i = N
  /\ \E m \in Without(Assumed) : best' = BestOf(Values(m), best)
  /\ i' = 0
  /\ pc' = IF unsorted = Inputs THEN "finish" ELSE "solve"
  /\ sorted' = Inputs \ (unsorted \cup units)
  /\ copies' = [j \in Obj |-> 0]
  /\ UNCHANGED <<models, status, config, lb, lb_map, unsorted, units>>

(***************************************************************************)
(* The last call has a model: the networks are built, or there was no core *)
(* at all and the model makes every input false.                           *)
(***************************************************************************)
DisjointEnd ==
  /\ pc = "disjoint" /\ i = N
  /\ \E m \in Without(Assumed) : best' = BestOf(Values(m), best)
  /\ i' = 0
  /\ pc' = IF unsorted = Inputs THEN "finish" ELSE "solve"
  /\ sorted' = Inputs \ (unsorted \cup units)
  /\ UNCHANGED <<models, status, config, lb, lb_map, unsorted, units, copies>>

(* A mutant: core_rebuild_incr does not append unit_core_vars again.       *)
Networks_noUnits(left) ==
  /\ sorted' = IF mode \in {"core_merge", "core_rebuild", "core_rebuild_incr"}
               THEN Inputs \ (left \cup units) ELSE sorted
  /\ copies' = IF mode = "core_rebuild_incr"
               THEN [j \in Obj |-> IF Of(sorted', j) = Of(sorted, j)
                                   THEN copies[j] ELSE 0]
               ELSE copies

(***************************************************************************)
(* The inputs of the new cores enter the networks.  core_rebuild builds    *)
(* all of them anew and then appends unit_core_vars; a network without     *)
(* inputs is not built, and its vector keeps the outputs it has.           *)
(***************************************************************************)
Networks(left) ==
  /\ sorted' = IF mode \in {"core_merge", "core_rebuild", "core_rebuild_incr"}
               THEN Inputs \ (left \cup units) ELSE sorted
  /\ copies' = IF mode = "core_rebuild"
               THEN [j \in Obj |-> IF Of(sorted', j) = {} /\ Of(units, j) # {}
                                   THEN copies[j] + 1 ELSE 1]
               ELSE copies

(* Mutants: the new model always replaces the one held; the inner loop is  *)
(* not followed by another call.                                           *)
SolveSat_replaces ==
  /\ pc = "solve"
  /\ \E m \in CoreGuidedModels : best' = Values(m)
  /\ IF i = N-1 THEN pc' = "finish" /\ UNCHANGED i
                ELSE i' = i + 1 /\ UNCHANGED pc
  /\ UNCHANGED <<models, status, config, lb, lb_map, unsorted, units, sorted, copies>>

InnerSat_nextMaximum ==
  /\ pc = "inner"
  /\ \E m \in CoreGuidedModels : best' = BestOf(Values(m), best)
  /\ pc' = "solve"
  /\ i' = IF i < N-1 THEN i + 1 ELSE i
  /\ Networks(unsorted)
  /\ UNCHANGED <<models, status, config, lb, lb_map, unsorted, units>>

(***************************************************************************)
(* The loop of maximum i has a model: the next maximum, or the end.  In    *)
(* the inner loop, which looks for more cores, it ends that loop.          *)
(***************************************************************************)
SolveSat ==
  /\ pc = "solve"
  /\ \E m \in CoreGuidedModels : best' = BestOf(Values(m), best)
  /\ IF i = N-1 THEN pc' = "finish" /\ UNCHANGED i
                ELSE i' = i + 1 /\ UNCHANGED pc
  /\ UNCHANGED <<models, status, config, lb, lb_map, unsorted, units, sorted, copies>>

InnerSat ==
  /\ pc = "inner"
  /\ \E m \in CoreGuidedModels : best' = BestOf(Values(m), best)
  /\ pc' = "solve"
  /\ Networks(unsorted)
  /\ UNCHANGED <<models, status, config, i, lb, lb_map, unsorted, units>>

(***************************************************************************)
(* A core has the inputs C, of the variables of maximum i those up to the  *)
(* one that means "at most k" (none if k = Width), and maybe variables of  *)
(* the maxima before, unless these are fixed by clauses (fix_max).         *)
(***************************************************************************)
IsCore(C, k, before) ==
  ~ \E m \in Without(C) : /\ AtMostAbove(Outputs(m), i, k)
                          /\ before \/ mode = "core_static" => PrefixCapped(m)

HasMaxVar(k, before) == k < Width \/ before

(* A mutant: the bound becomes k, not k + 1.                               *)
IncreaseLb_same ==
  /\ pc \in {"solve", "inner"} /\ CoreGuidedModels = {}
  /\ \E k \in Cap(i) .. Width, before \in BOOLEAN :
       /\ before => i > 0 /\ mode # "core_static"
       /\ IsCore({}, k, before)
       /\ IF k = Width THEN pc' = "exit" /\ UNCHANGED lb
          ELSE lb' = [lb EXCEPT ![i] = k] /\ UNCHANGED pc
  /\ UNCHANGED <<models, status, best, config, i, lb_map, unsorted, units, sorted,
                 copies>>

(* find_vars_in_core finds no input: increase_lb.                          *)
IncreaseLb ==
  /\ pc \in {"solve", "inner"} /\ CoreGuidedModels = {}
  /\ \E k \in Cap(i) .. Width, before \in BOOLEAN :
       /\ before => i > 0 /\ mode # "core_static"
       /\ IsCore({}, k, before)
       /\ IF k = Width THEN pc' = "exit" /\ UNCHANGED lb
          ELSE lb' = [lb EXCEPT ![i] = k + 1] /\ UNCHANGED pc
  /\ UNCHANGED <<models, status, best, config, i, lb_map, unsorted, units, sorted,
                 copies>>

(* The inputs of the core are no longer assumed false.                     *)
NewInputs ==
  /\ pc \in {"solve", "inner"} /\ CoreGuidedModels = {}
  /\ \E C \in (SUBSET unsorted) \ {{}}, k \in Cap(i) .. Width, before \in BOOLEAN :
       /\ before => i > 0 /\ mode # "core_static"
       /\ IsCore(C, k, before)
       /\ lb_map' = IF HasMaxVar(k, before) THEN lb_map ELSE AddCore(C)
       /\ lb' = IF HasMaxVar(k, before) THEN lb ELSE LowerBounds(i, lb_map')
       /\ unsorted' = unsorted \ C
  /\ IF disjoint THEN pc' = "inner" /\ UNCHANGED <<sorted, copies>>
     ELSE Networks(unsorted') /\ UNCHANGED pc
  /\ UNCHANGED <<models, status, best, config, i, units>>

(* optimise_core_guided has returned to optimise.                          *)
Finish ==
  /\ pc = "finish"
  /\ status' = "o" /\ pc' = "done"
  /\ UNCHANGED <<models, best, config, i, lb, lb_map, unsorted, units, sorted,
                 copies>>

Next ==
  \/ CheckSat
  \/ DisjointSat \/ DisjointUnsat \/ DisjointEnd
  \/ SolveSat \/ InnerSat \/ IncreaseLb \/ NewInputs \/ Finish

(***************************************************************************)
(* Every call of the SAT solver returns.                                   *)
(***************************************************************************)
Spec == Init /\ [][Next]_vars
FairSpec == Spec /\ WF_vars(Next)

-----------------------------------------------------------------------------
(* The types of the variables. *)
TypeOK ==
  /\ models \subseteq SUBSET Inputs /\ config \in Configs
  /\ status \in {"?", "s", "u", "o"} /\ best \in Vector \cup {NoVector}
  /\ pc \in {"start", "disjoint", "solve", "inner", "finish", "done", "exit"}
  /\ i \in 0 .. N
  /\ lb \in [Obj -> Value]
  /\ lb_map \in [(SUBSET Obj) \ {{}} -> 0 .. Cardinality(Inputs)]
  /\ unsorted \subseteq Inputs /\ units \subseteq Inputs \ unsorted
  /\ sorted \subseteq Inputs \ units
  /\ copies \in [Obj -> Nat]

(***************************************************************************)
(* The bounds hold of every solution that is as good as the one held: a    *)
(* core counted twice in lb_map, or a bound for one maximum derived from a *)
(* core that another one needs, breaks this.                               *)
(***************************************************************************)
LowerBoundsSound ==
  \A v \in feasible : Optimal(v, feasible) => \A j \in Obj : lb[j] <= Maximum(v, j)

(***************************************************************************)
(* While cores are sought every input is either counted by a network, or   *)
(* assumed false, or true in all models, or it waits for the end of the    *)
(* inner loop; the networks count what the objectives count.               *)
(***************************************************************************)
NoInputLost ==
  pc = "solve" =>
    /\ Inputs = sorted \cup unsorted \cup units
    /\ \A m \in Without(unsorted) : Outputs(m) = Values(m)

(***************************************************************************)
(* The bound of a maximum in the assumptions is at most the number of its  *)
(* max variables, or the unsigned subtraction of gen_assumps wraps.        *)
(***************************************************************************)
BoundsFit == pc \in {"solve", "inner"} => \A n \in 0 .. i : lb[n] <= Width

(***************************************************************************)
(* From the second maximum on there always is a model in which the earlier *)
(* maxima have their bounds and all unsorted inputs are false.  Hence      *)
(* every core has a variable of the maximum being minimised: change_lb_map *)
(* does nothing, and increase_lb does not exit with an error.              *)
(***************************************************************************)
PrefixReachable ==
  pc \in {"solve", "inner"} /\ i > 0 => \E m \in Without(unsorted) : PrefixCapped(m)

(***************************************************************************)
(* The verdicts are true: "o" comes with a leximax-optimal solution.       *)
(***************************************************************************)
VerdictSound ==
  /\ status = "o" => Optimal(best, feasible)
  /\ status = "u" => feasible = {}

(***************************************************************************)
(* The algorithm keeps the promise of LeximaxSpec.                         *)
(***************************************************************************)
Implements == Promise!AbstractSpec

(***************************************************************************)
(* If every call of the SAT solver returns, optimise returns.              *)
(***************************************************************************)
Terminates == <>(pc = "done")
=============================================================================
