# A TLA+ model of leximaxIST

leximaxIST solves Boolean problems with several objective functions. Hard
clauses say which assignments are solutions, each objective is a sum of Boolean
variables to be made small, and a solution is *leximax-optimal* if its largest
objective value is the least possible, then the second largest, and so on. The
library (`src/include/leximaxIST_Solver.h`, class `Solver`) either optimises
(`optimise`) or looks for good solutions within a time limit (`approximate`).
It works by many calls of an incremental SAT solver behind the IPASIR interface,
or of an external ILP solver. With it the repository keeps a command line that
reads pseudo-Boolean and MaxSAT files, and two solvers of package upgrade
problems: packup, which can use the library, and mccs, which uses ILP solvers.

The programs are sequential. What makes them hard is that the answers of the SAT
solver are arbitrary within their contract (any model, any core), that clauses
added for one search stay in the solver for the next, that bounds derived from
one maximum are used for another, that a call can be stopped by a timeout, a
process killed, or a signal handler run between any two steps, that a problem
passes through several encodings each of which must neither lose nor add a
solution, and that all this must never report a verdict that is not true. The
models quantify over all answers; they do not search like a SAT solver.

## The system: inventory

| Part | Code | State | Operations | Correct if | Model |
|---|---|---|---|---|---|
| Objective vectors and leximax order | `getters.cpp`, `setters.cpp` (`set_solution`), `encoding.cpp` (`componentwise_OR`, `at_most`) | `m_solution` | `get_objective_vector`, `set_solution` | the solution held only gets better; "all but at most i objectives are at most k" means that the ith maximum is at most k | all |
| Optimisation with static sorting networks | `encoding.cpp` (`optimise`, `optimise_non_core`), `solver_call.cpp` (`search`, `update_lb`) | `m_status`, `m_solution`, `lb`, `ub`, unit clauses in `m_sat_solver` | first call, encode an iteration, a SAT answer, an UNSAT answer with a core, fix a maximum | bounds sound, prefix of the maxima optimal, verdict true, no error exit, ends | all |
| Core-guided optimisation | `encoding.cpp` (`disjoint_cores` to `optimise_core_guided`) | `lower_bounds`, `lb_map`, `inputs_not_sorted`, `unit_core_vars`, sorted vectors | disjoint cores, core of inputs, core of max variables, growing the networks, next maximum | lower bounds sound, every input counted exactly once, verdict true, ends | all |
| Guided improvement (GIA) | `solver_call.cpp` 936-1190 | `max_index`, `skip`, clauses in two solvers | `pareto_search`, `decrease_max`, `fix_previous_max`, `bound_objs`, the check of `gia`, timeout | a maximum is only passed for a reason; solutions improve; Pareto-optimal if asked for | all |
| MSS enumeration | `solver_call.cpp` 571-830 | `mss`, `todo_vec`, blocking clauses, `best_max` | start, test one variable, block, limits, timeout | no valid solution with a smaller largest value is blocked, no access to an empty list, ends | all |
| ILP-based optimisation | `alg_opt_ilp.cpp`, `solver_call.cpp` 29-233 | constraints, fixed maxima, temporary files | one run per maximum, solved, stopped | constraints never exclude the optimum, verdict true | all but the files |
| SAT solver wrapper | `IpasirWrap.cpp` | the IPASIR solver, `_model`, `_conflict` | `solve`, `addClause`, `set_timeout` | a core is a subset of the assumptions | its answers |
| Life cycle of a `Solver` | `setters.cpp`, `constructors.cpp`, `destructor.cpp`, `getters.cpp` | formula, `m_sat_solver`, `m_status`, `m_solution`, counters | add clauses and objectives, `optimise`, `approximate`, `get_solution`, `clear` | status and solution fit the caller's formula | all, for callers that give each problem one call |
| Sorting networks | `sorting_net.cpp`, `encoding.cpp` (`encode_sorted` and its callers) | sorted vectors | `encode_network`, `odd_even_merge`, `merge_core_guided`, rebuilding | outputs are the inputs sorted, and no assignment of the inputs is lost | all |
| PB and cardinality encodings | `cmd_line/encodings`, `cmd_line/Encoder.cpp` | encoding variables, what an encoder keeps between constraints | encode a constraint | an encoding has the models of its constraint | the variants `main` can choose |
| Parsers and formulas | `cmd_line/ParserPB.cpp`, `Mcnf.cpp`, `FormulaPB.h`, `MaxSATFormula.cpp`, `main.cpp` | `_nameToIndex`, hard, PB and cardinality constraints, objectives | a line of a file; the loops of `main` | the clauses and objectives in the solver are those of the file | all but the tokens |
| Signals, command line, printing | `signal_handling.cpp`, `cmd_line` | - | the handler prints the solution held and exits | what is printed is consistent | through the states of `SolverApi` |
| packup | `old_packup` | units, interval and auxiliary variables, soft clauses, model, scores | read, slice, encode, solve in seven ways, print, signal | no installation lost or added, soft clauses measure the criteria, the answer is valid and best | all but the lexer and file texts |
| mccs | `mccs-1.1` | packages and virtual packages, columns, rows, objectives, solution | read, reduce, rows, criteria, combiners, seven back ends, print | the universe is that of the document, the rows have its installations, the answer is valid and best | all but the lexer, options and legacy orders |
| Legacy solving | `solver_call.cpp`, `encoding.cpp` | temporary files, child process | `external_solve`, presolving, `simplify_last` | - | no |
| Paper sources, examples, old code | `src/old_stuff` and others | - | - | - | no |

`main` parses a problem, adds it to a `Solver`, calls `approximate` and/or
`optimise`, and prints. `optimise` makes a first SAT call, chooses an algorithm
by `m_opt_mode`, and sets the status `o` when the algorithm returns.
`approximate` makes the same first call, sets the status `s` and runs GIA or the
MSS enumeration. All algorithms keep their best solution through
`set_solution` (called directly or by `call_sat_solver`), which is the shared
state the abstract specification speaks of. packup encodes an upgrade problem to
clauses and gives them to a `Solver`, or writes them to a file for another program;
mccs does the whole on its own and shares only the input format with packup.

The hazards of each part, with the line where they bite and the properties that
would catch them, are listed in `PROJECT.json`.

## The modules

| Module | What it models |
|---|---|
| `Leximax` | Objective vectors, the ith maximum of a vector, the leximax order (`Better`), `set_solution` (`BestOf`). Constants: `N` objectives, `Size` variables in the largest. |
| `LeximaxSpec` | The abstract specification: what the library promises, whatever the algorithm. State: the feasible vectors, `m_status`, the vector of `m_solution`. A step refutes, finds a first solution, improves on it, or concludes, and only with an optimal one. |
| `Iterations` | What the next module and `Ilp` share: where `optimise` is and which maximum it minimises. |
| `NonCore` | `optimise_non_core` in the modes `bin`, `lin_su`, `lin_us`. |
| `ObjectiveInputs` | What `CoreGuided` and `Mss` share: a problem as the set of its models, a model as the set of the inputs it makes true, `m_status` and `m_solution`. |
| `CoreGuided` | `optimise_core_guided` and `disjoint_cores` in all the core modes. |
| `SoundModes` | The assumption that leaves out the core modes that are wrong (finding 1 and `core_rebuild` with disjoint cores). |
| `Gia` | `approximate` with `gia`, all settings of `m_gia_incr` and `m_gia_pareto`. |
| `Mss` | `approximate` with `mss`, all settings of its options. |
| `Ilp` | `optimise_ilp` with Gurobi or CPLEX. |
| `SolverApi` | The life of a `Solver` object and its callers. |
| `Cnf` | Clauses, `fresh`, `add_hard_clause`. |
| `Satisfiability` | What the models of clauses are, for the properties. |
| `CardEncodings`, `PBEncodings` | The encodings of cardinality and pseudo-Boolean constraints, clause by clause. |
| `FrontEnd` | The parsers, the formulas and the part of `main` that fills the `Solver`. |
| `SortingNetworks` | `encode_network`, `odd_even_merge`, `merge_core_guided`, clause by clause. |
| `Networks` | What `optimise` sorts of the objectives `FrontEnd` built. Composes the two. |
| `FrontEndSpec` | What the clauses of the front end and the networks must keep of the file. Properties only. |
| `Cudf` | The parser's actions of mccs and the universe they build. |
| `CudfSpec` | What a CUDF document means: the valid installations and the values of the criteria. A specification: nothing in it is translated from code. |
| `MccsRows`, `MccsCriteria` | The reduction and the rows; the criteria and their combiners. |
| `Mccs` | A run of mccs, from the document to what it prints, and the order of the criteria its answer is compared by. |
| `PackupUnits`, `PackupEncoder` | The units, slicing; every clause and soft clause of the encoder, and what the models of clauses are. |
| `Packup` | A run of packup in its seven modes, with the signal handler. |
| `MC...` | The instances for TLC: the problems and configurations tried. |
| `LeximaxProofs` | Lemmas on the maxima of a vector and the leximax order that the proofs below share. |
| `IterationsProofs` | Theorems and proofs about `NonCore` and `Ilp`. |
| `InputsProofs` | Theorems and proofs about `CoreGuided`, for the modes of `SoundModes`, and `Mss`. |
| `GiaProofs`, `SolverApiProofs` | Theorems and proofs of one component each. |
| `FrontEndProofs` | Theorems and proofs about `FrontEnd`, `SortingNetworks` and `Networks`. |
| `PackupEncoderProofs`, `PackupProofs` | Theorems and proofs about the encoder for any problem, and about a run of packup, which use them. |

`NonCore`, `Gia` and `Ilp` extend `LeximaxSpec` (two of them through `Iterations`)
and use its variables, so that
`Implements == AbstractSpec` needs no renaming. `CoreGuided` needs the inputs and
not only the vectors; its refinement mapping takes the vectors of the models
(`Promise == INSTANCE LeximaxSpec WITH ...`, with `feasible` defined). `Mccs` and
`Packup` are compared with the same `CudfSpec`. In `Packup` the library is what
`LeximaxSpec` and `SolverApi` say of it: it holds points that get better, and ends
with a best one.

### How state and actions correspond to the code

A *problem* is the set of objective vectors of its solutions in `NonCore`, `Gia`
and `Ilp`: these algorithms see the solutions only through the outputs of sorting
networks that count all variables of an objective. In `CoreGuided` and `Mss` a
problem is a set of models, and a model is the set of objective variables
(*inputs*) it makes true, because single variables are assumed false or blocked
there. One call of the SAT solver with what the code does until the next call is
one action; a SAT answer is any model the clauses and assumptions allow, an UNSAT
answer any core there can be. Since nothing else runs concurrently this loses no
behaviour. The exceptions: the end of an iteration (`FixMaximum`, `Networks`) and
`Finish` are steps of their own, so that the properties can look between.

* `NonCore`. The formula is represented by the bounds its unit clauses put on the
  unary number of each iteration: `cap` and `floor`, and `allUb` for
  `encode_ub_sorted`. `Cores` are told apart by their last variable, which is all
  `update_lb` reads, and by whether they have several variables. A core may be
  empty if the formula itself has no model; `NothingLost` in the proofs shows that
  it always has one.
* `CoreGuided`. A sorting network is the set of inputs it sorts; `copies` counts
  how often `unit_core_vars` were appended to each sorted vector. A core is the
  set `C` of its inputs, the last max variable of the current maximum (`k`), and
  whether it has variables of earlier maxima. `LowerBounds` is `change_lb_map` with
  its divisions and remainders as they are in the code, C++ truncation included.
  The branches of the code that grow networks are `Networks`: the mode name
  is compared as the code does, and `"core-merge"`, the constructor's default,
  matches none of them.
* `Gia`. A solver is the set of vectors its clauses still allow: `main` for
  `m_sat_solver`, `local` for the solver of one `pareto_search`. `Added` says which
  clauses stay in the solver (this depends on `m_gia_incr` and `m_gia_pareto`),
  `ParetoModels` which models the call has.
* `Mss`. `mss` and `todo` are the sets of `mss_linear_search`; the solver's clauses
  are the blocking clauses. In non-incremental mode the units added for the
  variables tried are what `Satisfying(mss)` says. The order in `todo_vec` is left
  open, and a variable that occurs several times in an objective because of its
  weight counts once.
* `Ilp`. A run ends with an optimal solution of the constraints, or it is stopped
  with some solution or none. In the last case Gurobi writes no file and `optimise`
  exits; CPLEX's output has no solution and is ignored. `cut` is a history variable.
* `SolverApi`. A formula is the set of assignments that satisfy it; `hard` is what
  the clauses in `m_input_hard` leave, `sat` what those in `m_sat_solver` leave, and
  the history variable `formula` what the caller asked for, so that the three can
  come apart. The algorithms are reduced to what they do to the members: improve the
  solution, and restrict `sat` by bounds or blocking clauses. A step of the object is
  a state the signal handler of `main` can see, so the invariants speak of what it
  prints. The caller (`config`) is `main` or a program that uses the library.
* `FrontEnd`. A file is a sequence of lines, already split into coefficients and
  names. `ParseLine` and `ReadMcnfLine` do what a line makes of the formula: the
  transformation of `>=`, `=` and negative coefficients, the choice between hard
  clause, cardinality and PB constraint, the indices of the names, the objectives
  with a variable repeated as its weight says. Then the loops of `main`. Integers
  wrap, an `int` at `IntMax`, where the code converts between `int64_t`, `uint64_t` and
  `unsigned`. The encoders are operator parameters, which `MCFrontEnd.cfg` sets to those
  of `CardEncodings` and `PBEncodings`. `solver.end` tells an abort or an exit from a normal run.
  `CardEncodings` and `PBEncodings` give the clauses of one constraint, with the ids
  in the order `fresh` gives them out; one encoder object serves the whole file, so
  what it keeps (`modulo`, `gte`, `buckets`) is part of the solver record.
* `Networks`. Continues from the solver that `FrontEnd` leaves: the static sorting of
  all the inputs, or the sets of inputs which successive cores bring, merged or
  rebuilt; whichever cores the SAT solver may find.
* `Mccs`. `Parse` is the grammar's action for one stanza, with the tables of names and
  virtual packages. `Reduce`, `Allocate` and `Generate` are the phases of `main`: the
  closure of what the request can reach, the columns in the order the criteria
  allocate them, the rows and the objectives of the combiner. A row is a function
  from columns to coefficients, and `cand` is the set of points that satisfy the rows
  so far: a back end takes any point that is best for the current objective, and fixes
  its value for the next. Each back end has its own action, since they differ in what
  they do with a time limit, an empty objective and the solution they read. In `Glpk` a
  program without a point may end either way, since the code looks at the return code of
  `glp_intopt` only; GLPK tells that there is no solution by that code if the presolver
  or the relaxation shows it, which the model does not decide.
* `Packup`. `Read` is the parser's callback for one stanza; `Slice` computes the units
  that matter; `Encode` gives the clauses as sets of literals over structured variables,
  and `points` are their models. The library's calls, the external programs, a level at
  a time (`opb`) or all at once (`wcnf`), and a `Signal` between any two steps that
  leave the state the handler can see.

## The runs

`CHECK_DEADLOCK FALSE` stands in every configuration, since each of these
functions and programs returns: the specifications stop at `done` (`complete`,
`stopped`), and where they must get there is stated as liveness. In `SolverApi` the
object can always be cleared, except after an exit.

| Run | Instance | Shows |
|---|---|---|
| `non_core` | 3 objectives of up to 4 variables, all three modes, problems of one or two vectors and some of three | `BoundsSound`, `KeepsBetter`, `PrefixOptimal`, `NoErrorExit`, the refinement of `LeximaxSpec`, termination |
| `core_guided` | 3 objectives with 2, 1 and 1 inputs, problems with up to two models; `core_static`, `core_merge`, `core_rebuild_incr` with and without disjoint cores, `core_rebuild` without | lower bounds, counting, reachability of the prefix, refinement (with it the verdict), termination |
| `core_default` | one problem with 2 objectives of 3 and 5 inputs, mode `core-merge` | violation, finding 1 |
| `gia` | 3 objectives, all four configurations, problems of one to three vectors | a maximum is passed only when it cannot be decreased, Pareto-optimality if no objectives are tied, refinement, termination |
| `gia_ties` | 2 objectives | violation, finding 2 |
| `mss` | 2 objectives of 2 inputs, up to three models, the three values of `m_mss_add_cls` with two tolerances, the limit and the incremental mode with one each | the choice from `todo_vec` is valid, no solution with a smaller largest value is blocked, termination |
| `ilp` | 3 objectives of up to 3 variables, up to three vectors, both solvers | the constraints keep the optimum, and solved runs give it |
| `solver_api` | 3 points, 2 objectives, 3 costs; the library with each approximation and with `optimise`, `main` with one of the two | what status and solution say is true in every state, `get_solution` stays inside the solution, `optimise` still has every better solution |
| `mss_then_optimise` | the same, `main` with `mss_incr` and `optimise` | violation, finding 3 |
| `front_end` | 594 files, `IntMax` 15; every encoding of the options on constraints with all right-hand sides; pairs of constraints; objectives; MCNF; networks on 1 to 7 inputs, with a repeated one, in all modes | parsing is exact, no encoding is too weak or excludes a solution, objectives keep their values up to the constant that `main` drops, the program stops early only for a reason, networks sort and restrict nothing |
| `mccs` | 945 cases: documents of up to 5 packages, requests of each kind, 12 combinations of criteria, options of rows and columns, 7 back ends | the universe is that of the document, the rows have the valid installations exactly, an answer that was read is valid and best, one that was not is of GLPK or COIN in the two cases listed below, and other ends have a reason |
| `packup` | about 800 cases: documents of up to 6 units, the 7 modes, criteria maximised and minimised | the clauses have the valid installations exactly, the soft clauses measure the criteria, whatever is printed is justified, also by the signal handler |

**Bounds.** The constants are the only bounds: there are no counters that grow,
except `copies` in `CoreGuided`, which passes 1 only when `core_rebuild` is used with
disjoint cores, and no run does. Three objectives are the least for which the sets of
two objectives in `change_lb_map`, a maximum that is neither first nor last, and ties
besides a differing value all occur. Two vectors are the least that can be ordered in
either way at each maximum, and a third one gives a model that improves on the
first but is not the best. Sizes of 3 or 4 give the binary search an interval it
must halve twice and let a core jump a bound by more than one. The vectors of
`NonCore` and `Ilp` are taken up to permutation, because there the operators look
only at counts and at the largest value; those of `Gia` are not, because
`fix_previous_max` depends on the index of an objective. The divisor and the
modulus in `change_lb_map` differ only when a core is counted after the first
maximum, and `PrefixReachable` shows why that does not happen.

In `front_end` every constraint is tried with each right-hand side from the least to
the largest value of its sum, so that the trivial, the unsatisfiable and all cases
between occur; six literals and seven inputs are enough for networks and totalizers
with odd parts on two levels of their recursion, and a word of 5 bits makes the
conversions of a negative right-hand side wrap. All files start with a clause that has
all the variables: otherwise `fresh` may return an id that the file uses later (see
below). In `mccs` and `packup` five or six packages are enough for a dependency that
takes another one with it, a feature with several providers, two installed versions of
one package, and a document without a solution (one for which the relaxation has none either, and one for
which it has); a sweep over small documents takes the
combinations of a request, dependency, conflict, provider and installed packages. In
`packup` some names have five versions, since interval variables exist from four on and
links between intervals need more than one of them. Its documents avoid the cases
listed below as known issues: names that are both a package and a feature, version 0,
an upgrade of something that is not installed. Those of `mccs` avoid a package that
provides its own versions, `lexleximin`, factors inside `leximax`, and the others listed.

**Fairness.** `WF(Next)` in `NonCore`, `CoreGuided` and `Mss`: the code never
waits, so it goes on as long as every call of the SAT solver returns, which is all
the fairness says. In `Gia` it is `WF(Advance)`, without the timeout: gia must end
on its own. In `Mss` the timeout (`Interrupt`) also ends the run, so fairness of `Next`
forces nothing wrong there: behaviours in which it never strikes are included.
The other modules have no liveness property: their loops run over a list that is given
(the maxima, the lines, the stanzas, the objectives), and a `SolverApi` waits for its
caller.

## What is proved

The proofs are checked by TLAPS for all values of the constants that satisfy the named
assumptions: at least one objective, any size, any set of problems, any subset of the
modes.

* **The encoding** (`LeximaxProofs!EncodingCorrect`): at most i objectives exceed k
  exactly if the ith maximum is at most k. `Maximum` is a `CHOOSE`; `MaximumDef` shows
  that it exists (the set of all objectives exceeding `Size` is empty, and a set of
  naturals has a least element) and what it satisfies.
* **`PrefixForced`**: if the first i maxima of u are the least possible, any v
  satisfying their caps has the same ones.
* **`IterationsProofs`, the searches of `NonCore`.** The invariant `IInv` adds to the properties what makes
  them inductive: where control is (`Control`); that the unit clauses of earlier
  iterations pin the maxima of the solution held and those of later ones do not exist
  (`Units`); and that in a search every solution which agrees with the one held on
  the earlier maxima has its ith one at or above `lb` (`Search`). Two lemmas carry the
  argument. `NothingLost`: no clause added so far excludes a solution that agrees with
  the one held on the earlier maxima and is no worse at the current one, so that an
  UNSAT answer says something on the problem and not only on the formula.
  `ModelBetter`: conversely a model the solver returns agrees on the earlier maxima
  (by `PrefixForced`) and is smaller at the current one, so `set_solution` takes it.
  Then one lemma per action shows `IInv` preserved. From it follow `TypeCorrect`,
  `PrefixCorrect`, `VerdictCorrect`, `NoError`, `BoundsCorrect`, `KeepsBetterCorrect`,
  the action property `NarrowsCorrect` (every call strictly narrows the interval, the
  safety half of the termination) and `Refinement`: every step of `NonCore` is a
  step of `LeximaxSpec` or a stutter. Types, verdict and narrowing are proved and not
  checked by a run of their own; the refinement contains the verdict.
* **`InputsProofs`, the core-guided algorithms.** Three invariants carry the argument. `Cores`: `lb_map` counts
  disjoint sets of inputs, each of which every model meets, so that a model has at least as
  many inputs of some objectives as their entry says. `LowerBoundsAtFirst` turns these
  counts into bounds of the maxima: `OfAnyCount` (an injection into objectives times the
  largest value) and `RoundedUp` give the ceilings for sets of objectives,
  `MaximumMonotone` the sorted bounds of single ones. `Bounds`: the bound of a maximum that
  is still to come holds of all solutions, any other one of the solutions within
  the earlier bounds (`Within`). `Reached`: some solution with its unsorted inputs false
  is within the earlier bounds. So a core never consists of variables of earlier maxima
  only (`CoreBound`: no error exit), and a core of inputs only is found at the first maximum
  and not after `disjoint_cores` (`InputCore`): the part of `change_lb_map` for later
  maxima is dead code, which is why the bounds it would give need not be right. `Fit`
  keeps every bound below the number of max variables, so that nothing wraps. When the last
  maximum has a model, `WithinOptimal` says that it is optimal. `SoundConfigsAssumption`
  leaves out `core-merge` (finding 1) and `core_rebuild` with disjoint cores (see
  below): `NetworksDef`, each input counted once, is false for them.
  `CoreGuidedRefinement` gives the verdict too.
* **`IterationsProofs`, `Ilp`.** `Held`: the maxima of the solution held are within the values fixed,
  and its first one within each relaxation bound, so that it satisfies the constraints
  of every later run and no run is on an infeasible problem. `RelaxBound` shows why the
  big-M constant, the largest value of the solution held, is large enough. `Exact`: if no run was
  stopped, the values fixed are the maxima of the solution held, and the least possible. Then the
  constraints exclude no solution that agrees with it on the maxima fixed
  (`AgreesConstraints`) and allow no others (`ConstraintsAgree`), so that an optimal
  solution of a run has the next maximum least (`SolvedLeast`).
* **`GiaProofs`.** To decrease maximum m a solution must `Keep` the values of the
  objectives `fix_previous_max` fixes and `Lower` the others below that maximum. `IndexKept`,
  the centre of the invariant, says that no solution of the problem does this for a
  maximum that was passed. Alone it is not inductive: an improved solution has other
  values, so other objectives are fixed. `MainKeeps` says that `m_sat_solver` still has all
  solutions without a larger first maximum, `LocalKeeps` that the solver of
  `pareto_search` has those that are nowhere larger than the one held and agree on
  what was fixed, each although the clauses of earlier searches stay (`Added`). The order of
  ties is what makes it hard: the first m objectives that reach the maximum before
  are fixed, by index. `EarlierFix`: where these are not all the objectives above it,
  an earlier maximum fixes a part of them and is larger, so who decreases the later one
  decreases the earlier one. So a search is always at a `Proper` place, where
  a vector that keeps and lowers has the same objectives fixed for all earlier maxima
  (`SameFix`, `SameClauses`): `IndexKept` then carries over to the improved solution. The
  UNSAT answer to the check of `gia` justifies the next maximum (`CheckNone`), and so does
  that of `pareto_search` where it moves the index itself, because the maximum is then at
  most 1 above the least value and a solution that decreases it is nowhere larger
  (`ShortcutNone`). From this follow `FirstMaximumCorrect`, the action property
  `IndexCorrect`, its form for all later states `IndicesStayJustified`, the refinement
  `GiaRefinement`, and `AnswersImprove`: each satisfiable call brings a strictly better
  solution. `ParetoKept` says that after a completed `pareto_search` no solution that is
  nowhere larger decreases any maximum; one that dominates does, if no positive values are
  tied (`DominatingLowers`), which gives `ParetoCorrect`. With ties it is false (finding 2).
* **`InputsProofs`, the enumeration of MSSes.** `Search`: during a search a model of the subset has been seen, so the
  solution held is as good, and the inputs neither in the subset nor to be tried are
  true in all its models. So the counts with which `mss_choose_obj` bounds the values are
  bounds (`ModelUpper`, `ModelLower`), its divisors are positive and the
  objective it takes has an input left (`Choice`). `BlockSound`: the models that a blocking
  clause excludes make true all inputs outside of the subset, so the search cannot stop
  early and lose one with a smaller largest value. `EnumerationAdvances`: every test leaves
  fewer inputs to try, and a subset that is blocked was not blocked before; inputs are
  finite, so this is the safety half of the termination.
* **`SolverApiProofs`.** The invariant is the conjunction of `TypeOK`, `Control` (what
  is true at each place of the code, and which calls have been made), `Held` (the
  formula of the caller, `m_input_hard` and the clauses in the SAT solver agree as far
  as the calls made so far allow), and the properties `ReportTrue`, `SolutionCovered`
  and `BetterKept`. The assumption on the constants is `OneCall`: `main` is not asked
  to approximate and to optimise the same problem. Finding 3 is what happens without it.

* **`FrontEndProofs`, the parser.** `ParserCorrect`: for every file whose numbers fit
  (`NumbersFit`, the hypothesis of the run too), whatever its lines, the parsed formula is met by
  the assignments that meet the lines. The invariant `ParseInv` says it of the lines read so far:
  an assignment meets the clauses, cardinality and pseudo-Boolean constraints collected
  exactly if it meets those lines. It needs the names besides: `Known` only appends, without
  repetition, so that a literal parsed early keeps its meaning when later lines bring new
  names. One line is arithmetic: the sum of the terms `AddProduct` leaves
  differs from that of the line by what it moved to the right-hand side, `ChangeSign`
  keeps what a constraint says as long as its `int` does not wrap, and an equality is the two
  inequalities. Sums over sequences of any length are reasoned about as chains, as below.
* **`FrontEndProofs`, the networks.** `Merge` and `Network` are recursive functions of wires;
  a function defined by recursion on the size of its argument exists (`UpToExists`), by a
  least counterexample. `MergeSorts` is the 0-1 argument for the odd-even merge as the code
  writes it, for two sequences of wires of any two sizes: if each has its true
  wires last, the odd and the even parts differ by at most two, and the exchanges, whose
  index depends on whether the first sequence is odd (`sorting_net.cpp:101`), put the one wire
  that is wrong right. `NetworkRight` is the network of all wires. `Sorts(F, inputs, w)` brings this to
  the clauses: in every set of literals that is closed under unit propagation from F, known
  inputs give known outputs, sorted. A comparator has it (`ComparatorShows`), and a chain of
  comparators (`InsertAllRight`); so `SortedRight` for `encode_sorted` and `MergedRight` for
  `merge_core_guided`.
  `NetworksSort` is the run: `NetInv` says of each objective (`NetPart`) that its outputs sort the
  inputs taken so far, that these, the unsorted inputs and the unit core variables
  are together the objective, each occurrence once, and that the clauses are finitely many. The
  invariant `ObjInv` says that the objectives are sequences of positive variables. There are two
  hypotheses. `[]Counts`: the encoders, which are parameters here, leave the id counter a
  natural number. `Plain` keeps two known issues out: a variable repeated in an
  objective whose network is built again, and `core_rebuild` with disjoint cores.
  `NetworksFree`, under the same hypotheses, is the other half: the clauses of the networks can be
  satisfied whatever the variables are that existed before. `Enlarges(S, T)` says it of two
  states of the solver. A comparator has it because its outputs are new
  (`ComparatorEnlarges`); it carries over chains (`EnlargesMore`), so every operation `Adds`
  only new variables, and so does `ForEach` (`Adding`). That the ids are new is the
  invariant `FreeInv`: the inputs of the networks are at most `nbVars`, the outputs and every
  clause at most the id counter, and `reset_id_count` never goes below `nbVars`.

* **`PackupProofs`, the run.** The invariant says where the model held, the scores and
  the status come from in each mode: `AnswerIsPoint`, `AnswerIsBest` and `LevelsSolved` hold for
  whatever set of points the clauses have, at a signal between any two steps too. What the
  points are worth depends on the encoder, see below.
* **`PackupEncoderProofs`.** `Met(s, I)` says what an installation I must do: meet
  the dependencies, keep the conflicts, meet the request, and leave one version of
  what is upgraded, not below the one installed. `IntervalsSound` and `IntervalsComplete`
  are about the interval variables: each has a clause that points to the next interval only,
  so what it means is proved from the far end on, as a least counterexample (`LeastOf`,
  by well-foundedness of the naturals: an induction without an operator parameter).
  `RequestSound` and `DisableSound` then say of the two translations of a constraint on
  versions, which list some versions and leave the others to an interval, that together they
  mean the constraint. `EncodingSound`: the units a model of the clauses chooses are `Met`.
  `DemandsExact` adds the converse, that for any `Met` set of needed units the assignment in
  which every auxiliary variable has the value it stands for is a model: the encoder
  neither gains nor loses an installation. `AnswerMeetsDemands` composes this with
  the run: every answer printed is `Met`. `PointsExact` says it of the points themselves:
  the units of the models of all hard clauses are the `Met` sets of needed units, all and
  only, since the clauses of the criteria (a chain over `EncodeLexicographic`: each only
  defines its variables) and `AssertNotRemoved` exclude nothing. It rests on `ModelsExact`: the
  enumeration `ModelsOf`, a fold over the variables, gives the models of the clauses. A fold
  is reasoned about as a chain of values, one for each element, that is shown to exist
  for every length (`FoldSteps`); the induction is again a least counterexample.
  Last, `EncodingFinite`: the variables of the encoding are finitely many (`Space` lists
  all that can occur), the bounds of intervals are within the versions asked for, and the
  weights of the soft clauses stay below the top weight. Each criterion weighs more than
  all that come after it together; `get_top` adds up estimates of the numbers of
  clauses, and `Budget` shows that each estimate is at least the number written, so that
  no soft clause, merged with equal ones or not, is as heavy as a hard one (`NoneHeavy`).
* **`PackupProofs`, from the document to the answer.** Slicing is an iteration of the same
  kind as the enumeration of models: it stops within as many rounds as there
  are units (`Saturation`), so the needed units are closed under what `Met` asks for.
  `SlicingKeeps`: of an installation of the whole document that is `Met`, the needed units
  are `Met`. `SlicingSound`: the other way round, if upgrades are safe (`UpgradesSafe`):
  every request to upgrade admits the latest version installed, or a criterion makes all
  installed units needed (removed or changed, minimised); without either packup can
  downgrade, see the known issues. `AnswerMeetsDocument` and `FailIsJustified` bring
  this to the run.
  `ReadIsMeant` is about reading: stanza by stanza, each a fold over its fields, the requests
  to upgrade refined at the end, what was read is a problem whose `Met` installations are
  the ones `CudfSpec` calls valid for the document. The invariant `DocumentKept` says at
  which stanza of the document a run is and what it has read so far. With `PointsExact` and slicing
  this gives `EncodingIsExact`, the invariant `EncodingExact` of the run `packup`, and
  `AnswerIsValid`: what is printed is valid in the whole document, also after a
  signal, and FAIL has its reason.
  The hypothesis, `Cleanly`, speaks of the document only and keeps the known issues
  below out: no field of a list is given twice and there is one request; versions are between 1 and
  some m; no name is of a package and of a feature, no unit is declared
  twice, none asks for a version below 0, only installed names are upgraded, and upgrades
  are safe. All of this holds of every document of the run `packup`. Finiteness,
  listed units, well-posed problems and light soft clauses, which
  the theorems on operators assume one by one, are proved to follow (`CaseReadable`).
  `LevelsAreBest`: no point is better than the answer in the order of the objectives
  solved. Each objective has a weight, since a finite set of numbers can be sorted
  (`WeightsSorted`), each point has a number for it, since `Split` divides into numbers
  (`SplitCounts`), and no more values are stored than there are weights (`CleanLength`).
  `PrintedIsTrue`: the five numbers printed with an answer are those of the criteria in
  `CudfSpec`. Four compare sets of names; for the unmet recommendations, which `CudfSpec` adds up
  package by package, `PairsCounted` shows that the sum is the number of pairs that
  packup counts. It takes besides `Cleanly` that a package gives its recommendations
  once and not as `true!` or `false!` (`RecommendsPlain`, true of all documents of the run).
  Four of the five parts of `AnswerJustified` are proved so (`AnswerValid`, `EndsJustified`,
  `LevelsBest`, `PrintedTrue`). What the numbers of false clauses measure is not proved, so
  `ObjectivesExact` and `AnswerBest` stay with TLC.

`Mss` and `Ilp` have no refinement theorem, because they do not refine `LeximaxSpec`: with
the incremental mode a blocking clause sets the status back to unknown, and a killed
ILP run is reported as `o` (known issues).

Only model-checked: what the encodings of constraints do (`ConstraintsKept`,
`NothingExcluded`, `ObjectivesKept`, `StopsJustified`) and `NetworksExtend`, which speak of
the models of all clauses together, by the recursive `Sat` (what `NetworksExtend` adds to
`ObjectivesKept` is what `NetworksFree` proves, provided the encoders use no variable above
the counter); the properties of mccs; those of packup just named; and all liveness
properties (the provers have no ENABLED). The modules of mccs and of the encodings are written with recursive operators,
in which nothing can be proved. `FrontEnd` and `Networks` take the encoders as operator
parameters, so that their proofs hold for any encoder and reach no recursive one.

## Findings

1. *Default mode* (`core_default`). The constructor sets `core-merge`
   (`constructors.cpp:30`) where every comparison has `core_merge`. A `Solver` whose
   mode was not set runs the core-guided algorithm without growing its networks and
   may report a solution as optimal that is not. (The command line sets the mode.)
2. *Pareto-optimality* (`gia_ties`). With objectives of equal value `pareto_search`
   can end, and say it has found one, without a Pareto-optimal solution.
   `ParetoIfDistinct` in the run `gia` shows that ties are the only reason.
3. *MSS and then optimise* (`mss_then_optimise`). With `mss_incr` the blocking clauses
   are added as hard clauses of the problem and reset the status to unknown. `main`
   then optimises a formula without the solutions that were blocked and can print
   UNSATISFIABLE for a satisfiable one; without `--optimise` it prints no solution.

## Known issues without a run

These were met while the code was modelled. The instances of the passing runs stay
outside of them, as said above, except for the three of which a property says what is
true instead (`ObjectivesKept`, and twice `NeverRead` in `AnswerValid`); a reader who changes the code may turn one into a run.

**Library.**
* `core_rebuild` with disjoint cores: `encode_sorted` of an empty list keeps the old
  vector, and `add_unit_core_vars` appends the unit cores to it again
  (`encoding.cpp:1149`); they count twice, and a verdict can be wrong (values 2 and 4
  reported where 3 and 3 is possible).
* A killed ILP solver: `optimise_ilp` (`alg_opt_ilp.cpp:119`) does not look at whether a
  run was completed, and reports `o` for any solution. `SolvedIsOptimal` speaks of runs
  that were not cut, for this reason.
* `approximate` never sets `m_input_nb_vars`, so `get_solution` returns nothing after
  it alone (`solver_call.cpp:892`, `getters.cpp:26`). `approximate` without objectives
  takes the largest element of an empty vector.
* `optimise` after `approximate` on the same problem ends with "Called optimise()
  twice", and a signal in the window `encoding.cpp:462-475` finds a solution shorter
  than the variables.
* Adding clauses or objectives to a problem with a verdict, without `clear`: the old
  solution and the clauses that fixed its maxima remain.
* `lb_map` keys are decimal strings of objective numbers and collide from ten
  objectives on (`encoding.cpp:751`).
* A file variable that first occurs after an encoding has called `fresh` may share its
  id with an encoding variable: `2x1 + x2 + 2x3 <= 3` alone (`main.cpp:74-98`,
  `setters.cpp:68`). So may one that first occurs in a later objective, with the
  variable of a soft clause of an earlier one.
* `PBObjFunction::addProduct` moves negative coefficients, after a `max` is turned into
  a `min`, to `_const` (`FormulaPB.h:262`), and `main.cpp:103-114` never reads `_const`.
  The values of `min: -2 x1` or `max: x1` are shifted by 2 and by 1. Each objective
  has a constant of its own, so that the order between objectives, and with it the
  leximax-optimal solutions, can differ from those of the file. `ObjectivesKept` says
  that the values are those of the file less that constant.
* `set_inputs_sorted` leaves zeros when a variable is repeated by its weight
  (`encoding.cpp:978`).
* Encodings: a right-hand side above the number of literals aborts; `gte_two` keeps
  `pb_oliterals` from one constraint to the next; GTE drops a constraint that no
  assignment satisfies; the adder ignores bits of coefficients above the length of the
  right-hand side and aborts on a second constraint; the modulo totalizer keeps its
  modulus; `changeSign` may overflow (`FormulaPB.h:136`); `ld64(0)` is undefined.
* `IpasirWrap` sizes a model by the variables it has seen in clauses. The constructor
  sets `m_mss_tolerance` to 50 and `m_approx` to `mss`.

**packup.** Names that are both a package and a feature; an upgrade of a name that is
not installed allows several versions; slicing drops installed versions unless a
criterion asks for them, so `upgrade: a < 3` with version 3 installed can downgrade and
`-new` counts a package as new; version 0; duplicate units; a needed unit whose variable
is in no clause reads past the solution of the library; `+changed` is inexact when an
installed unit is not needed; the weight of `+unmet_recommends` merges with the next
criterion's; the printed scores use the original installation for features and print
recommends for removed. With `--leximax-approx` only, `print_leximax_info` throws; with
one non-empty objective the library exits; a signal before a first solution, or with
status `o` before the answer is printed, aborts; a signal inside
`ExternalWrapper.cc:213-214` prints FAIL; formalism `lp` prints FAIL in lexicographic
mode; the wcnf file has every hard clause twice; with a killed program a model of an
earlier objective is printed; the solution check is never called.

**mccs.** `can_reduce` of a count (`count_criteria.h:47`) looks at the sign of lambda
and not of the values, so the reduction drops packages that a negative size asks for;
bounds of lexagregate use the last range only; a package that provides its own versions
breaks the upgrade rows (`constraint_generation.c:49`); `keep: feature` is read as
`version`; after a disjunct a package provides itself the later ones are still asked
for; `true!` in depends and `false!` in recommends crash; nunsat ignores packages that
are absent; bounds of removed with a factor; `lexleximin`; ranges in lexagregate are off
by one; all-empty objectives in lp and pblib give FAIL; after a time limit of a later
objective CPLEX's solution is lost; with an empty last objective coin prints an array
that was never read; `glpk_solver.c:74,98` looks at the code of `glp_intopt` only and never
calls `glp_mip_status`, so that when there is no installation, but the relaxation has a
solution with fractions, mccs prints as an answer what `glp_mip_col_val` holds instead of
FAIL (the last two are in the run: `NeverRead` names them); `veqpkglist` properties register providers; a redeclared required
property refuses every package; the last package of a document without a problem stanza
is never listed; `-nosolve` prints FAIL; `unaligned` erases from a map while iterating.

## Not modelled, and the plan

* *Text and foreign programs*: lexers and tokens, the LP, OPB and WCNF files and the
  solvers' output, temporary files, option parsing, formatting, MaxPre, the solvers.
* *Legacy code of the library*: external solver mode, MaxSAT presolving,
  `simplify_last`, `terminate`. Neither the tutorial nor the command line offers it.
  `presolve` is not called by `optimise`; `read_solver_output` reads the solution in the
  format of `m_ilp_solver` whatever the formalism, so that with `wcnf` or `opb` no
  solution is ever read; the files are never removed; `m_child_pid` is always 0. A model
  of it would be one of what it fails to do. With presolving off, `encode_bounds` adds
  no lower bounds and `lb` starts at 0. Verbosity has no effect on the state.
* *In mccs*: the unaligned criteria, the legacy row orders. *In packup*: the solution
  check. *In the encodings*: the incremental interfaces, which nothing calls.
* *Signals* inside one assignment or `swap`: undefined behaviour of the C++ program that
  depends on the library's implementation. Between the steps they are covered. In
  `Packup` printing is one step: a signal inside `print_solution` finds
  `printing_started_or_finished` set (`Encoder.cc:1472`), prints no more and leaves the
  answer cut off; one while `main` prints prints a second time in the middle of it.
* *Old code, examples, paper*: not compiled, or no behaviour.

Next, most important first: that the numbers of false clauses are the criteria
(`ObjectivesExact`), which with `LevelsAreBest` gives `AnswerBest`;
the back ends of mccs, whose argument is that of `LevelsSolved` (its modules would first
need their recursive operators rewritten); a `SolverApi` for callers that add
to a problem with a verdict, which needs a specification of what they may expect.

Two habits keep the modules provable: recursion as a function or a fold wherever a theorem
may be wanted, and parentheses around `UNION` and
`SUBSET` before another set operator, which tlapm and SANY otherwise read differently.
