------------------------------ MODULE Networks ------------------------------
(***************************************************************************)
(* What optimise does with the objectives the front end has given to the   *)
(* Solver: it sorts the values of their variables with sorting networks.   *)
(* The static algorithms (encode_sorted in optimise_non_core and in        *)
(* approximate) sort all the inputs; the core-guided ones (disjoint_cores, *)
(* optimise_core_guided) sort those of the cores, and enlarge or rebuild   *)
(* the networks when new cores are found.  Which cores the SAT solver      *)
(* finds is left open; module CoreGuided has the rest of the algorithm.    *)
(***************************************************************************)
EXTENDS FrontEnd, SortingNetworks

VARIABLES
  encoding,     \* m_encoding, the clauses of the networks
  sorted,       \* m_sorted_vecs
  rest,         \* inputs_not_sorted
  unit,         \* unit_core_vars
  nbVars        \* m_input_nb_vars, or -1 before optimise is called

netVars == <<encoding, sorted, rest, unit, nbVars>>
allVars == <<vars, netVars>>

NetInit ==
  /\ Init
  /\ encoding = {} /\ sorted = <<>> /\ rest = <<>> /\ unit = <<>>
  /\ nbVars = -1

FrontEndStep == Next /\ UNCHANGED netVars

CoreModes == {"core_merge", "core_rebuild", "core_rebuild_incr"}

K == DOMAIN objectives
Empty == [k \in K |-> <<>>]

\* the solver with m_encoding in place of the hard clauses, and its parts
Enc == [NoSolver EXCEPT !.hard = encoding, !.id = solver.id, !.end = solver.end]
Adopt(S) ==
  /\ encoding' = S.hard
  /\ solver' = [solver EXCEPT !.id = S.id, !.end = S.end]

\* an operation on every objective, one after the other: Op(S, k) is a record
\* with the new solver s and the outputs w
ForEach(S, Op(_, _)) ==
  LET after[k \in 0 .. Len(objectives)] ==
        IF k = 0 THEN [s |-> S, ws |-> <<>>]
        ELSE LET r == Op(after[k - 1].s, k) IN [s |-> r.s, ws |-> Append(after[k - 1].ws, r.w)]
  IN  after[Len(objectives)]

Begun == pc = "done" /\ solver.end = "" /\ Len(objectives) > 1

SortObjectives ==
  /\ Begun /\ nbVars = -1 /\ input.mode = "static"
  /\ LET all == ForEach(Enc, LAMBDA S, k : EncodeSorted(S, objectives[k], <<>>))
     IN  Adopt(all.s) /\ sorted' = all.ws
  /\ nbVars' = solver.id
  /\ rest' = Empty /\ unit' = Empty
  /\ UNCHANGED <<input, pc, pos, names, formula, objectives>>

-----------------------------------------------------------------------------
\* the positions of the inputs of some cores, for every objective
CoreChoices(vecs) == {c \in [K -> SUBSET UNION {DOMAIN vecs[k] : k \in K}] : \A k \in K : c[k] \subseteq DOMAIN vecs[k]}
Left(vec, positions)  == Taken(vec, DOMAIN vec \ positions)

\* disjoint_cores: unit cores are not sorted but appended to the outputs.
\* Without it the algorithm begins with empty networks.
DisjointCores ==
  /\ Begun /\ nbVars = -1 /\ input.mode \in CoreModes
  /\ nbVars' = solver.id
  /\ \E new, single \in CoreChoices(objectives) :
       /\ \A k \in K : new[k] \cap single[k] = {}
       /\ ~ input.disjoint => \A k \in K : new[k] \cup single[k] = {}
       /\ unit' = [k \in K |-> Taken(objectives[k], single[k])]
       /\ rest' = [k \in K |-> Left(objectives[k], new[k] \cup single[k])]
       /\ LET all == ForEach(Enc, LAMBDA S, k :
                       LET r == EncodeSorted(S, Taken(objectives[k], new[k]), <<>>)
                       IN  [r EXCEPT !.w = @ \o unit'[k]])
          IN  Adopt(all.s) /\ sorted' = all.ws
  /\ UNCHANGED <<input, pc, pos, names, formula, objectives>>

\* set_inputs_sorted: the vector has the size the counts give; a variable is
\* left out if it is found among the others, and then 0 stays in its place
InputsSorted(k, left) ==
  LET found == Range(left) \cup Range(unit[k])
      kept == Taken(objectives[k], {i \in DOMAIN objectives[k] : objectives[k][i] \notin found})
      size == Len(objectives[k]) - Len(left) - Len(unit[k])
  IN  kept \o [i \in 1 .. size - Len(kept) |-> 0]

Rebuild(S, k, left, changed) ==
  IF input.mode = "core_rebuild" \/ changed
  THEN LET r == EncodeSorted(S, InputsSorted(k, left), sorted[k]) IN [r EXCEPT !.w = @ \o unit[k]]
  ELSE [s |-> S, w |-> sorted[k]]

\* A mutant: the variables of the problem are forgotten.
ResetObjectives(S) ==
  [S EXCEPT !.hard = {}, !.id = Total([k \in K |-> Len(objectives[k])])]

\* reset_id_count, in core_rebuild
Reset(S) ==
  [S EXCEPT !.hard = {}, !.id = nbVars + Total([k \in K |-> Len(objectives[k])])]

\* The main loop of optimise_core_guided, unless disjoint_cores found no core:
\* new inputs are merged or the
\* networks are built again
NewCores ==
  /\ Begun /\ nbVars # -1 /\ input.mode \in CoreModes
  /\ ~ (input.disjoint /\ rest = objectives)
  /\ \E new \in CoreChoices(rest) :
       /\ \E k \in K : new[k] # {}
       /\ rest' = [k \in K |-> Left(rest[k], new[k])]
       /\ LET Grow(S, k) ==
                IF input.mode = "core_merge"
                THEN MergeCoreGuided(S, Taken(rest[k], new[k]), sorted[k], unit[k])
                ELSE Rebuild(S, k, rest'[k], new[k] # {})
              all == ForEach(IF input.mode = "core_rebuild" THEN Reset(Enc) ELSE Enc, Grow)
          IN  Adopt(all.s) /\ sorted' = all.ws
  /\ UNCHANGED <<input, pc, pos, names, formula, objectives, unit, nbVars>>

NetNext == FrontEndStep \/ SortObjectives \/ DisjointCores \/ NewCores

NetSpec == NetInit /\ [][NetNext]_allVars

-----------------------------------------------------------------------------
\* the number of occurrences in vec of the variables of B
Count(vec, B) == Cardinality({i \in DOMAIN vec : vec[i] \in B})

\* the literals unit propagation derives from the clauses F: each round adds
\* the literals of the clauses whose other literals are false
Forced(F, L) == UNION {{l \in c : \A m \in c \ {l} : -m \in L} : c \in F}
Propagated(F) ==
  LET U == UNION F
      after[q \in (0 .. Cardinality(U)) \X SUBSET U] ==
        LET L == q[2] \cup Forced(F, q[2])
        IN  IF q[1] = 0 \/ L = q[2] THEN q[2] ELSE after[<<q[1] - 1, L>>]
  IN  after[<<Cardinality(U), {}>>]

(***************************************************************************)
(* The outputs of the networks of an objective are its inputs sorted: for  *)
(* all values of the variables, with the unit core variables true, the     *)
(* last outputs are true, as many as there are true inputs in the          *)
(* networks, and the others are false, and unit propagation alone finds    *)
(* that out.  So no input is lost or counted twice when networks of any    *)
(* sizes are merged (sorting_net.cpp:69, :173) or built again              *)
(* (encoding.cpp:978, :1149).                                              *)
(***************************************************************************)
OutputsSorted ==
  nbVars # -1 =>
    \A k \in K : \A B \in SUBSET Range(objectives[k]) :
      LET L == Propagated(encoding \cup {{IF v \in B THEN v ELSE -v} : v \in Range(objectives[k])})
          n == Len(sorted[k])
          true == Count(objectives[k], B) - Count(rest[k], B)
      IN  Range(unit[k]) \subseteq B =>
            /\ n = Len(objectives[k]) - Len(rest[k])
            /\ \A i \in 1 .. n : (IF i > n - true THEN sorted[k][i] ELSE -sorted[k][i]) \in L
=============================================================================
