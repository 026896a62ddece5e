-------------------------------- MODULE Cnf --------------------------------
(***************************************************************************)
(* Clauses and the part of a leximaxIST::Solver that the encoders and the  *)
(* front end use: the hard clauses and the counter of variable ids, with   *)
(* add_hard_clause, update_id_count and fresh of src/src/setters.cpp.      *)
(*                                                                         *)
(* A literal is a non-zero integer, as in the source; 0 is lit_Undef.  A   *)
(* clause is the set of its literals.  A solver is a record                *)
(*   hard : the set of hard clauses,                                       *)
(*   id   : m_id_count, the largest variable id used so far,               *)
(*   end  : "" while the program runs, "abort" after a failed assert (the  *)
(*          release build keeps them), "exit" after exit(EXIT_FAILURE);    *)
(* and, since one Encoder serves every constraint of a file, with what the *)
(* encoders keep from one constraint to the next:                          *)
(*   modulo  : MTotalizer::modulo, -1 before the first use,                *)
(*   gte     : GTE::pb_oliterals, the output literal of each weight,       *)
(*   buckets : the number of Adder::_buckets (empty between two calls).    *)
(***************************************************************************)
EXTENDS Integers, Sequences, FiniteSets, FiniteSetsExt

CONSTANT IntMax   \* INT_MAX; an int64_t has twice as many bits as an int

ASSUME IntMaxAssumption == IntMax \in Nat /\ \E n \in 2 .. 63 : IntMax = 2 ^ n - 1

UIntMax == 2 * IntMax + 1

NoSolver == [hard |-> {}, id |-> 0, end |-> "",
             modulo |-> -1, gte |-> <<>>, buckets |-> 0]

AbsLit(l) == IF l < 0 THEN -l ELSE l
Vars(cs)  == {AbsLit(l) : l \in UNION cs}

\* add_hard_clause for every clause of cs: an empty clause ends the program
\* in add_clause, an undefined literal in the asserts of addUnitClause ...
Add(S, cs) ==
  IF S.end # "" THEN S
  ELSE IF \E c \in cs : 0 \in c THEN [S EXCEPT !.end = "abort"]
  ELSE IF {} \in cs THEN [S EXCEPT !.end = "exit"]
  ELSE [S EXCEPT !.hard = @ \cup cs, !.id = Max({@} \cup Vars(cs))]

\* k calls of fresh() return Fresh(S, k) and leave Skip(S, k)
Skip(S, k)  == [S EXCEPT !.id = @ + k]
Fresh(S, k) == [i \in 1 .. k |-> S.id + i]

\* a failed assert
Must(S, b) == IF S.end = "" /\ ~b THEN [S EXCEPT !.end = "abort"] ELSE S

-----------------------------------------------------------------------------
\* the literal l is true where exactly the variables of A are
Holds(A, l) == IF l > 0 THEN l \in A ELSE -l \notin A

\* the elements of a sequence at some positions
Taken(vec, positions) ==
  LET taken[i \in 0 .. Len(vec)] ==
        IF i = 0 THEN <<>> ELSE IF i \in positions THEN Append(taken[i - 1], vec[i]) ELSE taken[i - 1]
  IN  taken[Len(vec)]

\* the sum of a sequence of numbers
Total(s) == LET sum[i \in 0 .. Len(s)] == IF i = 0 THEN 0 ELSE sum[i - 1] + s[i] IN sum[Len(s)]
=============================================================================
