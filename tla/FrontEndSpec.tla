---------------------------- MODULE FrontEndSpec ----------------------------
(***************************************************************************)
(* What the front end and the networks promise together with the encodings *)
(* of the program: the clauses of the solver, the encodings' and the       *)
(* networks' included, have the solutions of the file, and the objectives  *)
(* keep their values, up to a constant each.                               *)
(***************************************************************************)
EXTENDS Networks, PBEncodings, Satisfiability

ASSUME NamesAssumption == \A in \in Inputs : in.pb \in PBNames /\ in.card \in CardNames

Assigned(A) == {{IF v \in A THEN v ELSE -v} : v \in LinesVars}
Encoded == {A \in SUBSET LinesVars : Sat(solver.hard \cup Assigned(A))}

\* the values of the objectives of the file
Objectives ==
  IF input.format = "opb" THEN [k \in 1 .. Cardinality(Lines({"min", "max"})) |->
                                  SetToSortSeq(Lines({"min", "max"}), <)[k]]
  ELSE [k \in 1 .. Max({0} \cup {input.file[i].idx : i \in Lines({"o"})}) |-> k]
FileValue(k, A) ==
  IF input.format = "opb"
  THEN LET line == input.file[Objectives[k]]
       IN  (IF line.op = "min" THEN 1 ELSE -1) * Weight(line.terms, A)
  ELSE FoldSet(LAMBDA i, acc : acc + (IF SomeTrue(input.file[i].lits, A) THEN 0 ELSE input.file[i].weight),
               0, {i \in Lines({"o"}) : input.file[i].idx = k})

\* PBObjFunction::_const, which main does not give to the solver
Constant(k) == IF input.format = "opb" THEN formula.objs[k].const ELSE 0

Avoidable(A, v) == Sat(solver.hard \cup Assigned(A) \cup {{-v}})
LeastValue(A, k) == Cardinality({i \in DOMAIN objectives[k] : ~Avoidable(A, objectives[k][i])})

\* the objective variables that a solution of the file need not make true
Avoided(A) == {{-v} : v \in {u \in UNION {ToSet(objectives[k]) : k \in DOMAIN objectives} : Avoidable(A, u)}}

Finished == pc = "done" /\ solver.end = ""

(***************************************************************************)
(* Every solution of the clauses given to the solver satisfies the file:   *)
(* no encoding is too weak, whatever was encoded before it.                *)
(***************************************************************************)
ConstraintsKept == Finished => Encoded \subseteq Solutions

(***************************************************************************)
(* Every solution of the file can be extended to the variables of the      *)
(* encodings: no encoding, and no id that fresh() returns, excludes one.   *)
(***************************************************************************)
NothingExcluded == Finished => Solutions \subseteq Encoded

(***************************************************************************)
(* For every solution of the file the least values that the objectives of  *)
(* the solver can take are those of the file less the constant of the      *)
(* objective, the same for every solution, and they can be taken together  *)
(* (setters.cpp:270-309, main.cpp:103-113).  The constant is the sum of    *)
(* the negative coefficients after a maximisation is turned around         *)
(* (FormulaPB.h:262): objectives with different constants are not compared *)
(* with each other as the file says.                                       *)
(***************************************************************************)
ObjectivesKept ==
  Finished =>
    \A A \in Solutions :
      /\ \A k \in DOMAIN Objectives : LeastValue(A, k) + Constant(k) = FileValue(k, A)
      /\ \A k \in (DOMAIN objectives) \ (DOMAIN Objectives) : objectives[k] = <<>>
      /\ Sat(solver.hard \cup Assigned(A) \cup Avoided(A))

(***************************************************************************)
(* The program does not end early on a file that has a solution and whose  *)
(* numbers fit the encoders.                                               *)
(***************************************************************************)
StopsJustified == (solver.end # "" /\ NumbersFit) => (Solutions = {} \/ input.pb = "igte")

(***************************************************************************)
(* The networks restrict nothing: with them every solution of the file     *)
(* still has its least values of the objectives, also when the ids of      *)
(* deleted networks are used again (reset_id_count, setters.cpp:211).      *)
(***************************************************************************)
NetworksExtend ==
  nbVars # -1 => \A A \in Solutions : Sat(solver.hard \cup encoding \cup Assigned(A) \cup Avoided(A))
=============================================================================
