---------------------------- MODULE LeximaxSpec ----------------------------
(***************************************************************************)
(* What the library promises to its caller, whatever the algorithm: while  *)
(* it runs it holds a solution of the problem that only ever gets better,  *)
(* and the verdicts it reports are true.                                   *)
(***************************************************************************)
EXTENDS Leximax

CONSTANTS
  Formulas,   \* the problems: sets of the objective vectors of the models
  NoVector    \* no solution is held (m_solution is empty)

ASSUME FormulasAssumption == Formulas \subseteq SUBSET Vector
ASSUME NoVectorAssumption == NoVector \notin Vector

VARIABLES
  feasible,   \* the objective vectors of the models of the hard clauses
  status,     \* m_status: '?', 's', 'u' or 'o'
  best        \* objective vector of m_solution, or NoVector

svars == <<feasible, status, best>>

SpecTypeOK ==
  /\ feasible \subseteq Vector
  /\ status \in {"?", "s", "u", "o"}
  /\ best \in Vector \cup {NoVector}

SpecInit ==
  /\ feasible \in Formulas
  /\ status = "?"
  /\ best = NoVector

(* The first call of the SAT solver decides whether there is a solution.   *)
Refute ==
  /\ status = "?" /\ feasible = {}
  /\ status' = "u"
  /\ UNCHANGED <<feasible, best>>

Find ==
  /\ status = "?"
  /\ status' = "s"
  /\ best' \in feasible
  /\ UNCHANGED feasible

Improve ==
  /\ status = "s"
  /\ best' \in feasible
  /\ Better(best', best)
  /\ UNCHANGED <<feasible, status>>

Conclude ==
  /\ status = "s" /\ Optimal(best, feasible)
  /\ status' = "o"
  /\ UNCHANGED <<feasible, best>>

SpecNext == Refute \/ Find \/ Improve \/ Conclude

AbstractSpec == SpecInit /\ [][SpecNext]_svars
=============================================================================
