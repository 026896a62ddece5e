--------------------------- MODULE Satisfiability ---------------------------
(***************************************************************************)
(* Satisfiability of a set of clauses, for stating what an encoding must   *)
(* preserve: unit propagation, then a case split on one literal.  A set    *)
(* whose clauses all contain a negative literal is satisfied by making     *)
(* every variable false.                                                   *)
(***************************************************************************)
EXTENDS Cnf

RECURSIVE Propagate(_)
Propagate(F) ==
  LET units == UNION {c \in F : Cardinality(c) = 1}
  IN  IF {} \in F \/ \E l \in units : -l \in units THEN {{}}
      ELSE IF units = {} THEN F
      ELSE Propagate({c \ {-l : l \in units} : c \in {d \in F : d \cap units = {}}})

RECURSIVE Sat(_)
Sat(F) ==
  LET G == Propagate(F)
  IN  /\ {} \notin G
      /\ \/ \A c \in G : \E l \in c : l < 0
         \/ LET l == CHOOSE l \in UNION G : TRUE
            IN  Sat(G \cup {{l}}) \/ Sat(G \cup {{-l}})
=============================================================================
