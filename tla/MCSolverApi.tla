--------------------------- MODULE MCSolverApi ---------------------------
(***************************************************************************)
(* Three points and two objectives.  Every formula over the points is      *)
(* built, clause by clause, with the objectives before, between or after   *)
(* the clauses.  The order of the points does not matter to the code, but  *)
(* the costs tell them apart.                                              *)
(***************************************************************************)
EXTENDS SolverApi

SmallPoints == 1 .. 3
SmallCosts == {<<0, 1, 2>>, <<2, 1, 0>>, <<1, 1, 0>>}
Library == {[client |-> "library", approx |-> a, optimise |-> TRUE] :
              a \in {"gia", "mss", "mss_incr"}}
Main == {[client |-> "main", approx |-> a, optimise |-> FALSE] : a \in {"gia", "mss", "mss_incr"}}
        \cup {[client |-> "main", approx |-> "", optimise |-> TRUE]}
SmallConfigs == Library \cup Main
BlockedFirst == {[client |-> "main", approx |-> "mss_incr", optimise |-> TRUE]}
=============================================================================
