------------------------------- MODULE MCMss -------------------------------
(***************************************************************************)
(* Two objectives with two inputs each, and problems with at most three    *)
(* models.  A problem is given by the type of every input: which of the    *)
(* models make it true.  The inputs of an objective can be exchanged, and  *)
(* so can the models: only problems with ordered types are taken.  The     *)
(* limit on the number of MSSes and the incremental solver are combined    *)
(* with one choice of the other options.                                   *)
(***************************************************************************)
EXTENDS Mss

SmallOwner == [x \in Inputs |-> x \div 2]
Models == 1 .. 3
Rank(t) == (IF 1 \in t THEN 1 ELSE 0) + (IF 2 \in t THEN 2 ELSE 0) + (IF 3 \in t THEN 4 ELSE 0)
Types ==
  {u \in [Inputs -> SUBSET Models] : /\ Rank(u[0]) <= Rank(u[1])
                                    /\ Rank(u[2]) <= Rank(u[3])}
SmallProblems == {{}} \cup {{{x \in Inputs : k \in t[x]} : k \in Models} : t \in Types}

Options(incr, add, tolerances, limit) ==
  {[incr |-> incr, add_cls |-> add, tolerance |-> t, nb_limit |-> limit] : t \in tolerances}
SmallOptions ==
  UNION {Options(FALSE, a, {0, 60}, 0) : a \in 0 .. 2}
  \cup Options(FALSE, 1, {60}, 1) \cup Options(TRUE, 1, {0}, 0)
=============================================================================
