---------------------------- MODULE MCCoreGuided ----------------------------
(***************************************************************************)
(* Three objectives with two inputs, one and one, and problems with at     *)
(* most two models.  A problem is given by the type of every input: which  *)
(* of the models make it true.  The two inputs of the first objective can  *)
(* be exchanged, and so can the other objectives: only problems with       *)
(* ordered types are taken.                                                *)
(***************************************************************************)
EXTENDS SoundModes

SmallOwner == [x \in Inputs |-> IF x < 2 THEN 0 ELSE x - 1]
Models == 1 .. 2
Rank(t) == (IF 1 \in t THEN 1 ELSE 0) + (IF 2 \in t THEN 2 ELSE 0)
InputTypes ==
  {u \in [Inputs -> SUBSET Models] : /\ Rank(u[0]) <= Rank(u[1])
                                     /\ Rank(u[2]) <= Rank(u[3])}
SmallProblems ==
  {{}} \cup {{{x \in Inputs : k \in t[x]} : k \in Models} : t \in InputTypes}

(* core_rebuild with disjoint cores counts some inputs twice: the README   *)
(* says where.  So does SoundConfigsAssumption of the proofs.              *)
SoundConfigs ==
  ({"core_static", "core_merge", "core_rebuild_incr"} \X BOOLEAN)
  \cup {<<"core_rebuild", FALSE>>}
=============================================================================
