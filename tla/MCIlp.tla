------------------------------- MODULE MCIlp -------------------------------
(***************************************************************************)
(* The problems with at most three objective vectors.  The constraints     *)
(* look at the objectives only through counts and the largest value, so    *)
(* one vector of every permutation class is enough; the ascending one is   *)
(* taken, in which entry i is not the ith maximum.                         *)
(***************************************************************************)
EXTENDS Ilp

Ascending == {v \in Vector : \A j \in 0 .. N-2 : v[j] <= v[j+1]}
SmallFormulas == {{}} \cup {{u, v, w} : u, v, w \in Ascending}
=============================================================================
