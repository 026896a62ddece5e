----------------------------- MODULE MCNonCore -----------------------------
(***************************************************************************)
(* The problems with at most two objective vectors, and those with three   *)
(* whose entries are at most 2.  The algorithm and the order look at the   *)
(* objectives only through counts, so one vector of every permutation      *)
(* class is enough: the descending one.                                    *)
(***************************************************************************)
EXTENDS NonCore

Descending(k) == {v \in [Obj -> 0 .. k] : \A j \in 0 .. N-2 : v[j] >= v[j+1]}
SmallFormulas ==
  {{}} \cup {{u, v} : u, v \in Descending(Size)}
       \cup {{u, v, w} : u, v, w \in Descending(2)}
=============================================================================
