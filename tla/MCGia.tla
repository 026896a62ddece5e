------------------------------- MODULE MCGia -------------------------------
(***************************************************************************)
(* The problems with one or two objective vectors whose entries are at     *)
(* most 2, those with <<2, 1, 2>> and two more of them, and those with a   *)
(* permutation of <<3, 2, 1>> or <<3, 1, 0>> and one with other entries.   *)
(* gia tells the objectives apart (fix_previous_max fixes those with the   *)
(* smallest indices), so problems are not taken up to permutation.         *)
(***************************************************************************)
EXTENDS Gia

Small == [Obj -> 0 .. 2]
Distinct == {v \in Vector : {v[j] : j \in Obj} \in {{1, 2, 3}, {0, 1, 3}}}
Tied == [j \in Obj |-> IF j = 1 THEN 1 ELSE 2]
SmallFormulas ==
  {{}} \cup {{u, v} : u, v \in Small}
       \cup {{Tied, u, v} : u, v \in Small}
       \cup {{u, v} : u \in Distinct, v \in [Obj -> {0, 2, 3}]}
=============================================================================
