---------------------------- MODULE MCCoreTrade ------------------------------
(***************************************************************************)
(* Two objectives, with the inputs 0 to 2 and 3 to 7.  The inputs 0 and 1  *)
(* are true in all models, of which there are three, with the objective    *)
(* vectors (2, 4), (2, 4) and (3, 3); the last is the optimum.             *)
(***************************************************************************)
EXTENDS CoreGuided

TradeOwner == [x \in Inputs |-> IF x < 3 THEN 0 ELSE 1]
TradeProblems == {{{0, 1} \cup S : S \in {3 .. 6, {3, 4, 5, 7}, {2, 3, 4, 7}}}}

(* What a new Solver is set to. *)
DefaultConfig == {<<"core-merge", TRUE>>}
=============================================================================
