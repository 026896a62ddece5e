----------------------------- MODULE Iterations -----------------------------
(***************************************************************************)
(* Solver::optimise minimises the maxima one after the other.  What its    *)
(* algorithms with static sorting networks (NonCore) and with an ILP       *)
(* solver (Ilp) share: where they are and which maximum they minimise.     *)
(***************************************************************************)
EXTENDS LeximaxSpec

VARIABLES
  pc,   \* where optimise is: "start", "done", "exit" and the steps of the algorithm
  i     \* the maximum being minimised
=============================================================================
