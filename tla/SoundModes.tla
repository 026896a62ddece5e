----------------------------- MODULE SoundModes -----------------------------
(***************************************************************************)
(* The core-guided modes that are correct.  core-merge (the default of the *)
(* constructor) sorts no new inputs, and core_rebuild with disjoint cores  *)
(* counts some inputs twice: MCCoreTrade shows what comes of it.           *)
(***************************************************************************)
EXTENDS CoreGuided

ASSUME SoundConfigsAssumption ==
  \A c \in Configs : c[1] # "core-merge" /\ (c[1] = "core_rebuild" => ~ c[2])
=============================================================================
