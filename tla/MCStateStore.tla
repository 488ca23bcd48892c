---------------------------- MODULE MCStateStore ----------------------------
(***************************************************************************)
(* Instances of StateStore for TLC.  Items, threads and keys are           *)
(* interchangeable; symmetry is used for safety only.                      *)
(***************************************************************************)
EXTENDS StateStore, TLC

Symmetry == Permutations(Threads) \cup Permutations(Items)
            \cup Permutations(Keys)
=============================================================================
