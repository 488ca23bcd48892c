--------------------------- MODULE MCProvisioner ---------------------------
(***************************************************************************)
(* Instances of Provisioner for TLC.  Threads, stop calls and polls are    *)
(* interchangeable; symmetry is used for safety only.                      *)
(***************************************************************************)
EXTENDS Provisioner, TLC

Symmetry == Permutations(Threads) \cup Permutations(Stoppers)
=============================================================================
