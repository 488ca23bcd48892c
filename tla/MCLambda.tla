------------------------------ MODULE MCLambda ------------------------------
(***************************************************************************)
(* Instance of Lambda for TLC.                                             *)
(***************************************************************************)
EXTENDS Lambda
=============================================================================
