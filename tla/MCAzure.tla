------------------------------ MODULE MCAzure ------------------------------
(***************************************************************************)
(* Instance of Azure for TLC.                                              *)
(***************************************************************************)
EXTENDS Azure
=============================================================================
