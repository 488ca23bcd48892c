------------------------------ MODULE MCPubSub ------------------------------
(***************************************************************************)
(* Instance of PubSub for TLC.                                             *)
(***************************************************************************)
EXTENDS PubSub
=============================================================================
