------------------------------ MODULE MCSpaces ------------------------------
(***************************************************************************)
(* Instances of Spaces for TLC.  Threads, ids and resources are            *)
(* interchangeable; symmetry is used for safety only.                      *)
(***************************************************************************)
EXTENDS Spaces, TLC

CONSTANTS i1

\* Spaces come and go; a stored one is used, paused, switched and pushed;
\* a stored one is deleted while it is switched to and used.
MCLoads ==
    {[ops |-> {"create", "switch", "delete"}, initial |-> {}],
     [ops |-> {"create", "use"}, initial |-> {}],
     [ops |-> {"switch", "delete", "use"}, initial |-> {i1}],
     [ops |-> {"switch", "pause", "resume", "archive", "use", "tenant",
               "rehydrate"}, initial |-> {i1}]}

MCIsolation == {[ops |-> {"create", "use"}, initial |-> {}]}

Symmetry == Permutations(Threads) \cup Permutations(Ids \ {i1})
            \cup Permutations(Resources)
=============================================================================
