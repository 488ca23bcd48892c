------------------------------- MODULE MCS3 -------------------------------
(***************************************************************************)
(* Instance of S3 for TLC.  Three mixes of requests: listings of a bucket  *)
(* with two keys, an upload, and two buckets.  The requests are alike.     *)
(***************************************************************************)
EXTENDS S3, TLC

CONSTANTS b1, b2, u1

MCLoads ==
    {[buckets |-> {b1}, keys |-> {1, 2}, uploads |-> {}, pages |-> {1}],
     [buckets |-> {b1}, keys |-> {1}, uploads |-> {u1}, pages |-> {}],
     [buckets |-> {b1, b2}, keys |-> {1}, uploads |-> {}, pages |-> {}]}

Symmetry == Permutations(Requests)
=============================================================================
