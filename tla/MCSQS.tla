------------------------------- MODULE MCSQS -------------------------------
(***************************************************************************)
(* Instance of SQS for TLC: a FIFO queue and a standard queue, each the    *)
(* dead-letter queue of the other. The FIFO queue delays messages, the     *)
(* standard one may also have no redrive policy.                           *)
(***************************************************************************)
EXTENDS SQS, TLC

CONSTANTS fifo, plain

RedriveTo(q) ==
    [policy |-> [target |-> CHOOSE t \in Queues : t # q, max |-> 1],
     delay |-> IF q = fifo THEN 1 ELSE 0]

NoRedrive == [policy |-> NoPolicy, delay |-> 0]

MCConfigs ==
    [q \in Queues |-> {RedriveTo(q)} \cup IF q = plain THEN {NoRedrive} ELSE {}]
=============================================================================
