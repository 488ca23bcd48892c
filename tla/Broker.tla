------------------------------- MODULE Broker -------------------------------
(***************************************************************************)
(* What a message broker promises for each message, without queues, time,  *)
(* groups, batches and dead-letter queues: it is accepted once under a     *)
(* number of its own, leased to one consumer at a time, and once it is     *)
(* gone it stays so.  Leases may end and messages may go at any moment; a  *)
(* broker may skip numbers.  SQS is shown to implement this, and so is     *)
(* every subscription of PubSub.                                           *)
(***************************************************************************)
EXTENDS Naturals

CONSTANT Numbers  \* 1 .. the largest

VARIABLES
    held,    \* the messages the broker has
    leases,  \* leases[n]: the handles under which n is with a consumer
    next     \* the number of the next message

vars == <<held, leases, next>>

Init ==
    /\ held = {}
    /\ leases = [n \in Numbers |-> {}]
    /\ next = 1

\* Leases end; a message that goes loses its own.
Ending ==
    /\ DOMAIN leases' = Numbers
    /\ \A n \in Numbers : leases'[n] \subseteq leases[n]
    /\ \A n \in Numbers \ held' : leases'[n] = {}

End ==
    /\ held' \subseteq held
    /\ Ending
    /\ next' \in {next, next + 1}

Accept ==
    /\ next \in Numbers \ held
    /\ next \in held'
    /\ held' \ {next} \subseteq held
    /\ Ending
    /\ next' = next + 1

\* Messages of N, which nobody has, go to a consumer each; others may end.
Lease(N) ==
    /\ N \subseteq held' /\ held' \subseteq held
    /\ DOMAIN leases' = Numbers
    /\ \A n \in N : leases[n] = {} /\ \E h \in leases'[n] : leases'[n] = {h}
    /\ \A n \in Numbers \ N : leases'[n] \subseteq leases[n]
    /\ \A n \in Numbers \ held' : leases'[n] = {}
    /\ UNCHANGED next

Next == End \/ Accept \/ \E N \in SUBSET Numbers : Lease(N)

Spec == Init /\ [][Next]_vars
=============================================================================
