----------------------------- MODULE MCCompute -----------------------------
(***************************************************************************)
(* Instance of Compute for TLC.                                            *)
(***************************************************************************)
EXTENDS Compute, TLC

CONSTANTS ec2, gce, n1, n2, t1, t2

\* Every operation on one instance of either provider, two requests at a time;
\* an instance that is started again while it launches; an instance of either
\* provider with a restart of the simulator; the end of the space.
Mix(instances, threads, requests, ops) ==
    [instances |-> instances, threads |-> threads, requests |-> requests, ops |-> ops]
Ops == {"view", "stop", "reboot", "terminate"}
MCLoads == {Mix({ec2}, {n1}, {t1, t2}, Ops), Mix({gce}, {n1}, {t1, t2}, Ops),
            Mix({ec2}, {n1, n2}, {t1}, Ops),
            Mix({ec2}, {n1}, {t1}, Ops \cup {"restart"}),
            Mix({gce}, {n1}, {t1}, Ops \cup {"restart"}),
            Mix({ec2}, {n1}, {t1}, {"terminate", "delete", "restart"})}
=============================================================================
