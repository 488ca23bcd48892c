------------------------------- MODULE Azure -------------------------------
(***************************************************************************)
(* Virtual machines of the Azure provider: handle_arm and _arm_action of   *)
(* providers/azure_services.py, the hooks of core/azure_dataplane.py and   *)
(* the container functions of server.py.                                   *)
(*                                                                         *)
(* Requests run on the event loop and only PUT and PATCH wait, for their   *)
(* body: a request of a client is begun and, perhaps after others, stored. *)
(* A machine is a record of the space and a container on the host.  The    *)
(* record is found by its id in lower case; the container is named for the *)
(* id as the PUT that created the record spelled it.  The record's         *)
(* "runtime" property says which container it has and shows its status.    *)
(* It is a property like any other: a client that puts back what it got    *)
(* writes an old one over it.                                              *)
(*                                                                         *)
(* Left out: resources of other types (the same store and no container),   *)
(* several spaces, powerState (written beside the status), the rules of    *)
(* network security groups, and the CloudSim copy of a machine.  A new     *)
(* machine may be refused: by the cap on machines, which counts those of   *)
(* the active space and not of the one that gets it, the host budget, the  *)
(* free disk or the cap on sizes.                                          *)
(***************************************************************************)
EXTENDS Naturals

CONSTANTS
    VMs,        \* ids of machines, in lower case
    Spellings,  \* the ways to spell an id
    NoName,     \* of a runtime that names no container
    Clients,    \* clients, each with one request at a time
    Readers     \* those that may put back a runtime they got

ASSUME AzureAssumption == Readers \subseteq Clients /\ NoName \notin Spellings

VARIABLES
    vm,         \* the stored machines: id and runtime
    container,  \* container[k][s]: the one named for k as s spells it
    request,    \* what each client is sending
    suspect     \* containers last touched by one of the three that Matched names

vars == <<vm, container, request, suspect>>

Statuses == {"none", "running", "stopped"}
Runtimes == [status : {"none", "simulated", "launch_failed", "provisioned"},
             named : Spellings \cup {NoName}, shown : Statuses]
Blank == [status |-> "none", named |-> NoName, shown |-> "none"]
Idle == [method |-> "none"]
Requests == [method : {"PUT", "PATCH"}, vm : VMs, id : Spellings, body : Runtimes]

TypeOK ==
    /\ DOMAIN vm \subseteq VMs
    /\ \A k \in DOMAIN vm : vm[k] \in [id : Spellings, runtime : Runtimes]
    /\ container \in [VMs -> [Spellings -> Statuses]]
    /\ request \in [Clients -> {Idle} \cup Requests]
    /\ suspect \subseteq VMs \X Spellings

Init ==
    /\ vm = <<>>
    /\ container = [k \in VMs |-> [s \in Spellings |-> "none"]]
    /\ request = [c \in Clients |-> Idle]
    /\ suspect = {}

Stored == DOMAIN vm
Named(k) == IF k \in Stored THEN vm[k].runtime.named ELSE NoName
\* The simulator has a container to act on.
HasContainer(r) == r.named # NoName /\ r.status # "simulated"

-----------------------------------------------------------------------------
(* PUT and PATCH. *)

\* A client sends no runtime or the one it got.
Begin(c, method, k, s) ==
    /\ request[c] = Idle
    /\ \E b \in {Blank} \cup (IF c \in Readers /\ k \in Stored THEN {vm[k].runtime} ELSE {}) :
          request' = [request EXCEPT ![c] =
                         [method |-> method, vm |-> k, id |-> s, body |-> b]]
    /\ UNCHANGED <<vm, container, suspect>>

\* What a body leaves of a runtime: its own entries, the others kept.
Overlay(r, b) ==
    [status |-> IF b.status = "none" THEN r.status ELSE b.status,
     named |-> IF b.named = NoName THEN r.named ELSE b.named,
     shown |-> IF b.shown = "none" THEN r.shown ELSE b.shown]

\* A PUT starts from the defaults, a PATCH from what is stored.
Patches(q) == q.method = "PATCH" /\ q.vm \in Stored
Upserted(q) == Overlay(IF Patches(q) THEN vm[q.vm].runtime ELSE Blank, q.body)
IdOf(q) == IF Patches(q) THEN vm[q.vm].id ELSE q.id

\* Provisioning a machine of id s: a record that names a container is left as it
\* is; the container may exist, and a failed launch may leave one.
Launched(r, s, box) ==
    IF r.named # NoName THEN {[runtime |-> r, box |-> box, ended |-> "kept"]}
    ELSE {[runtime |-> [status |-> "provisioned", named |-> s, shown |-> "running"],
           box |-> "running", ended |-> "done"],
          [runtime |-> [status |-> "simulated", named |-> NoName, shown |-> r.shown],
           box |-> box, ended |-> "failed"]}
         \cup {[runtime |-> [status |-> "launch_failed", named |-> NoName, shown |-> r.shown],
                box |-> b, ended |-> "failed"] : b \in {box, "running", "stopped"}}

\* The runtime in the body is not the one it is written over.
Outdated(q) == q.body # Blank /\ (q.vm \notin Stored \/ q.body # vm[q.vm].runtime)

\* The container that the record named and names no more.
GivenUp(k, r) == {<<k, s>> : s \in (Spellings \ {r.named}) \cap {Named(k)}}

Store(c) ==
    LET q == request[c]
        k == q.vm
        s == IdOf(q)
    IN  /\ q # Idle
        /\ \E l \in Launched(Upserted(q), s, container[k][s]) :
              /\ vm' = [x \in Stored \cup {k} |->
                           IF x = k THEN [id |-> s, runtime |-> l.runtime] ELSE vm[x]]
              /\ container' = [container EXCEPT ![k][s] = l.box]
              /\ suspect' =
                    (suspect \ (IF l.ended = "done" THEN {<<k, s>>} ELSE {}))
                    \cup GivenUp(k, l.runtime)
                    \cup (IF l.ended = "failed" THEN {<<k, s>>} ELSE {})
                    \cup (IF l.ended = "kept" /\ Outdated(q) THEN {<<k, l.runtime.named>>}
                          ELSE {})
        /\ request' = [request EXCEPT ![c] = Idle]

Refuse(c) ==
    /\ request[c] # Idle /\ request[c].method = "PUT" /\ request[c].vm \notin Stored
    /\ request' = [request EXCEPT ![c] = Idle]
    /\ UNCHANGED <<vm, container, suspect>>

-----------------------------------------------------------------------------
(* DELETE and the power actions. *)

\* The failure of the removal is swallowed: the container is gone, stopped or as
\* it was.
Delete(k) ==
    LET r == vm[k].runtime
        s == r.named
    IN  /\ k \in Stored
        /\ \/ ~HasContainer(r) /\ UNCHANGED <<container, suspect>>
           \/ /\ HasContainer(r)
              /\ container' = [container EXCEPT ![k][s] = "none"]
              /\ suspect' = suspect \ {<<k, s>>}
           \/ /\ HasContainer(r) /\ container[k][s] # "none"
              /\ \E b \in {"stopped", container[k][s]} :
                    container' = [container EXCEPT ![k][s] = b]
              /\ suspect' = suspect \cup {<<k, s>>}
        /\ vm' = [x \in Stored \ {k} |-> vm[x]]
        /\ UNCHANGED request

\* Wrong on purpose: the status is shown whether or not the command was refused.
Wrong_Power(k, status) ==
    /\ k \in Stored
    /\ vm' = [vm EXCEPT ![k].runtime.shown = status]
    /\ \/ UNCHANGED container
       \/ HasContainer(vm[k].runtime) /\ container[k][vm[k].runtime.named] # "none"
          /\ container' = [container EXCEPT ![k][vm[k].runtime.named] = status]
    /\ UNCHANGED <<request, suspect>>

\* Without a container only the record changes.  A command is done, refused, or
\* done though it is reported as failed.
Power(k, status) ==
    LET r == vm[k].runtime
        s == r.named
        shows == vm' = [vm EXCEPT ![k].runtime.shown = status]
    IN  /\ k \in Stored
        /\ \/ ~HasContainer(r) /\ shows /\ UNCHANGED <<container, suspect>>
           \/ /\ HasContainer(r) /\ container[k][s] # "none"
              /\ container' = [container EXCEPT ![k][s] = status]
              /\ \/ shows /\ UNCHANGED suspect
                 \/ suspect' = suspect \cup {<<k, s>>} /\ UNCHANGED vm
        /\ UNCHANGED request

-----------------------------------------------------------------------------
Next ==
    \/ \E c \in Clients, k \in VMs, s \in Spellings, method \in {"PUT", "PATCH"} :
          Begin(c, method, k, s)
    \/ \E c \in Clients : Store(c) \/ Refuse(c)
    \/ \E k \in VMs : Delete(k) \/ \E status \in {"running", "stopped"} : Power(k, status)

Spec == Init /\ [][Next]_vars

-----------------------------------------------------------------------------
(* Properties. *)

\* The host has a container exactly while the record of its machine names it, and
\* the record shows its status: no sequence of creates, repeated creates, updates,
\* power actions and deletes leaves a container behind or a record that is wrong
\* about it.  Only three things do: a command that failed, a client that writes an
\* old runtime, and a PUT without a runtime that spells the id in another way than
\* the record's container.  The next launch or removal that succeeds mends it.
Matched ==
    \A k \in VMs, s \in Spellings :
        <<k, s>> \notin suspect =>
            container[k][s] = IF Named(k) = s THEN vm[k].runtime.shown ELSE "none"
=============================================================================
