------------------------------- MODULE Spaces -------------------------------
(***************************************************************************)
(* Simulation spaces: the map state["spaces"] of the Python process and    *)
(* its copy in the CloudSim engine (core/cloudlearn_platform.py, kernel    *)
(* and platform layers; routes/spaces.py; the per-space resource proxy of  *)
(* core/app_context.py).                                                   *)
(*                                                                         *)
(* The handlers run on a thread pool and share the map without a lock.  A  *)
(* thread executes one operation at a time; a lookup, each write to the    *)
(* map or to active_space_id, and every call to the engine is a step of    *)
(* its own.  A statement that reads and writes one of them is one step,    *)
(* with the persist() that follows it.                                     *)
(*                                                                         *)
(* Left out: the provider of a space (one provider), the memory and disk   *)
(* estimates, names and timestamps, the space policy, the engine's own     *)
(* active space and its capacity figures.  The id of an auto-created space *)
(* is a fresh uuid; a client may choose the id of the one it creates.      *)
(***************************************************************************)
EXTENDS Naturals, FiniteSets

CONSTANTS
    Threads,    \* concurrent requests
    Ids,        \* every space id a behaviour may mint
    Tenants,
    Default,    \* DEFAULT_TENANT_ID
    Resources,  \* every resource a behaviour may create, each at most once
    NoSpace,    \* active_space_id = ""
    NoTenant,   \* no tenant_id on the space
    MaxSpaces,  \* settings["max_spaces"], the kernel's cap
    TenantMax,  \* the tier's max_spaces for one tenant
    Loads,      \* bound: [ops, initial], what the requests of one behaviour
                \* ask for, and the spaces an earlier run stored
    Faults,     \* whether the engine may fail, time out or lose its state
    Crashes     \* whether the simulator may restart

ASSUME ThreadsAssumption == IsFiniteSet(Threads) /\ Threads # {}
ASSUME IdsAssumption ==
    /\ IsFiniteSet(Ids)
    /\ NoSpace \notin Ids
ASSUME TenantsAssumption == Default \in Tenants /\ NoTenant \notin Tenants
ASSUME CapsAssumption == MaxSpaces \in Nat \ {0} /\ TenantMax \in Nat
ASSUME SwitchesAssumption == Faults \in BOOLEAN /\ Crashes \in BOOLEAN
ASSUME LoadsAssumption ==
    /\ Loads \subseteq
          [ops : SUBSET {"create", "switch", "pause", "resume", "archive",
                         "delete", "use", "tenant", "rehydrate"},
           initial : SUBSET Ids]
    /\ \A l \in Loads : Cardinality(l.initial) <= MaxSpaces

VARIABLES
    load,     \* the one of Loads the behaviour is about
    live,     \* the keys of state["spaces"]["spaces"]
    space,    \* space[i]: the dictionary stored under a live i
    active,   \* active_space_id
    remote,   \* remote[i]: the engine's status of i, or "none"
    legacy,   \* resources stored outside every space
    pc,       \* pc[t]: where the request of t is
    sid,      \* sid[t]: the space it works on
    tid,      \* tid[t]: the tenant a create is for
    copy,     \* copy[t]: the deep copy the kernel returned to it
    answer,   \* answer[t]: the status it asks of the engine or got from it
    todo,     \* todo[t]: spaces a rehydrate still has to push
    owners,   \* history: the tenants that asked for i
    auto,     \* the ids with auto_created
    creator,  \* history: the tenant whose resource r is, NoTenant before that
    promised  \* history: promised[i], the resources acknowledged in i

local == <<live, space, active, legacy>>
history == <<owners, auto, creator, promised>>
vars == <<load, live, space, active, remote, legacy, pc, sid, tid, copy,
          answer, todo, owners, auto, creator, promised>>

Status == {"running", "paused", "archived"}
Space == [tenant : Tenants \cup {NoTenant}, status : Status,
          res : SUBSET Resources]
Creating == {"insert", "activate", "post", "writeback", "tag"}
Switching == {"select", "switching", "merge", "sync"}
Deleting == {"pop", "reset", "redelete"}
Labels == {"idle", "kernel", "restatus", "push", "synchronized"} \cup Deleting
          \cup Creating \cup Switching

TypeOK ==
    /\ load \in Loads
    /\ live \subseteq Ids
    /\ space \in [Ids -> Space]
    /\ active \in Ids \cup {NoSpace}
    /\ remote \in [Ids -> Status \cup {"none"}]
    /\ legacy \subseteq Resources
    /\ pc \in [Threads -> Labels]
    /\ sid \in [Threads -> Ids \cup {NoSpace}]
    /\ tid \in [Threads -> Tenants]
    /\ copy \in [Threads -> Space]
    /\ answer \in [Threads -> Status]
    /\ todo \in [Threads -> SUBSET Ids]
    /\ owners \in [Ids -> SUBSET Tenants]
    /\ auto \subseteq Ids
    /\ creator \in [Resources -> Tenants \cup {NoTenant}]
    /\ promised \in [Ids -> SUBSET Resources]

\* What kernel.create_space stores: running, no resources, not yet tagged.
NewSpace == [tenant |-> NoTenant, status |-> "running", res |-> {}]

\* space.get("tenant_id") or DEFAULT_TENANT_ID.
TagOf(i) == IF space[i].tenant = NoTenant THEN Default ELSE space[i].tenant

\* A tenant's spaces, as the quota check and the tenant filter count them.
SpacesOf(tenant) == {i \in live : TagOf(i) = tenant}

\* The ids a uuid may still be.
Fresh == {i \in Ids : owners[i] = {}}

\* A create of i is between its insertion and its write-back.
Underway(i) ==
    \E t \in Threads : sid[t] = i /\ pc[t] \in {"activate", "post", "writeback"}

(***************************************************************************)
(* A new installation, or the state an earlier run persisted: tagged       *)
(* spaces, which the engine may have forgotten.                            *)
(***************************************************************************)
Init ==
    /\ load \in Loads
    /\ live = load.initial
    /\ \E tag \in [Ids -> Tenants] :
          /\ owners = [i \in Ids |-> IF i \in live THEN {tag[i]} ELSE {}]
          /\ space = [i \in Ids |-> IF i \in live
                                    THEN [NewSpace EXCEPT !.tenant = tag[i]]
                                    ELSE NewSpace]
    /\ active \in (IF live = {} THEN {NoSpace} ELSE live)
    /\ remote \in {e \in [Ids -> {"none", "running"}] :
                      \A i \in Ids : e[i] = "running" => i \in live}
    /\ legacy = {}
    /\ pc = [t \in Threads |-> "idle"]
    /\ sid = [t \in Threads |-> NoSpace]
    /\ tid = [t \in Threads |-> Default]
    /\ copy = [t \in Threads |-> NewSpace]
    /\ answer = [t \in Threads |-> "running"]
    /\ todo = [t \in Threads |-> {}]
    /\ auto = {}
    /\ creator = [r \in Resources |-> NoTenant]
    /\ promised = [i \in Ids |-> {}]

Goto(t, label) == pc' = [pc EXCEPT ![t] = label]

\* The request is answered; the thread keeps nothing of it.
Done(t) ==
    /\ Goto(t, "idle")
    /\ sid' = [sid EXCEPT ![t] = NoSpace]
    /\ tid' = [tid EXCEPT ![t] = Default]
    /\ copy' = [copy EXCEPT ![t] = NewSpace]
    /\ answer' = [answer EXCEPT ![t] = "running"]
    /\ todo' = [todo EXCEPT ![t] = {}]

\* A request for an operation of this run arrives at an idle thread.
Arrives(t, op) == pc[t] = "idle" /\ op \in load.ops

(***************************************************************************)
(* POST /api/spaces: the tenant's quota, then the kernel's cap, then the   *)
(* insertion, then the engine, then the write-back of the copy, and last   *)
(* the tenant tag.                                                         *)
(***************************************************************************)
CreateCheck(t) ==
    /\ Arrives(t, "create")
    /\ \E tenant \in Tenants :
          /\ Cardinality(SpacesOf(tenant)) < TenantMax
          /\ tid' = [tid EXCEPT ![t] = tenant]
    /\ Goto(t, "kernel")
    /\ UNCHANGED <<local, remote, sid, copy, answer, todo, history>>

\* Wrong on purpose: the cap is compared with > instead of >=.
Wrong_KernelCheck(t) ==
    /\ pc[t] = "kernel"
    /\ Cardinality(live) <= MaxSpaces
    /\ \E i \in Ids :
          /\ sid' = [sid EXCEPT ![t] = i]
          /\ owners' = [owners EXCEPT ![i] = @ \cup {tid[t]}]
          /\ auto' = auto \ {i}
    /\ Goto(t, "insert")
    /\ UNCHANGED <<local, remote, tid, copy, answer, todo, creator, promised>>

\* The id is a new uuid or, in spec["space_id"], any id the client names.
KernelCheck(t) ==
    /\ pc[t] = "kernel"
    /\ Cardinality(live) < MaxSpaces
    /\ \E i \in Ids :
          /\ sid' = [sid EXCEPT ![t] = i]
          /\ owners' = [owners EXCEPT ![i] = @ \cup {tid[t]}]
          /\ auto' = auto \ {i}
    /\ Goto(t, "insert")
    /\ UNCHANGED <<local, remote, tid, copy, answer, todo, creator, promised>>

\* "Maximum simulation space limit reached".
KernelRefuses(t) ==
    /\ pc[t] = "kernel"
    /\ Cardinality(live) >= MaxSpaces
    /\ Done(t)
    /\ UNCHANGED <<local, remote, history>>

\* spaces[space_id] = space, whatever was stored under that id.
Insert(t) ==
    /\ pc[t] = "insert"
    /\ live' = live \cup {sid[t]}
    /\ space' = [space EXCEPT ![sid[t]] = NewSpace]
    /\ promised' = [promised EXCEPT ![sid[t]] = {}]
    /\ copy' = [copy EXCEPT ![t] = NewSpace]
    /\ Goto(t, "activate")
    /\ UNCHANGED <<active, legacy, remote, sid, tid, answer, todo, owners, auto,
                   creator>>

\* The copy is of the dictionary that was inserted, which another request
\* may have deleted or replaced in the map meanwhile.
Activate(t) ==
    /\ pc[t] = "activate"
    /\ active' = IF active = NoSpace THEN sid[t] ELSE active
    /\ copy' \in {copy} \cup
                 {[copy EXCEPT ![t] = space[i]] : i \in {sid[t]} \cap live}
    /\ Goto(t, "post")
    /\ UNCHANGED <<live, space, legacy, remote, sid, tid, answer, todo,
                   history>>

\* The engine is told; its answer arrives, or the exception is swallowed.
RemoteCreate(t) ==
    /\ pc[t] = "post"
    /\ \/ /\ remote' = [remote EXCEPT ![sid[t]] = copy[t].status]
          /\ Goto(t, "writeback")
       \/ /\ Faults
          /\ remote' \in {remote,
                           [remote EXCEPT ![sid[t]] = copy[t].status]}
          /\ Goto(t, "tag")
    /\ UNCHANGED <<local, sid, tid, copy, answer, todo, history>>

\* spaces[space_id] = space, with the copy made before the call.
WriteBack(t) ==
    /\ pc[t] = "writeback"
    /\ live' = live \cup {sid[t]}
    /\ space' = [space EXCEPT ![sid[t]] = copy[t]]
    /\ Goto(t, "tag")
    /\ UNCHANGED <<active, legacy, remote, sid, tid, copy, answer, todo,
                    history>>

\* Wrong on purpose: the tenant that is active by now is tagged.
Wrong_Tag(t) ==
    /\ pc[t] = "tag"
    /\ \E tenant \in Tenants :
          space' = IF sid[t] \in live
                   THEN [space EXCEPT ![sid[t]].tenant = tenant]
                   ELSE space
    /\ Done(t)
    /\ UNCHANGED <<live, active, legacy, remote, history>>

Tag(t) ==
    /\ pc[t] = "tag"
    /\ space' = IF sid[t] \in live
                THEN [space EXCEPT ![sid[t]].tenant = tid[t]]
                ELSE space
    /\ Done(t)
    /\ UNCHANGED <<live, active, legacy, remote, history>>

(***************************************************************************)
(* POST /api/spaces/{id}/switch: _require_tenant_space and the kernel's    *)
(* lookup, the engine's switch, the merge of its answer, sync_counts.      *)
(***************************************************************************)
SwitchBegin(t) ==
    /\ Arrives(t, "switch")
    /\ \E i \in live :
          /\ sid' = [sid EXCEPT ![t] = i]
          /\ copy' = [copy EXCEPT ![t] = space[i]]
    /\ Goto(t, "select")
    /\ UNCHANGED <<local, remote, tid, answer, todo, history>>

\* The space is made the active one, stored or not by now, and copied.
SwitchSelect(t) ==
    /\ pc[t] = "select"
    /\ active' = sid[t]
    /\ copy' = IF sid[t] \in live THEN [copy EXCEPT ![t] = space[sid[t]]]
               ELSE copy
    /\ Goto(t, "switching")
    /\ UNCHANGED <<live, space, legacy, remote, sid, tid, answer, todo, history>>

\* An unknown space answers 4xx, which the bridge turns into no space.
RemoteSwitch(t) ==
    /\ pc[t] = "switching"
    /\ \/ /\ remote[sid[t]] # "none"
          /\ answer' = [answer EXCEPT ![t] = remote[sid[t]]]
          /\ Goto(t, "merge")
          /\ UNCHANGED <<sid, tid, copy, todo>>
       \/ /\ Faults \/ remote[sid[t]] = "none"
          /\ Done(t)
    /\ UNCHANGED <<local, remote, history>>

\* Wrong on purpose: the engine's answer replaces service_states too.
Wrong_Merge(t) ==
    /\ pc[t] = "merge"
    /\ live' = live \cup {sid[t]}
    /\ LET found == IF sid[t] \in live THEN space[sid[t]] ELSE copy[t] IN
       space' = [space EXCEPT ![sid[t]] =
                    [found EXCEPT !.status = answer[t], !.res = {}]]
    /\ Goto(t, "sync")
    /\ UNCHANGED <<active, legacy, remote, sid, tid, copy, answer, todo,
                    history>>

\* {**local, **remote_space} with the local service_states kept; the copy
\* stands in for a space that is gone.
Merge(t) ==
    /\ pc[t] = "merge"
    /\ live' = live \cup {sid[t]}
    /\ LET found == IF sid[t] \in live THEN space[sid[t]] ELSE copy[t] IN
       space' = [space EXCEPT ![sid[t]] =
                    [found EXCEPT !.status = answer[t]]]
    /\ Goto(t, "sync")
    /\ UNCHANGED <<active, legacy, remote, sid, tid, copy, answer, todo,
                    history>>

\* Upserts the counts, not the status: a space the engine had forgotten
\* comes back running.
SyncCounts(t) ==
    /\ pc[t] = "sync"
    /\ \/ /\ sid[t] \in live
          /\ remote[sid[t]] = "none"
          /\ remote' = [remote EXCEPT ![sid[t]] = "running"]
       \/ /\ Faults \/ sid[t] \notin live \/ remote[sid[t]] # "none"
          /\ UNCHANGED remote
    /\ Done(t)
    /\ UNCHANGED <<local, history>>

(***************************************************************************)
(* POST /api/spaces/{id}/pause, resume and archive: the status is set      *)
(* here, then asked of the engine, whose refusal is swallowed.             *)
(***************************************************************************)
Asked == {s \in Status : \/ s = "paused" /\ "pause" \in load.ops
                         \/ s = "running" /\ "resume" \in load.ops
                         \/ s = "archived" /\ "archive" \in load.ops}

SetStatus(t) ==
    /\ pc[t] = "idle"
    /\ \E i \in live, s \in Asked :
          /\ space' = [space EXCEPT ![i].status = s]
          /\ sid' = [sid EXCEPT ![t] = i]
          /\ answer' = [answer EXCEPT ![t] = s]
    /\ Goto(t, "restatus")
    /\ UNCHANGED <<live, active, legacy, remote, tid, copy, todo, history>>

RemoteStatus(t) ==
    /\ pc[t] = "restatus"
    /\ \/ /\ remote[sid[t]] # "none"
          /\ remote' = [remote EXCEPT ![sid[t]] = answer[t]]
       \/ /\ Faults \/ remote[sid[t]] = "none"
          /\ UNCHANGED remote
    /\ Done(t)
    /\ UNCHANGED <<local, history>>

(***************************************************************************)
(* DELETE /api/spaces/{id}: the lookup, the pop, and the reset that makes  *)
(* some remaining space the active one.                                    *)
(***************************************************************************)
DeleteBegin(t) ==
    /\ Arrives(t, "delete")
    /\ \E i \in live : sid' = [sid EXCEPT ![t] = i]
    /\ Goto(t, "pop")
    /\ UNCHANGED <<local, remote, tid, copy, answer, todo, history>>

Pop(t) ==
    /\ pc[t] = "pop"
    /\ live' = live \ {sid[t]}
    /\ space' = [space EXCEPT ![sid[t]] = NewSpace]
    /\ promised' = [promised EXCEPT ![sid[t]] = {}]
    /\ Goto(t, "reset")
    /\ UNCHANGED <<active, legacy, remote, sid, tid, copy, answer, todo, owners,
                   auto, creator>>

Reset(t) ==
    /\ pc[t] = "reset"
    /\ \/ active # sid[t] /\ UNCHANGED active
       \/ active = sid[t] /\ active' \in live
       \/ active = sid[t] /\ live = {} /\ active' = NoSpace
    /\ Goto(t, "redelete")
    /\ UNCHANGED <<live, space, legacy, remote, sid, tid, copy, answer, todo,
                   history>>

RemoteDelete(t) ==
    /\ pc[t] = "redelete"
    /\ \/ remote' = [remote EXCEPT ![sid[t]] = "none"]
       \/ Faults /\ UNCHANGED remote
    /\ Done(t)
    /\ UNCHANGED <<local, history>>

(***************************************************************************)
(* A service call of a tenant creates a resource: in the active space when *)
(* that is the tenant's, else in any space of the tenant's, else in a new  *)
(* one; with no active space at all, in the deployment-wide dictionary.    *)
(***************************************************************************)
Store(tenant, r, i) ==
    /\ creator' = [creator EXCEPT ![r] = tenant]
    /\ space' = [space EXCEPT ![i].res = @ \cup {r}]
    /\ promised' = IF Underway(i) THEN promised
                   ELSE [promised EXCEPT ![i] = @ \cup {r}]
    /\ UNCHANGED <<live, active, legacy, owners, auto>>

StoreActive(tenant, r) ==
    /\ active \in live
    /\ TagOf(active) = tenant
    /\ Store(tenant, r, active)

StoreElsewhere(tenant, r) ==
    /\ active \in live
    /\ TagOf(active) # tenant
    /\ \E i \in SpacesOf(tenant) : Store(tenant, r, i)

\* The auto-created space passes neither the quota nor the cap.
StoreInNewSpace(tenant, r) ==
    /\ active \in live
    /\ SpacesOf(tenant) = {}
    /\ \E i \in Fresh :
          /\ live' = live \cup {i}
          /\ space' = [space EXCEPT ![i] =
                          [tenant |-> tenant, status |-> "running",
                           res |-> {r}]]
          /\ auto' = auto \cup {i}
          /\ owners' = [owners EXCEPT ![i] = {tenant}]
          /\ promised' = [promised EXCEPT ![i] = {r}]
    /\ creator' = [creator EXCEPT ![r] = tenant]
    /\ UNCHANGED <<active, legacy>>

StoreOutside(tenant, r) ==
    /\ active \notin live
    /\ legacy' = legacy \cup {r}
    /\ creator' = [creator EXCEPT ![r] = tenant]
    /\ UNCHANGED <<live, space, active, owners, auto, promised>>

\* Wrong on purpose: the tenant of the active space is not compared.
Wrong_Use(t) ==
    /\ Arrives(t, "use")
    /\ \E tenant \in Tenants, r \in Resources :
          /\ creator[r] = NoTenant
          /\ \/ active \in live /\ Store(tenant, r, active)
             \/ StoreOutside(tenant, r)
    /\ UNCHANGED <<remote, pc, sid, tid, copy, answer, todo>>

Use(t) ==
    /\ Arrives(t, "use")
    /\ \E tenant \in Tenants, r \in Resources :
          /\ creator[r] = NoTenant
          /\ \/ StoreActive(tenant, r)
             \/ StoreElsewhere(tenant, r)
             \/ StoreInNewSpace(tenant, r)
             \/ StoreOutside(tenant, r)
    /\ UNCHANGED <<remote, pc, sid, tid, copy, answer, todo>>

\* POST /api/tenants/{tid}/switch: no foreign space stays active.
SwitchTenant(t) ==
    /\ Arrives(t, "tenant")
    /\ \E tenant \in Tenants :
          /\ active \in live
          /\ TagOf(active) # tenant
    /\ active' = NoSpace
    /\ UNCHANGED <<live, space, legacy, remote, pc, sid, tid, copy, answer,
                   todo, history>>

(***************************************************************************)
(* rehydrate_cloudsim, at startup and when the engine cannot be asked: a   *)
(* comparison of two counts decides whether anything is pushed.            *)
(***************************************************************************)
Known == {i \in Ids : remote[i] # "none"}

RehydrateBegin(t) ==
    /\ Arrives(t, "rehydrate")
    /\ live # {}
    /\ \/ /\ Cardinality(Known) < Cardinality(live) \/ Faults
          /\ todo' = [todo EXCEPT ![t] = live]
          /\ Goto(t, "push")
       \/ /\ Cardinality(Known) >= Cardinality(live)
          /\ UNCHANGED todo
          /\ Goto(t, "synchronized")
    /\ UNCHANGED <<local, remote, sid, tid, copy, answer, history>>

\* A space deleted since the list was made is pushed all the same, with
\* the status it had.
RehydratePush(t) ==
    /\ pc[t] = "push"
    /\ \E i \in todo[t] :
          /\ todo' = [todo EXCEPT ![t] = @ \ {i}]
          /\ \/ \E s \in Status :
                   /\ i \in live => s = space[i].status
                   /\ remote' = [remote EXCEPT ![i] = s]
             \/ Faults /\ UNCHANGED remote
    /\ UNCHANGED <<local, pc, sid, tid, copy, answer, history>>

RehydrateEnd(t) ==
    /\ pc[t] \in {"push", "synchronized"}
    /\ todo[t] = {}
    /\ Done(t)
    /\ UNCHANGED <<local, remote, history>>

(***************************************************************************)
(* The engine loses its state file; the simulator restarts on the state it *)
(* persisted, and tags every untagged space with the default tenant.       *)
(***************************************************************************)
EngineLost ==
    /\ Faults
    /\ Known # {}
    /\ remote' = [i \in Ids |-> "none"]
    /\ UNCHANGED <<local, pc, sid, tid, copy, answer, todo, history>>

Restart ==
    /\ Crashes
    /\ pc' = [t \in Threads |-> "idle"]
    /\ sid' = [t \in Threads |-> NoSpace]
    /\ tid' = [t \in Threads |-> Default]
    /\ copy' = [t \in Threads |-> NewSpace]
    /\ answer' = [t \in Threads |-> "running"]
    /\ todo' = [t \in Threads |-> {}]
    /\ space' = [i \in Ids |-> IF i \in live
                               THEN [space[i] EXCEPT !.tenant = TagOf(i)]
                               ELSE space[i]]
    /\ UNCHANGED <<live, active, legacy, remote, history>>

Create(t) ==
    \/ CreateCheck(t) \/ KernelCheck(t) \/ KernelRefuses(t) \/ Insert(t)
    \/ Activate(t) \/ RemoteCreate(t) \/ WriteBack(t) \/ Tag(t)

Switch(t) ==
    \/ SwitchBegin(t) \/ SwitchSelect(t) \/ RemoteSwitch(t)
    \/ Merge(t) \/ SyncCounts(t)

ChangeStatus(t) == SetStatus(t) \/ RemoteStatus(t)

Remove(t) == DeleteBegin(t) \/ Pop(t) \/ Reset(t) \/ RemoteDelete(t)

Rehydrate(t) == RehydrateBegin(t) \/ RehydratePush(t) \/ RehydrateEnd(t)

Next ==
    /\ UNCHANGED load
    /\ \/ \E t \in Threads : \/ Create(t) \/ Switch(t) \/ ChangeStatus(t)
                             \/ Remove(t) \/ Use(t) \/ SwitchTenant(t)
                             \/ Rehydrate(t)
       \/ EngineLost
       \/ Restart

Spec == Init /\ [][Next]_vars

(***************************************************************************)
(* Properties.                                                             *)
(***************************************************************************)
\* A thread that works on a space knows its id.
SidKnown ==
    \A t \in Threads :
       pc[t] \in Creating \cup Switching \cup Deleting \cup {"restatus"}
          => sid[t] \in Ids

\* Spaces that threads in the middle of a create or a switch may still put
\* (back) into the map.
Pending == {sid[t] : t \in {u \in Threads : pc[u] \in Creating \cup Switching}}

\* The created spaces that exist or that somebody is about to store.
Counted == (live \cup Pending) \ auto

\* What bounds the overshoot: nothing but a passed check makes the counted
\* spaces more.
CountBounded ==
    Cardinality(Counted) <= MaxSpaces + Cardinality(Threads) - 1

\* A space that exists or is being created was asked for, so no uuid is its
\* id.
AskedFor ==
    /\ Fresh \cap (live \cup auto) = {}
    /\ \A t \in Threads :
          /\ pc[t] \in Creating \cup Switching => sid[t] \notin Fresh
          /\ pc[t] \in Creating => sid[t] \notin auto

\* create_space checks the cap and inserts later, so concurrent creates can
\* pass it; together they exceed it by less than the number of threads,
\* write-backs of deleted spaces included.
OvershootBounded ==
    Cardinality(live \ auto) <= MaxSpaces + Cardinality(Threads) - 1

\* A space is seen as that of a tenant that asked for its id, or as the
\* default tenant's, never as a third one's: whatever creates of one id,
\* stale copies, deletions and restarts meet.
TagIsOwner == \A i \in live : TagOf(i) \in owners[i] \cup {Default}

\* What keeps it: a create is for one of the owners, and no copy that may be
\* put back carries a foreign tag.
TagsCarried ==
    /\ \A i \in Ids : space[i].tenant \in owners[i] \cup {NoTenant, Default}
    /\ \A t \in Threads :
          /\ pc[t] \in Creating => tid[t] \in owners[sid[t]]
          /\ pc[t] \in (Creating \ {"insert"}) \cup Switching =>
                copy[t].tenant \in owners[sid[t]] \cup {NoTenant, Default}

\* A resource acknowledged in a space stays there as long as the space is not
\* deleted or created anew, although the engine's answers and stale copies are
\* stored over it.  What is put in before the space's creation came back from
\* the engine is not promised: that the code does lose.
NoLostWrites == \A i \in live : promised[i] \subseteq space[i].res

\* What keeps it: nothing is promised where a write-back may still come, or
\* where there is no space.
NothingAtRisk ==
    \A i \in Ids : Underway(i) \/ i \notin live => promised[i] = {}

\* In a space are resources of the tenants that asked for it, and what the
\* default tenant put in while it had no tag: the copies that are stored back
\* and the pivot of the proxies never mix in a third tenant's.
NoThirdTenant ==
    \A i \in live : \A r \in space[i].res : creator[r] \in owners[i] \cup {Default}

\* What keeps it: so do the copies.
CopiesToo ==
    \A t \in Threads : pc[t] \in (Creating \ {"insert"}) \cup Switching =>
       \A r \in copy[t].res : creator[r] \in owners[sid[t]] \cup {Default}

\* What a tenant created is only found in its own spaces ("STRUCTURAL
\* ISOLATION: Cross-tenant access -- space.tenant_id must equal
\* active_tenant_id.").
TenantIsolation ==
    \A i \in live : \A r \in space[i].res : creator[r] = TagOf(i)
=============================================================================
