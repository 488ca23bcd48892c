---------------------------- MODULE SpacesProofs ----------------------------
(***************************************************************************)
(* Proofs about Spaces for any number of threads, ids and tenants, with    *)
(* every operation, a faulty engine and restarts.                          *)
(*                                                                         *)
(*   TypeOK and SidKnown    are inductive together;                        *)
(*   TagIsOwner             needs to know what the copies carry            *)
(*                          (TagsCarried);                                 *)
(*   NoThirdTenant          follows from both and from CopiesToo;          *)
(*   NoLostWrites           is inductive with NothingAtRisk;               *)
(*   OvershootBounded       follows from CountBounded, a bound on a set    *)
(*                          that only KernelCheck makes larger, and that   *)
(*                          only below the cap (AskedFor says that the     *)
(*                          set's other condition does not change).        *)
(***************************************************************************)
EXTENDS Spaces, TLAPS, FunctionTheorems, FiniteSetTheorems

USE DEF Status, Creating, Switching, Deleting, Labels, NewSpace, Fresh

Typed == TypeOK /\ SidKnown

----------------------------------------------------------------------------

\* A space stays a space when one of its fields is set.
LEMMA SpaceFields ==
    /\ NewSpace \in Space
    /\ \A x \in Tenants \cup {NoTenant} : [NewSpace EXCEPT !.tenant = x] \in Space
    /\ \A x \in Tenants, y \in SUBSET Resources :
          [tenant |-> x, status |-> "running", res |-> y] \in Space
    /\ \A s \in Space :
          /\ \A x \in Tenants \cup {NoTenant} : [s EXCEPT !.tenant = x] \in Space
          /\ \A x \in Status : [s EXCEPT !.status = x] \in Space
          /\ \A r \in Resources : [s EXCEPT !.res = @ \cup {r}] \in Space
          /\ s.tenant \in Tenants \cup {NoTenant}
          /\ s.status \in Status
BY DEF Space

\* Setting the status or the resources of a space leaves its tag.
LEMMA TagUntouched ==
    \A s \in Space : /\ \A x : [s EXCEPT !.status = x].tenant = s.tenant
                    /\ \A x : [s EXCEPT !.res = x].tenant = s.tenant
BY DEF Space

\* An answered request leaves its thread idle and typed.
LEMMA DoneTyped ==
    ASSUME Typed, NEW t \in Threads, Done(t)
    PROVE  /\ pc' \in [Threads -> Labels]
           /\ sid' \in [Threads -> Ids \cup {NoSpace}]
           /\ tid' \in [Threads -> Tenants]
           /\ copy' \in [Threads -> Space]
           /\ answer' \in [Threads -> Status]
           /\ todo' \in [Threads -> SUBSET Ids]
           /\ SidKnown'
<1> USE DEF Typed, TypeOK, Done, Goto
<1>1. pc' \in [Threads -> Labels] /\ sid' \in [Threads -> Ids \cup {NoSpace}]
    OBVIOUS
<1>2. tid' \in [Threads -> Tenants] /\ copy' \in [Threads -> Space]
    BY TenantsAssumption, SpaceFields
<1>3. answer' \in [Threads -> Status] /\ todo' \in [Threads -> SUBSET Ids]
    OBVIOUS
<1>4. SidKnown'
    BY DEF SidKnown
<1>5. QED
    BY <1>1, <1>2, <1>3, <1>4

\* A request's thread, the map, the engine and the histories stay in their
\* types, and a thread that works on a space knows which.
LEMMA TypedInvariant == Spec => []Typed
<1> USE TenantsAssumption, IdsAssumption, SpaceFields
<1>1. Init => Typed
    <2> SUFFICES ASSUME Init PROVE Typed
        OBVIOUS
    <2>0. load \in Loads /\ live = load.initial /\ load.initial \in SUBSET Ids
        BY LoadsAssumption DEF Init
    <2>1. PICK tag \in [Ids -> Tenants] :
             /\ owners = [i \in Ids |-> IF i \in live THEN {tag[i]} ELSE {}]
             /\ space = [i \in Ids |-> IF i \in live
                                       THEN [NewSpace EXCEPT !.tenant = tag[i]]
                                       ELSE NewSpace]
        BY DEF Init
    <2>2. owners \in [Ids -> SUBSET Tenants] /\ space \in [Ids -> Space]
        BY <2>1
    <2>3. remote \in [Ids -> Status \cup {"none"}]
        BY DEF Init
    <2>4. active \in Ids \cup {NoSpace}
        BY <2>0 DEF Init
    <2>5. QED
        BY <2>0, <2>2, <2>3, <2>4 DEF Init, Typed, TypeOK, SidKnown
<1>2. Typed /\ [Next]_vars => Typed'
    <2> SUFFICES ASSUME Typed, [Next]_vars PROVE Typed'
        OBVIOUS
    <2>0. load' = load
        BY DEF Next, vars
    <2> USE <2>0
    <2> USE DEF Typed, TypeOK, SidKnown, Goto, local, history, Arrives
    <2>1. ASSUME NEW t \in Threads, CreateCheck(t) \/ KernelRefuses(t)
          PROVE Typed'
        <3>1. CASE CreateCheck(t)
            BY <3>1 DEF CreateCheck
        <3>2. CASE KernelRefuses(t)
            BY <3>2, DoneTyped DEF KernelRefuses
        <3>3. QED
            BY <2>1, <3>1, <3>2
    <2>2. ASSUME NEW t \in Threads, KernelCheck(t)
          PROVE Typed'
        <3>1. PICK i \in Ids : /\ sid' = [sid EXCEPT ![t] = i]
                              /\ owners' = [owners EXCEPT ![i] = @ \cup {tid[t]}]
                              /\ auto' = auto \ {i}
            BY <2>2 DEF KernelCheck
        <3>2. owners' \in [Ids -> SUBSET Tenants]
            BY <3>1
        <3>3. pc' \in [Threads -> Labels] /\ sid' \in [Threads -> Ids \cup {NoSpace}]
            BY <2>2, <3>1 DEF KernelCheck
        <3>4. SidKnown'
            BY <2>2, <3>1 DEF KernelCheck
        <3>5. QED
            BY <2>2, <3>1, <3>2, <3>3, <3>4 DEF KernelCheck
    <2>3. ASSUME NEW t \in Threads, Insert(t) \/ Activate(t)
          PROVE Typed'
        <3>1. CASE Insert(t)
            BY <3>1 DEF Insert
        <3>2. CASE Activate(t)
            <4>1. sid[t] \in Ids /\ copy' \in [Threads -> Space]
                BY <3>2 DEF Activate
            <4>2. QED
                BY <3>2, <4>1 DEF Activate
        <3>3. QED
            BY <2>3, <3>1, <3>2
    <2>4. ASSUME NEW t \in Threads, RemoteCreate(t)
          PROVE Typed'
        <3>0. copy[t].status \in Status
            BY SpaceFields
        <3>1. remote' \in [Ids -> Status \cup {"none"}]
            BY <2>4, <3>0 DEF RemoteCreate
        <3>2. QED
            BY <2>4, <3>1 DEF RemoteCreate
    <2>5. ASSUME NEW t \in Threads, WriteBack(t) \/ Tag(t)
          PROVE Typed'
        <3>1. CASE WriteBack(t)
            BY <3>1 DEF WriteBack
        <3>2. CASE Tag(t)
            <4>1. [space[sid[t]] EXCEPT !.tenant = tid[t]] \in Space
                BY <3>2 DEF Tag
            <4>2. space' \in [Ids -> Space]
                BY <3>2, <4>1 DEF Tag
            <4>3. QED
                BY <3>2, <4>2, DoneTyped DEF Tag
        <3>3. QED
            BY <2>5, <3>1, <3>2
    <2>6. ASSUME NEW t \in Threads, SwitchBegin(t) \/ SwitchSelect(t) \/ RemoteSwitch(t)
          PROVE Typed'
        <3>1. CASE SwitchBegin(t)
            <4>1. PICK i \in live : /\ sid' = [sid EXCEPT ![t] = i]
                                   /\ copy' = [copy EXCEPT ![t] = space[i]]
                BY <3>1 DEF SwitchBegin
            <4>2. copy' \in [Threads -> Space]
                BY <4>1
            <4>3. QED
                BY <3>1, <4>1, <4>2 DEF SwitchBegin
        <3>4. CASE SwitchSelect(t)
            <4>1. sid[t] \in Ids /\ copy' \in [Threads -> Space]
                BY <3>4 DEF SwitchSelect
            <4>2. QED
                BY <3>4, <4>1 DEF SwitchSelect
        <3>2. CASE RemoteSwitch(t)
            <4>1. CASE /\ remote[sid[t]] # "none"
                       /\ answer' = [answer EXCEPT ![t] = remote[sid[t]]]
                       /\ Goto(t, "merge")
                       /\ UNCHANGED <<sid, tid, copy, todo>>
                BY <3>2, <4>1 DEF RemoteSwitch
            <4>2. CASE Done(t)
                BY <3>2, <4>2, DoneTyped DEF RemoteSwitch
            <4>3. QED
                BY <3>2, <4>1, <4>2 DEF RemoteSwitch
        <3>3. QED
            BY <2>6, <3>1, <3>2, <3>4
    <2>7. ASSUME NEW t \in Threads, Merge(t)
          PROVE Typed'
        <3> DEFINE found == IF sid[t] \in live THEN space[sid[t]] ELSE copy[t]
        <3>1. [found EXCEPT !.status = answer[t]] \in Space
            BY <2>7 DEF Merge
        <3>2. space' \in [Ids -> Space]
            BY <2>7, <3>1 DEF Merge
        <3>3. QED
            BY <2>7, <3>2 DEF Merge
    <2>8. ASSUME NEW t \in Threads, SyncCounts(t) \/ RemoteStatus(t)
          PROVE Typed'
        <3>1. remote' \in [Ids -> Status \cup {"none"}]
            BY <2>8 DEF SyncCounts, RemoteStatus
        <3>2. QED
            BY <2>8, <3>1, DoneTyped DEF SyncCounts, RemoteStatus
    <2>9. ASSUME NEW t \in Threads, SetStatus(t)
          PROVE Typed'
        <3>1. PICK i \in live, s \in Status :
                 /\ space' = [space EXCEPT ![i].status = s]
                 /\ sid' = [sid EXCEPT ![t] = i]
                 /\ answer' = [answer EXCEPT ![t] = s]
            BY <2>9 DEF SetStatus, Asked
        <3>2. space' \in [Ids -> Space]
            BY <3>1
        <3>3. QED
            BY <2>9, <3>1, <3>2 DEF SetStatus
    <2>10. ASSUME NEW t \in Threads, Remove(t)
           PROVE Typed'
        <3>1. CASE DeleteBegin(t)
            BY <3>1 DEF DeleteBegin
        <3>2. CASE Pop(t)
            BY <3>2 DEF Pop
        <3>3. CASE Reset(t)
            BY <3>3 DEF Reset
        <3>4. CASE RemoteDelete(t)
            BY <3>4, DoneTyped DEF RemoteDelete
        <3>5. QED
            BY <2>10, <3>1, <3>2, <3>3, <3>4 DEF Remove
    <2>11. ASSUME NEW t \in Threads, Use(t)
           PROVE Typed'
        <3>1. PICK tenant \in Tenants, r \in Resources :
                 \/ StoreActive(tenant, r)
                 \/ StoreElsewhere(tenant, r)
                 \/ StoreInNewSpace(tenant, r)
                 \/ StoreOutside(tenant, r)
            BY <2>11 DEF Use
        <3>2. UNCHANGED <<remote, pc, sid, tid, copy, answer, todo>>
            BY <2>11 DEF Use
        <3>3. ASSUME NEW i \in Ids, Store(tenant, r, i)
              PROVE Typed'
            <4>1. space' \in [Ids -> Space]
                BY <3>3 DEF Store
            <4>2. promised' \in [Ids -> SUBSET Resources]
                BY <3>3 DEF Store
            <4>3. QED
                BY <3>2, <3>3, <4>1, <4>2 DEF Store
        <3>4. CASE StoreInNewSpace(tenant, r)
            <4>1. PICK i \in Fresh :
                     /\ live' = live \cup {i}
                     /\ space' = [space EXCEPT ![i] =
                                    [tenant |-> tenant, status |-> "running",
                                     res |-> {r}]]
                     /\ auto' = auto \cup {i}
                     /\ owners' = [owners EXCEPT ![i] = {tenant}]
                     /\ promised' = [promised EXCEPT ![i] = {r}]
                BY <3>4 DEF StoreInNewSpace
            <4>2. [tenant |-> tenant, status |-> "running", res |-> {r}] \in Space
                OBVIOUS
            <4>3. space' \in [Ids -> Space]
                BY <4>1, <4>2
            <4>4. /\ owners' \in [Ids -> SUBSET Tenants]
                  /\ promised' \in [Ids -> SUBSET Resources]
                  /\ live' \subseteq Ids /\ auto' \subseteq Ids
                BY <4>1
            <4>5. /\ creator' \in [Resources -> Tenants \cup {NoTenant}]
                  /\ UNCHANGED <<active, legacy>>
                BY <3>4 DEF StoreInNewSpace
            <4>6. QED
                BY <3>2, <4>3, <4>4, <4>5
        <3>5. CASE StoreOutside(tenant, r)
            BY <3>2, <3>5 DEF StoreOutside
        <3>6. QED
            BY <3>1, <3>3, <3>4, <3>5
            DEF StoreActive, StoreElsewhere, SpacesOf
    <2>12. ASSUME NEW t \in Threads, SwitchTenant(t) \/ Rehydrate(t)
           PROVE Typed'
        <3>1. CASE SwitchTenant(t)
            BY <3>1 DEF SwitchTenant
        <3>2. CASE RehydrateBegin(t)
            BY <3>2 DEF RehydrateBegin
        <3>3. CASE RehydratePush(t)
            <4>1. PICK i \in todo[t] :
                     /\ todo' = [todo EXCEPT ![t] = @ \ {i}]
                     /\ \/ \E s \in Status : remote' = [remote EXCEPT ![i] = s]
                        \/ remote' = remote
                BY <3>3 DEF RehydratePush
            <4>2. remote' \in [Ids -> Status \cup {"none"}]
                BY <4>1
            <4>3. todo[t] \ {i} \in SUBSET Ids
                OBVIOUS
            <4>4. todo' \in [Threads -> SUBSET Ids]
                BY <4>1, <4>3
            <4>5. QED
                BY <3>3, <4>2, <4>4 DEF RehydratePush
        <3>4. CASE RehydrateEnd(t)
            BY <3>4, DoneTyped DEF RehydrateEnd
        <3>5. QED
            BY <2>12, <3>1, <3>2, <3>3, <3>4 DEF Rehydrate
    <2>13. CASE EngineLost
        BY <2>13 DEF EngineLost
    <2>14. CASE Restart
        BY <2>14 DEF Restart, TagOf
    <2>15. CASE UNCHANGED vars
        BY <2>15 DEF vars
    <2>16. QED
        BY <2>1, <2>2, <2>3, <2>4, <2>5, <2>6, <2>7, <2>8, <2>9, <2>10,
           <2>11, <2>12, <2>13, <2>14, <2>15
        DEF Next, Create, Switch, ChangeStatus
<1>3. QED
    BY <1>1, <1>2, PTL DEF Spec

THEOREM TypeCorrect == Spec => []TypeOK
BY TypedInvariant, PTL DEF Typed

----------------------------------------------------------------------------

\* What tags a space, or a copy of one that may be put back, can carry is kept
\* by every step.
LEMMA TaggingInvariant == Spec => []TagsCarried
<1> USE TenantsAssumption
<1>1. Init => TagsCarried
    <2> SUFFICES ASSUME Init PROVE TagsCarried
        OBVIOUS
    <2>1. PICK tag \in [Ids -> Tenants] :
             /\ owners = [i \in Ids |-> IF i \in live THEN {tag[i]} ELSE {}]
             /\ space = [i \in Ids |-> IF i \in live
                                       THEN [NewSpace EXCEPT !.tenant = tag[i]]
                                       ELSE NewSpace]
        BY DEF Init
    <2>2. \A i \in Ids : space[i].tenant \in owners[i] \cup {NoTenant, Default}
        BY <2>1
    <2>3. QED
        BY <2>2 DEF Init, TagsCarried
<1>2. Typed /\ TagsCarried /\ [Next]_vars => TagsCarried'
    <2> SUFFICES ASSUME Typed, TagsCarried, [Next]_vars
                 PROVE  TagsCarried'
        OBVIOUS
    <2> USE DEF Typed, TypeOK, SidKnown, TagsCarried, local, history, Goto,
                Done, Arrives
    <2>1. ASSUME NEW t \in Threads, CreateCheck(t) \/ KernelRefuses(t)
          PROVE  TagsCarried'
        BY <2>1 DEF CreateCheck, KernelRefuses
    <2>2. ASSUME NEW t \in Threads, KernelCheck(t)
          PROVE  TagsCarried'
        <3>1. PICK i \in Ids : /\ sid' = [sid EXCEPT ![t] = i]
                              /\ owners' = [owners EXCEPT ![i] = @ \cup {tid[t]}]
            BY <2>2 DEF KernelCheck
        <3>2. UNCHANGED <<space, tid, copy>> /\ pc' = [pc EXCEPT ![t] = "insert"]
            BY <2>2 DEF KernelCheck
        <3>3. /\ \A j \in Ids : owners[j] \subseteq owners'[j]
              /\ tid[t] \in owners'[i]
            BY <3>1
        <3>4. ASSUME NEW u \in Threads, u # t,
                     pc[u] \in Creating \cup Switching
              PROVE  /\ sid'[u] = sid[u] /\ pc'[u] = pc[u]
                     /\ sid[u] \in Ids
            BY <3>1, <3>2, <3>4
        <3>5. \A j \in Ids : space'[j].tenant \in owners'[j] \cup {NoTenant, Default}
            BY <3>2, <3>3
        <3>6. QED
            BY <3>1, <3>2, <3>3, <3>4, <3>5
    <2>3. ASSUME NEW t \in Threads, Insert(t)
          PROVE  TagsCarried'
        BY <2>3 DEF Insert
    <2>4. ASSUME NEW t \in Threads, Activate(t)
          PROVE  TagsCarried'
        BY <2>4 DEF Activate
    <2>5. ASSUME NEW t \in Threads, RemoteCreate(t)
          PROVE  TagsCarried'
        BY <2>5 DEF RemoteCreate
    <2>6. ASSUME NEW t \in Threads, WriteBack(t)
          PROVE  TagsCarried'
        BY <2>6 DEF WriteBack
    <2>7. ASSUME NEW t \in Threads, Tag(t)
          PROVE  TagsCarried'
        BY <2>7 DEF Tag
    <2>8. ASSUME NEW t \in Threads, SwitchBegin(t) \/ SwitchSelect(t)
          PROVE  TagsCarried'
        BY <2>8 DEF SwitchBegin, SwitchSelect
    <2>9. ASSUME NEW t \in Threads, RemoteSwitch(t) \/ SyncCounts(t)
          PROVE  TagsCarried'
        BY <2>9 DEF RemoteSwitch, SyncCounts
    <2>10. ASSUME NEW t \in Threads, Merge(t)
           PROVE  TagsCarried'
        BY <2>10 DEF Merge
    <2>11. ASSUME NEW t \in Threads, ChangeStatus(t)
           PROVE  TagsCarried'
        <3>1. CASE SetStatus(t)
            <4>1. PICK i \in live, s \in Status :
                     /\ space' = [space EXCEPT ![i].status = s]
                     /\ sid' = [sid EXCEPT ![t] = i]
                BY <3>1 DEF SetStatus, Asked
            <4>2. \A j \in Ids : space'[j].tenant = space[j].tenant
                BY <4>1, TagUntouched
            <4>3. QED
                BY <3>1, <4>1, <4>2 DEF SetStatus
        <3>2. CASE RemoteStatus(t)
            BY <3>2 DEF RemoteStatus
        <3>3. QED
            BY <2>11, <3>1, <3>2 DEF ChangeStatus
    <2>12. ASSUME NEW t \in Threads, Remove(t)
           PROVE  TagsCarried'
        BY <2>12 DEF Remove, DeleteBegin, Pop, Reset, RemoteDelete
    <2>13. ASSUME NEW t \in Threads, Use(t)
           PROVE  TagsCarried'
        <3>1. PICK tenant \in Tenants, r \in Resources :
                 \/ StoreActive(tenant, r)
                 \/ StoreElsewhere(tenant, r)
                 \/ StoreInNewSpace(tenant, r)
                 \/ StoreOutside(tenant, r)
            BY <2>13 DEF Use
        <3>2. UNCHANGED <<pc, sid, tid, copy>>
            BY <2>13 DEF Use
        <3>3. ASSUME NEW i \in Ids, Store(tenant, r, i)
              PROVE  TagsCarried'
            <4>1. \A j \in Ids : space'[j].tenant = space[j].tenant
                BY <3>3, TagUntouched DEF Store
            <4>2. QED
                BY <3>2, <3>3, <4>1 DEF Store
        <3>4. CASE StoreInNewSpace(tenant, r)
            BY <3>2, <3>4 DEF StoreInNewSpace
        <3>5. CASE StoreOutside(tenant, r)
            BY <3>2, <3>5 DEF StoreOutside
        <3>6. QED
            BY <3>1, <3>3, <3>4, <3>5
            DEF StoreActive, StoreElsewhere, SpacesOf
    <2>14. ASSUME NEW t \in Threads, SwitchTenant(t) \/ Rehydrate(t)
           PROVE  TagsCarried'
        BY <2>14 DEF SwitchTenant, Rehydrate, RehydrateBegin, RehydratePush,
                     RehydrateEnd
    <2>15. CASE EngineLost \/ UNCHANGED vars
        BY <2>15 DEF EngineLost, vars
    <2>16. CASE Restart
        <3>1. \A i \in Ids : space'[i].tenant \in {TagOf(i), space[i].tenant}
            BY <2>16 DEF Restart, Space
        <3>2. QED
            BY <2>16, <3>1 DEF Restart, TagOf
    <2>17. QED
        BY <2>1, <2>2, <2>3, <2>4, <2>5, <2>6, <2>7, <2>8, <2>9, <2>10,
           <2>11, <2>12, <2>13, <2>14, <2>15, <2>16
        DEF Next, Create, Switch
<1>3. QED
    BY <1>1, <1>2, TypedInvariant, PTL DEF Spec

\* Whatever creates of one id, stale copies and restarts meet, a space is
\* never seen as that of a tenant that did not ask for it, but for the default
\* tenant.
THEOREM TagsFollowOwner == Spec => []TagIsOwner
<1>1. Typed /\ TagsCarried => TagIsOwner
    BY DEF Typed, TypeOK, TagsCarried, TagIsOwner, TagOf
<1>2. QED
    BY <1>1, TypedInvariant, TaggingInvariant, PTL

----------------------------------------------------------------------------

\* No third tenant's resources, in the spaces and in the copies.
Unmixed == NoThirdTenant /\ CopiesToo

\* A resource is put in a space its tenant asked for, or one that is seen as
\* the default tenant's; a copy is put back where it came from.
THEOREM TenantsApart == Spec => []NoThirdTenant
<1> USE TenantsAssumption
<1>1. Init => Unmixed
    <2> SUFFICES ASSUME Init PROVE Unmixed
        OBVIOUS
    <2>1. \A i \in Ids : space[i].res = {}
        BY DEF Init
    <2>2. live \subseteq Ids
        BY LoadsAssumption DEF Init
    <2>3. QED
        BY <2>1, <2>2 DEF Init, Unmixed, NoThirdTenant, CopiesToo
<1>2. Typed /\ TagIsOwner /\ Unmixed /\ [Next]_vars => Unmixed'
    <2> SUFFICES ASSUME Typed, TagIsOwner, Unmixed, [Next]_vars
                 PROVE  Unmixed'
        OBVIOUS
    <2> USE DEF Typed, TypeOK, SidKnown, Unmixed, NoThirdTenant, CopiesToo,
                local, history, Goto, Done, Arrives
    <2>1. ASSUME NEW t \in Threads, CreateCheck(t) \/ KernelRefuses(t)
          PROVE  Unmixed'
        BY <2>1 DEF CreateCheck, KernelRefuses
    <2>2. ASSUME NEW t \in Threads, KernelCheck(t)
          PROVE  Unmixed'
        <3>1. PICK i \in Ids : /\ sid' = [sid EXCEPT ![t] = i]
                              /\ owners' = [owners EXCEPT ![i] = @ \cup {tid[t]}]
            BY <2>2 DEF KernelCheck
        <3>2. /\ UNCHANGED <<live, space, copy, creator>>
              /\ pc' = [pc EXCEPT ![t] = "insert"]
            BY <2>2 DEF KernelCheck
        <3>3. \A j \in Ids : owners[j] \subseteq owners'[j]
            BY <3>1
        <3>4. QED
            BY <3>1, <3>2, <3>3
    <2>3. ASSUME NEW t \in Threads, Insert(t)
          PROVE  Unmixed'
        BY <2>3 DEF Insert
    <2>4. ASSUME NEW t \in Threads, Activate(t)
          PROVE  Unmixed'
        BY <2>4 DEF Activate
    <2>5. ASSUME NEW t \in Threads, RemoteCreate(t)
          PROVE  Unmixed'
        BY <2>5 DEF RemoteCreate
    <2>6. ASSUME NEW t \in Threads, WriteBack(t)
          PROVE  Unmixed'
        BY <2>6 DEF WriteBack
    <2>7. ASSUME NEW t \in Threads, Tag(t)
          PROVE  Unmixed'
        <3>1. \A i \in Ids : space'[i].res = space[i].res
            BY <2>7 DEF Tag, Space
        <3>2. QED
            BY <2>7, <3>1 DEF Tag
    <2>8. ASSUME NEW t \in Threads, SwitchBegin(t) \/ SwitchSelect(t)
          PROVE  Unmixed'
        BY <2>8 DEF SwitchBegin, SwitchSelect
    <2>9. ASSUME NEW t \in Threads, RemoteSwitch(t) \/ SyncCounts(t)
          PROVE  Unmixed'
        BY <2>9 DEF RemoteSwitch, SyncCounts
    <2>10. ASSUME NEW t \in Threads, Merge(t)
           PROVE  Unmixed'
        <3> DEFINE found == IF sid[t] \in live THEN space[sid[t]] ELSE copy[t]
        <3>1. [found EXCEPT !.status = answer[t]].res = found.res
            BY <2>10 DEF Space
        <3>2. /\ live' = live \cup {sid[t]} /\ sid[t] \in Ids
              /\ space' = [space EXCEPT ![sid[t]] = [found EXCEPT !.status = answer[t]]]
              /\ pc' = [pc EXCEPT ![t] = "sync"]
              /\ UNCHANGED <<owners, creator, sid, copy>>
            BY <2>10 DEF Merge
        <3>3. \A r \in found.res : creator[r] \in owners[sid[t]] \cup {Default}
            BY <2>10 DEF Merge
        <3>4. /\ space'[sid[t]].res = found.res
              /\ \A i \in Ids \ {sid[t]} : space'[i] = space[i]
            BY <3>1, <3>2
        <3> HIDE DEF found
        <3>5. NoThirdTenant'
            BY <3>2, <3>3, <3>4
        <3>6. CopiesToo'
            BY <3>2, <2>10 DEF Merge
        <3>7. QED
            BY <3>5, <3>6
    <2>11. ASSUME NEW t \in Threads, ChangeStatus(t)
           PROVE  Unmixed'
        <3>1. CASE SetStatus(t)
            <4>1. PICK i \in live, s \in Status :
                     /\ space' = [space EXCEPT ![i].status = s]
                     /\ sid' = [sid EXCEPT ![t] = i]
                BY <3>1 DEF SetStatus, Asked
            <4>2. \A j \in Ids : space'[j].res = space[j].res
                BY <4>1 DEF Space
            <4>3. QED
                BY <3>1, <4>1, <4>2 DEF SetStatus
        <3>2. CASE RemoteStatus(t)
            BY <3>2 DEF RemoteStatus
        <3>3. QED
            BY <2>11, <3>1, <3>2 DEF ChangeStatus
    <2>12. ASSUME NEW t \in Threads, Remove(t)
           PROVE  Unmixed'
        BY <2>12 DEF Remove, DeleteBegin, Pop, Reset, RemoteDelete
    <2>13. ASSUME NEW t \in Threads, Use(t)
           PROVE  Unmixed'
        <3>1. PICK tenant \in Tenants, r \in Resources :
                 /\ creator[r] = NoTenant
                 /\ \/ StoreActive(tenant, r)
                    \/ StoreElsewhere(tenant, r)
                    \/ StoreInNewSpace(tenant, r)
                    \/ StoreOutside(tenant, r)
            BY <2>13 DEF Use
        <3>2. UNCHANGED <<pc, sid, copy>> /\ creator' = [creator EXCEPT ![r] = tenant]
            BY <2>13, <3>1 DEF Use, StoreActive, StoreElsewhere, StoreInNewSpace,
                               StoreOutside, Store
        \* Nobody's resource is nowhere.
        <3>3. /\ \A i \in live : r \notin space[i].res
              /\ \A u \in Threads : pc[u] \in (Creating \ {"insert"}) \cup Switching
                    => r \notin copy[u].res
            BY <3>1
        <3>4. \A u \in Threads : copy[u].res \subseteq Resources
            BY DEF Space
        <3>5. \A u \in Threads : pc[u] \in (Creating \ {"insert"}) \cup Switching
                 => \A q \in copy[u].res : creator'[q] = creator[q]
            BY <3>2, <3>3, <3>4
        <3>6. ASSUME NEW i \in live, TagOf(i) = tenant, Store(tenant, r, i)
              PROVE  Unmixed'
            <4>1. tenant \in owners[i] \cup {Default}
                BY <3>6 DEF TagIsOwner
            <4>2. /\ UNCHANGED <<live, owners>> /\ i \in Ids
                  /\ \A j \in Ids \ {i} : space'[j] = space[j]
                  /\ space'[i].res = space[i].res \cup {r}
                BY <3>6 DEF Store, Space
            <4>3. \A j \in Ids : space[j].res \subseteq Resources
                BY DEF Space
            <4>4. NoThirdTenant'
                BY <3>2, <3>3, <4>1, <4>2, <4>3
            <4>5. CopiesToo'
                BY <3>2, <3>5, <4>2
            <4>6. QED
                BY <4>4, <4>5
        <3>7. CASE StoreInNewSpace(tenant, r)
            <4>1. PICK i \in Fresh :
                     /\ live' = live \cup {i}
                     /\ space' = [space EXCEPT ![i] =
                                    [tenant |-> tenant, status |-> "running",
                                     res |-> {r}]]
                     /\ owners' = [owners EXCEPT ![i] = {tenant}]
                BY <3>7 DEF StoreInNewSpace
            <4>2. \A j \in Ids : owners[j] \subseteq owners'[j] /\ tenant \in owners'[i]
                BY <4>1
            <4>3. /\ \A j \in Ids \ {i} : space'[j] = space[j]
                  /\ space'[i].res = {r}
                BY <4>1
            <4>4. \A j \in Ids : space[j].res \subseteq Resources
                BY DEF Space
            <4>5. NoThirdTenant'
                BY <3>2, <3>3, <4>1, <4>2, <4>3, <4>4
            <4>6. CopiesToo'
                BY <3>2, <3>5, <4>2
            <4>7. QED
                BY <4>5, <4>6
        <3>8. CASE StoreOutside(tenant, r)
            <4>1. \A j \in Ids : space[j].res \subseteq Resources
                BY DEF Space
            <4>2. QED
                BY <3>2, <3>3, <3>5, <3>8, <4>1 DEF StoreOutside
        <3>9. QED
            BY <3>1, <3>6, <3>7, <3>8 DEF StoreActive, StoreElsewhere, SpacesOf
    <2>14. ASSUME NEW t \in Threads, SwitchTenant(t) \/ Rehydrate(t)
           PROVE  Unmixed'
        BY <2>14 DEF SwitchTenant, Rehydrate, RehydrateBegin, RehydratePush,
                     RehydrateEnd
    <2>15. CASE EngineLost \/ UNCHANGED vars
        BY <2>15 DEF EngineLost, vars
    <2>16. CASE Restart
        <3>1. \A i \in Ids : space'[i].res = space[i].res
            BY <2>16 DEF Restart, Space
        <3>2. QED
            BY <2>16, <3>1 DEF Restart
    <2>17. QED
        BY <2>1, <2>2, <2>3, <2>4, <2>5, <2>6, <2>7, <2>8, <2>9, <2>10,
           <2>11, <2>12, <2>13, <2>14, <2>15, <2>16
        DEF Next, Create, Switch
<1>3. Unmixed => NoThirdTenant
    BY DEF Unmixed
<1>4. QED
    BY <1>1, <1>2, <1>3, TypedInvariant, TagsFollowOwner, PTL DEF Spec

----------------------------------------------------------------------------

\* Ids are minted once, and only StoreInNewSpace makes an automatic one.
LEMMA AutoInvariant == Spec => []AskedFor
<1> USE TenantsAssumption
<1>1. Init => AskedFor
    <2> SUFFICES ASSUME Init PROVE AskedFor
        OBVIOUS
    <2>1. \A i \in live : owners[i] # {}
        BY LoadsAssumption DEF Init
    <2>2. auto = {} /\ \A t \in Threads : pc[t] = "idle"
        BY DEF Init
    <2>3. QED
        BY <2>1, <2>2 DEF AskedFor
<1>2. Typed /\ AskedFor /\ [Next]_vars => AskedFor'
    <2> SUFFICES ASSUME Typed, AskedFor, [Next]_vars
                 PROVE  AskedFor'
        OBVIOUS
    <2> USE DEF Typed, TypeOK, SidKnown, AskedFor, local, history, Goto,
                Done, Arrives
    <2>1. ASSUME NEW t \in Threads, CreateCheck(t) \/ KernelRefuses(t)
          PROVE  AskedFor'
        BY <2>1 DEF CreateCheck, KernelRefuses
    <2>2. ASSUME NEW t \in Threads, KernelCheck(t)
          PROVE  AskedFor'
        <3>1. PICK i \in Ids : /\ sid' = [sid EXCEPT ![t] = i]
                              /\ owners' = [owners EXCEPT ![i] = @ \cup {tid[t]}]
                              /\ auto' = auto \ {i}
            BY <2>2 DEF KernelCheck
        <3>2. UNCHANGED live /\ pc' = [pc EXCEPT ![t] = "insert"]
            BY <2>2 DEF KernelCheck
        <3>3. Fresh' = Fresh \ {i}
            BY <3>1
        <3>4. QED
            BY <3>1, <3>2, <3>3
    <2>3. ASSUME NEW t \in Threads, Insert(t) \/ Activate(t) \/ WriteBack(t) \/ Merge(t)
          PROVE  AskedFor'
        BY <2>3 DEF Insert, Activate, WriteBack, Merge
    <2>4. ASSUME NEW t \in Threads, RemoteCreate(t) \/ Tag(t)
          PROVE  AskedFor'
        BY <2>4 DEF RemoteCreate, Tag
    <2>5. ASSUME NEW t \in Threads, SwitchBegin(t) \/ SwitchSelect(t)
          PROVE  AskedFor'
        BY <2>5 DEF SwitchBegin, SwitchSelect
    <2>6. ASSUME NEW t \in Threads, RemoteSwitch(t) \/ SyncCounts(t)
          PROVE  AskedFor'
        BY <2>6 DEF RemoteSwitch, SyncCounts
    <2>7. ASSUME NEW t \in Threads, ChangeStatus(t)
          PROVE  AskedFor'
        BY <2>7 DEF ChangeStatus, SetStatus, RemoteStatus
    <2>8. ASSUME NEW t \in Threads, Remove(t)
          PROVE  AskedFor'
        BY <2>8 DEF Remove, DeleteBegin, Pop, Reset, RemoteDelete
    <2>9. ASSUME NEW t \in Threads, Use(t)
          PROVE  AskedFor'
        <3>1. PICK tenant \in Tenants, r \in Resources :
                 \/ StoreActive(tenant, r)
                 \/ StoreElsewhere(tenant, r)
                 \/ StoreInNewSpace(tenant, r)
                 \/ StoreOutside(tenant, r)
            BY <2>9 DEF Use
        <3>2. UNCHANGED <<pc, sid>>
            BY <2>9 DEF Use
        <3>3. CASE StoreInNewSpace(tenant, r)
            <4>1. PICK i \in Fresh : /\ live' = live \cup {i}
                                    /\ auto' = auto \cup {i}
                                    /\ owners' = [owners EXCEPT ![i] = {tenant}]
                BY <3>3 DEF StoreInNewSpace
            <4>2. Fresh' = Fresh \ {i}
                BY <4>1
            <4>3. QED
                BY <3>2, <4>1, <4>2
        <3>4. CASE UNCHANGED <<live, auto, owners>>
            BY <3>2, <3>4
        <3>5. QED
            BY <3>1, <3>3, <3>4
            DEF StoreActive, StoreElsewhere, StoreOutside, Store
    <2>10. ASSUME NEW t \in Threads, SwitchTenant(t) \/ Rehydrate(t)
           PROVE  AskedFor'
        BY <2>10 DEF SwitchTenant, Rehydrate, RehydrateBegin, RehydratePush,
                     RehydrateEnd
    <2>11. CASE EngineLost \/ Restart \/ UNCHANGED vars
        BY <2>11 DEF EngineLost, Restart, vars
    <2>12. QED
        BY <2>1, <2>2, <2>3, <2>4, <2>5, <2>6, <2>7, <2>8, <2>9, <2>10,
           <2>11
        DEF Next, Create, Switch
<1>3. QED
    BY <1>1, <1>2, TypedInvariant, PTL DEF Spec

\* The threads hold at most one space each.
LEMMA HeldBounded ==
    ASSUME NEW f, f \in [Threads -> Ids \cup {NoSpace}],
           NEW P \in SUBSET {f[t] : t \in Threads}
    PROVE  IsFiniteSet(P) /\ Cardinality(P) <= Cardinality(Threads)
<1> DEFINE held == {f[t] : t \in Threads}
<1>1. f \in Surjection(Threads, held)
    BY DEF Surjection
<1>2. IsFiniteSet(held) /\ Cardinality(held) <= Cardinality(Threads)
    BY <1>1, ThreadsAssumption, FS_Surjection
<1>3. P \in SUBSET held
    OBVIOUS
<1>4. IsFiniteSet(P) /\ Cardinality(P) <= Cardinality(held)
    BY <1>2, <1>3, FS_Subset
<1>5. QED
    BY <1>2, <1>4, ThreadsAssumption, FS_CardinalityType

\* Two finite sets together have no more members than one and the other.
LEMMA UnionBound ==
    ASSUME NEW S, NEW T, IsFiniteSet(S), IsFiniteSet(T)
    PROVE  /\ IsFiniteSet(S \cup T)
           /\ Cardinality(S \cup T) <= Cardinality(S) + Cardinality(T)
<1>1. IsFiniteSet(S \cap T) /\ Cardinality(S \cap T) \in Nat
    BY FS_Subset, FS_CardinalityType
<1>2. Cardinality(S) \in Nat /\ Cardinality(T) \in Nat
    BY FS_CardinalityType
<1>3. /\ IsFiniteSet(S \cup T)
      /\ Cardinality(S \cup T) =
            Cardinality(S) + Cardinality(T) - Cardinality(S \cap T)
    BY FS_Union
<1>4. QED
    BY <1>1, <1>2, <1>3

\* Every step but a passed check of the cap leaves the counted spaces, or
\* takes some away.
LEMMA OnlyCheckAdds ==
    ASSUME Typed, AskedFor, [Next]_vars,
           \A t \in Threads : ~KernelCheck(t)
    PROVE  Counted' \subseteq Counted
<1> USE DEF Typed, TypeOK, SidKnown, AskedFor, Counted, Pending, local,
            history, Goto, Done, Arrives
<1>1. ASSUME NEW t \in Threads,
             \/ CreateCheck(t) \/ KernelRefuses(t) \/ RemoteCreate(t)
             \/ Tag(t)
      PROVE  Counted' \subseteq Counted
    BY <1>1 DEF CreateCheck, KernelRefuses, RemoteCreate, Tag
<1>2. ASSUME NEW t \in Threads, Insert(t) \/ Activate(t) \/ WriteBack(t) \/ Merge(t)
      PROVE  Counted' \subseteq Counted
    BY <1>2 DEF Insert, Activate, WriteBack, Merge
<1>3. ASSUME NEW t \in Threads,
             \/ SwitchBegin(t) \/ SwitchSelect(t) \/ RemoteSwitch(t)
             \/ SyncCounts(t)
      PROVE  Counted' \subseteq Counted
    BY <1>3 DEF SwitchBegin, SwitchSelect, RemoteSwitch, SyncCounts
<1>4. ASSUME NEW t \in Threads, ChangeStatus(t) \/ Remove(t)
      PROVE  Counted' \subseteq Counted
    BY <1>4 DEF ChangeStatus, SetStatus, RemoteStatus, Remove, DeleteBegin,
                Pop, Reset, RemoteDelete
<1>5. ASSUME NEW t \in Threads, Use(t)
      PROVE  Counted' \subseteq Counted
    BY <1>5 DEF Use, StoreActive, StoreElsewhere, StoreInNewSpace,
                StoreOutside, Store
<1>6. ASSUME NEW t \in Threads, SwitchTenant(t) \/ Rehydrate(t)
      PROVE  Counted' \subseteq Counted
    BY <1>6 DEF SwitchTenant, Rehydrate, RehydrateBegin, RehydratePush,
                RehydrateEnd
<1>7. CASE EngineLost \/ Restart \/ UNCHANGED vars
    BY <1>7 DEF EngineLost, Restart, vars
<1>8. QED
    BY <1>1, <1>2, <1>3, <1>4, <1>5, <1>6, <1>7 DEF Next, Create, Switch

\* The cap of the kernel is exceeded by fewer spaces than there are threads.
THEOREM BoundedOvershoot == Spec => []OvershootBounded
<1> USE ThreadsAssumption, IdsAssumption, CapsAssumption, FS_CardinalityType
<1>1. Cardinality(Threads) \in Nat /\ Cardinality(Threads) >= 1
    BY FS_EmptySet
<1>2. ASSUME Typed
      PROVE  /\ IsFiniteSet(live) /\ IsFiniteSet(Counted)
             /\ Cardinality(live) \in Nat /\ Cardinality(Counted) \in Nat
    <2>1. live \in SUBSET Ids
        BY <1>2 DEF Typed, TypeOK
    <2>2. Counted \in SUBSET (live \cup Pending)
        BY DEF Counted
    <2>3. Pending \in SUBSET {sid[t] : t \in Threads}
        BY DEF Pending
    <2>4. IsFiniteSet(live) /\ IsFiniteSet(Pending)
        BY <1>2, <2>1, <2>3, HeldBounded, FS_Subset DEF Typed, TypeOK
    <2>5. QED
        BY <2>2, <2>4, FS_Subset, UnionBound
<1>3. Init => CountBounded
    <2> SUFFICES ASSUME Init PROVE CountBounded
        OBVIOUS
    <2>1. Counted = load.initial /\ load \in Loads
        BY DEF Init, Counted, Pending, Creating, Switching
    <2>2. Cardinality(load.initial) \in Nat /\ Cardinality(load.initial) <= MaxSpaces
        BY <2>1, LoadsAssumption, FS_Subset
    <2>3. QED
        BY <1>1, <2>1, <2>2 DEF CountBounded
<1>4. Typed /\ AskedFor /\ CountBounded /\ Typed' /\ [Next]_vars
         => CountBounded'
    <2> SUFFICES ASSUME Typed, AskedFor, CountBounded, Typed', [Next]_vars
                 PROVE  CountBounded'
        OBVIOUS
    <2>1. CASE \E t \in Threads : KernelCheck(t)
        <3>1. Cardinality(live) < MaxSpaces /\ live' = live
            BY <2>1 DEF KernelCheck, local
        <3>2. Pending' \in SUBSET {sid'[t] : t \in Threads}
            BY DEF Pending
        <3>3. /\ IsFiniteSet(Pending')
              /\ Cardinality(Pending') <= Cardinality(Threads)
            BY <3>2, HeldBounded DEF Typed, TypeOK
        <3>4. /\ IsFiniteSet(live \cup Pending')
              /\ Cardinality(live \cup Pending')
                    <= Cardinality(live) + Cardinality(Pending')
            BY <1>2, <3>3, UnionBound
        <3>5. Counted' \in SUBSET (live \cup Pending')
            BY <3>1 DEF Counted
        <3>6. /\ IsFiniteSet(Counted')
              /\ Cardinality(Counted') <= Cardinality(live \cup Pending')
            BY <3>4, <3>5, FS_Subset
        <3>7. /\ Cardinality(live \cup Pending') \in Nat
              /\ Cardinality(Pending') \in Nat
              /\ Cardinality(Counted') \in Nat
            BY <3>3, <3>4, <3>6
        <3>8. QED
            BY <1>1, <1>2, <3>1, <3>3, <3>4, <3>6, <3>7 DEF CountBounded
    <2>2. CASE \A t \in Threads : ~KernelCheck(t)
        <3>1. Counted' \in SUBSET Counted
            BY <2>2, OnlyCheckAdds
        <3>2. /\ Cardinality(Counted') <= Cardinality(Counted)
              /\ Cardinality(Counted') \in Nat
            BY <1>2, <3>1, FS_Subset
        <3>3. QED
            BY <1>1, <1>2, <3>2 DEF CountBounded
    <2>3. QED
        BY <2>1, <2>2
<1>5. Typed /\ CountBounded => OvershootBounded
    <2> SUFFICES ASSUME Typed, CountBounded PROVE OvershootBounded
        OBVIOUS
    <2>1. live \ auto \in SUBSET Counted
        BY DEF Counted
    <2>2. /\ Cardinality(live \ auto) <= Cardinality(Counted)
          /\ Cardinality(live \ auto) \in Nat
        BY <1>2, <2>1, FS_Subset
    <2>3. QED
        BY <1>1, <1>2, <2>2 DEF CountBounded, OvershootBounded
<1>6. QED
    BY <1>3, <1>4, <1>5, TypedInvariant, AutoInvariant, PTL DEF Spec

----------------------------------------------------------------------------

\* What is promised is stored, and nothing is promised where it may be lost.
Kept == NoLostWrites /\ NothingAtRisk

\* Resources are put only where they are then promised, or are at risk.
LEMMA UseKeeps ==
    ASSUME Typed, AskedFor, Kept, NEW t \in Threads, Use(t)
    PROVE  Kept'
<1> USE DEF Typed, TypeOK, Kept, NoLostWrites, NothingAtRisk
<1>1. PICK tenant \in Tenants, r \in Resources :
         \/ StoreActive(tenant, r)
         \/ StoreElsewhere(tenant, r)
         \/ StoreInNewSpace(tenant, r)
         \/ StoreOutside(tenant, r)
    BY DEF Use
<1>2. UNCHANGED <<pc, sid>>
    BY DEF Use
<1>3. \A i \in Ids : Underway(i)' <=> Underway(i)
    BY <1>2 DEF Underway
<1>4. ASSUME NEW i \in live, Store(tenant, r, i)
      PROVE  Kept'
    <2>1. /\ live' = live /\ i \in Ids
          /\ space' = [space EXCEPT ![i].res = @ \cup {r}]
          /\ promised' = IF Underway(i) THEN promised
                         ELSE [promised EXCEPT ![i] = @ \cup {r}]
        BY <1>4 DEF Store
    <2>2. /\ \A j \in Ids \ {i} : space'[j] = space[j] /\ promised'[j] = promised[j]
          /\ space'[i].res = space[i].res \cup {r}
          /\ promised'[i] = IF Underway(i) THEN promised[i] ELSE promised[i] \cup {r}
        BY <2>1 DEF Space
    <2>3. QED
        BY <1>3, <2>1, <2>2
<1>5. CASE StoreInNewSpace(tenant, r)
    <2>1. PICK i \in Fresh :
             /\ live' = live \cup {i}
             /\ space' = [space EXCEPT ![i] =
                            [tenant |-> tenant, status |-> "running", res |-> {r}]]
             /\ promised' = [promised EXCEPT ![i] = {r}]
        BY <1>5 DEF StoreInNewSpace
    <2>2. i \in Ids /\ ~Underway(i)
        BY DEF Underway, AskedFor
    <2>3. QED
        BY <1>3, <2>1, <2>2
<1>6. CASE StoreOutside(tenant, r)
    BY <1>3, <1>6 DEF StoreOutside
<1>7. QED
    BY <1>1, <1>4, <1>5, <1>6 DEF StoreActive, StoreElsewhere, SpacesOf

\* No answer of the engine and no stale copy is stored over a resource that
\* was acknowledged after its space's creation came back from the engine:
\* for any number of creates, switches, deletions, pushes and restarts.
THEOREM WritesKept == Spec => []NoLostWrites
<1>1. Init => Kept
    <2> SUFFICES ASSUME Init PROVE Kept
        OBVIOUS
    <2>1. live \subseteq Ids /\ \A i \in Ids : promised[i] = {}
        BY LoadsAssumption DEF Init
    <2>2. QED
        BY <2>1 DEF Kept, NoLostWrites, NothingAtRisk
<1>2. Typed /\ AskedFor /\ Kept /\ [Next]_vars => Kept'
    <2> SUFFICES ASSUME Typed, AskedFor, Kept, [Next]_vars
                 PROVE  Kept'
        OBVIOUS
    <2> USE DEF Typed, TypeOK, SidKnown, local, history, Goto, Done, Arrives,
                Kept, NoLostWrites, NothingAtRisk
    <2>1. ASSUME NEW t \in Threads,
                 CreateCheck(t) \/ KernelCheck(t) \/ KernelRefuses(t)
          PROVE  Kept'
        <3>1. \A i \in Ids : Underway(i)' => Underway(i)
            BY <2>1 DEF CreateCheck, KernelCheck, KernelRefuses, Underway
        <3>2. QED
            BY <2>1, <3>1 DEF CreateCheck, KernelCheck, KernelRefuses
    <2>2. ASSUME NEW t \in Threads, Insert(t)
          PROVE  Kept'
        <3>1. \A i \in Ids \ {sid[t]} : Underway(i)' => Underway(i)
            BY <2>2 DEF Insert, Underway
        <3>2. QED
            BY <2>2, <3>1 DEF Insert
    <2>3. ASSUME NEW t \in Threads, Activate(t) \/ RemoteCreate(t)
          PROVE  Kept'
        <3>1. \A i \in Ids : Underway(i)' => Underway(i)
            BY <2>3 DEF Activate, RemoteCreate, Underway
        <3>2. QED
            BY <2>3, <3>1 DEF Activate, RemoteCreate
    <2>4. ASSUME NEW t \in Threads, WriteBack(t)
          PROVE  Kept'
        <3>1. Underway(sid[t]) /\ sid[t] \in Ids
            BY <2>4 DEF WriteBack, Underway
        <3>2. \A i \in Ids : Underway(i)' => Underway(i)
            BY <2>4 DEF WriteBack, Underway
        <3>3. QED
            BY <2>4, <3>1, <3>2 DEF WriteBack
    <2>5. ASSUME NEW t \in Threads, Tag(t)
          PROVE  Kept'
        <3>1. \A i \in Ids : space'[i].res = space[i].res
            BY <2>5 DEF Tag, Space
        <3>2. \A i \in Ids : Underway(i)' => Underway(i)
            BY <2>5 DEF Tag, Underway
        <3>3. QED
            BY <2>5, <3>1, <3>2 DEF Tag
    <2>6. ASSUME NEW t \in Threads,
                 \/ SwitchBegin(t) \/ SwitchSelect(t) \/ RemoteSwitch(t)
                 \/ SyncCounts(t)
          PROVE  Kept'
        <3>1. \A i \in Ids : Underway(i)' => Underway(i)
            BY <2>6 DEF SwitchBegin, SwitchSelect, RemoteSwitch, SyncCounts, Underway
        <3>2. QED
            BY <2>6, <3>1 DEF SwitchBegin, SwitchSelect, RemoteSwitch, SyncCounts
    <2>7. ASSUME NEW t \in Threads, Merge(t)
          PROVE  Kept'
        <3>1. \A i \in Ids : Underway(i)' => Underway(i)
            BY <2>7 DEF Merge, Underway
        <3>2. \A i \in live : space'[i].res = space[i].res
            BY <2>7 DEF Merge, Space
        <3>3. QED
            BY <2>7, <3>1, <3>2 DEF Merge
    <2>8. ASSUME NEW t \in Threads, ChangeStatus(t)
          PROVE  Kept'
        <3>1. \A i \in Ids : Underway(i)' => Underway(i)
            BY <2>8 DEF ChangeStatus, SetStatus, RemoteStatus, Underway
        <3>2. CASE SetStatus(t)
            <4>1. PICK i \in live, s \in Status :
                     space' = [space EXCEPT ![i].status = s]
                BY <3>2 DEF SetStatus, Asked
            <4>2. \A j \in Ids : space'[j].res = space[j].res
                BY <4>1 DEF Space
            <4>3. QED
                BY <3>1, <3>2, <4>2 DEF SetStatus
        <3>3. CASE RemoteStatus(t)
            BY <3>1, <3>3 DEF RemoteStatus
        <3>4. QED
            BY <2>8, <3>2, <3>3 DEF ChangeStatus
    <2>9. ASSUME NEW t \in Threads, Remove(t)
          PROVE  Kept'
        <3>1. \A i \in Ids : Underway(i)' => Underway(i)
            BY <2>9 DEF Remove, DeleteBegin, Pop, Reset, RemoteDelete, Underway
        <3>2. QED
            BY <2>9, <3>1 DEF Remove, DeleteBegin, Pop, Reset, RemoteDelete
    <2>10. ASSUME NEW t \in Threads, SwitchTenant(t) \/ Rehydrate(t)
           PROVE  Kept'
        <3>1. \A i \in Ids : Underway(i)' => Underway(i)
            BY <2>10 DEF SwitchTenant, Rehydrate, RehydrateBegin, RehydratePush,
                         RehydrateEnd, Underway
        <3>2. QED
            BY <2>10, <3>1 DEF SwitchTenant, Rehydrate, RehydrateBegin,
                               RehydratePush, RehydrateEnd
    <2>11. CASE EngineLost \/ UNCHANGED vars
        BY <2>11 DEF EngineLost, vars, Underway
    <2>12. CASE Restart
        <3>1. \A i \in Ids : space'[i].res = space[i].res
            BY <2>12 DEF Restart, Space
        <3>2. \A i \in Ids : ~Underway(i)'
            BY <2>12 DEF Restart, Underway
        <3>3. QED
            BY <2>12, <3>1, <3>2 DEF Restart
    <2>13. QED
        BY <2>1, <2>2, <2>3, <2>4, <2>5, <2>6, <2>7, <2>8, <2>9, <2>10,
           <2>11, <2>12, UseKeeps
        DEF Next, Create, Switch
<1>3. Kept => NoLostWrites
    BY DEF Kept
<1>4. QED
    BY <1>1, <1>2, <1>3, TypedInvariant, AutoInvariant, PTL DEF Spec
=============================================================================
