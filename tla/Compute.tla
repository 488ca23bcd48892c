------------------------------ MODULE Compute ------------------------------
(***************************************************************************)
(* Virtual machines of EC2 and of Compute Engine on LXD containers         *)
(* (server.py, the api_ec2 and api_gcp_compute handlers).                  *)
(*                                                                         *)
(* Creating an instance is one step of the event loop and starts a thread, *)
(* the launcher, which launches the container.  Stop, reboot, terminate    *)
(* and the views are threads of a pool.  They and the launchers meet on    *)
(* the instance's record without a lock, except where the launcher looks   *)
(* the record up; every LXD command takes time, so what a thread read      *)
(* before it may be old when it writes after it.                           *)
(*                                                                         *)
(* The record lives in a space of the tenant.  What survives the simulator *)
(* is the state saved last: every request that changes anything saves all  *)
(* of it when it is over, in whatever service, and so do some steps of the *)
(* threads.  A save may fail, and the end of a request does not tell.      *)
(*                                                                         *)
(* The container is always looked up by the instance's name.  Left out:    *)
(* the other runtime backends (multipass, simulated), disks, groups and    *)
(* networks, the gates of a create (the tier's caps, and the share of the  *)
(* host, which is off by default): they only refuse creates.  LXD is there *)
(* when the simulator restarts.                                            *)
(***************************************************************************)
EXTENDS Integers, FiniteSets

CONSTANTS
    Instances,    \* instance ids
    Gcp,          \* those of Compute Engine, the others are EC2's
    Threads,      \* threads that may launch one instance at a time
    Requests,     \* requests served at a time
    NoInstance,
    Faulty,       \* LXD commands and saves may fail
    MaxRestarts,  \* bound: restarts of the simulator
    Loads         \* bound: what one behaviour uses

ASSUME ComputeAssumption ==
    /\ Gcp \subseteq Instances /\ IsFiniteSet(Instances)
    /\ NoInstance \notin Instances
    /\ Faulty \in BOOLEAN
    /\ MaxRestarts \in Nat
    /\ Loads \subseteq [instances : SUBSET Instances, threads : SUBSET Threads,
                       requests : SUBSET Requests,
                       ops : SUBSET {"view", "stop", "reboot", "terminate",
                                     "delete", "restart"}]

VARIABLES
    load,       \* the mix of Loads this behaviour uses
    rec,        \* rec[i]: the record in ec2_state or gcp_compute_state
    lxd,        \* lxd[i]: the container named after i
    launcher,   \* launcher[i][n]: where the n-th launch thread of i is
    request,    \* request[t]: the stop, reboot, terminate or view t serves
    disk,       \* disk[i]: the record as the state saved last has it
    deleted,    \* the space of the instances is deleted
    restarts,
    disturbed,  \* history: a command about i failed, its termination met another
                \* thread that was at work on i, or its space was deleted
    stranded    \* history: the first save of a launch of i failed

vars == <<load, rec, lxd, launcher, request, disk, deleted, restarts, disturbed, stranded>>
saved == <<disk, deleted>>

\* there: in the store; named: container_id is set; gone: container_status says
\* that there is no container.
Record == [there : BOOLEAN, named : BOOLEAN, gone : BOOLEAN,
           state : {"none", "pending", "running", "stopped", "rebooting",
                    "terminated"},
           launch : {"none", "queued", "starting", "ready", "error"}]
NoRecord == [there |-> FALSE, named |-> FALSE, gone |-> FALSE,
             state |-> "none", launch |-> "none"]
Idle == [op |-> "idle", inst |-> NoInstance, seen |-> "none"]
Container == {"none", "running", "stopped"}

TypeOK ==
    /\ load \in Loads
    /\ rec \in [Instances -> Record]
    /\ lxd \in [Instances -> Container]
    /\ launcher \in [Instances -> [Threads ->
            {"idle", "queued", "ensure", "launch", "start", "done", "failed"}]]
    /\ request \in [Requests ->
            [op : {"idle", "view", "stop", "reboot", "restart", "terminate"},
             inst : Instances \cup {NoInstance}, seen : Container]]
    /\ disk \in [Instances -> Record] /\ deleted \in BOOLEAN
    /\ restarts \in 0 .. MaxRestarts
    /\ disturbed \subseteq Instances /\ stranded \subseteq Instances

Init ==
    /\ load \in Loads
    /\ rec = [i \in Instances |-> NoRecord]
    /\ lxd = [i \in Instances |-> "none"]
    /\ launcher = [i \in Instances |-> [n \in Threads |-> "idle"]]
    /\ request = [t \in Requests |-> Idle]
    /\ disk = rec /\ deleted = FALSE
    /\ restarts = 0 /\ disturbed = {} /\ stranded = {}

-----------------------------------------------------------------------------
Launching(i) == {n \in Threads : launcher[i][n] # "idle"}
Serving(i) == {t \in Requests : request[t].inst = i}
\* What terminating i does not wait for: launchers and other requests.
Unfinished(i, t) == Launching(i) \cup (Serving(i) \ {t})
Met(i, threads) ==
    disturbed' = IF threads # {} THEN disturbed \cup {i} ELSE disturbed

\* A request looks an instance up in the active space.
Found(i) == rec[i].there /\ ~deleted

\* All the spaces are saved, with what this step did; or the save fails.  What is
\* saved is followed in the behaviours that restart: nothing else reads it.
Restarting == "restart" \in load.ops
Persist == disk' = IF ~Restarting THEN disk
                   ELSE IF deleted THEN [i \in Instances |-> NoRecord] ELSE rec'
PersistFails == Faulty /\ UNCHANGED disk

\* The launch thread of i, and the record it is started for.
Queue(i, r) == \E n \in load.threads :
    /\ launcher[i][n] = "idle"
    /\ launcher' = [launcher EXCEPT ![i][n] = "queued"]
    /\ rec' = [rec EXCEPT ![i] = r]

NewRecord(i) == [NoRecord EXCEPT !.there = TRUE, !.state = "pending",
                                 !.launch = IF i \in Gcp THEN "queued" ELSE "none"]
\* Under a new id.
Create(i) ==
    /\ i \in load.instances /\ ~deleted
    /\ rec[i] = NoRecord /\ lxd[i] = "none"
    /\ Queue(i, NewRecord(i))
    /\ UNCHANGED <<load, lxd, request, saved, restarts, disturbed, stranded>>

Requested(i) == [rec[i] EXCEPT !.state = "pending",
                               !.launch = IF i \in Gcp THEN "starting" ELSE @]
\* Whatever state the instance is in.
Start(i) ==
    /\ Found(i)
    /\ Queue(i, Requested(i))
    /\ Met(i, {t \in Serving(i) : request[t].op = "terminate"})
    /\ UNCHANGED <<load, lxd, request, saved, restarts, stranded>>

-----------------------------------------------------------------------------
(* The launch thread. *)
Step(i, n, from, to) ==
    /\ launcher[i][n] = from
    /\ launcher' = [launcher EXCEPT ![i][n] = to]
    /\ UNCHANGED <<load, request, deleted, restarts>>

\* The first lookup, under the lock.  When its save fails the thread ends with
\* the record changed: the save is not under the try.
LookUp(i, n) ==
    /\ UNCHANGED <<lxd, disturbed>>
    /\ \/ ~rec[i].there /\ Step(i, n, "queued", "idle") /\ UNCHANGED <<rec, disk, stranded>>
       \/ /\ rec[i].there
          /\ rec' = [rec EXCEPT ![i].launch = "starting"]
          /\ \/ Step(i, n, "queued", "ensure") /\ Persist /\ UNCHANGED stranded
             \/ /\ Step(i, n, "queued", "idle") /\ PersistFails
                /\ stranded' = stranded \cup {i}

\* A terminated instance is refused, and a container that exists is taken.
EnsureContainer(i, n) ==
    /\ \/ /\ rec[i].state = "terminated"
          /\ Step(i, n, "ensure", "failed") /\ UNCHANGED rec
       \/ /\ rec[i].state # "terminated" /\ lxd[i] = "none"
          /\ Step(i, n, "ensure", "launch") /\ UNCHANGED rec
       \/ /\ rec[i].state # "terminated" /\ lxd[i] # "none"
          /\ Step(i, n, "ensure", "start")
          /\ rec' = [rec EXCEPT ![i].named = TRUE]
    /\ UNCHANGED <<lxd, disk, disturbed, stranded>>

Launch(i, n) ==
    /\ lxd[i] = "none"
    /\ Step(i, n, "launch", "start")
    /\ lxd' = [lxd EXCEPT ![i] = "running"]
    /\ rec' = [rec EXCEPT ![i].named = TRUE, ![i].gone = FALSE]
    /\ UNCHANGED <<disk, disturbed, stranded>>

StartContainer(i, n) ==
    /\ lxd[i] # "none"
    /\ Step(i, n, "start", "done")
    /\ lxd' = [lxd EXCEPT ![i] = "running"]
    /\ UNCHANGED <<rec, disk, disturbed, stranded>>

\* The name is taken, or there is no such container; or LXD fails, and may
\* leave a container that does not run.
CommandFails(i, n) ==
    /\ \/ Step(i, n, "launch", "failed") /\ (lxd[i] # "none" \/ Faulty)
       \/ Step(i, n, "start", "failed") /\ (lxd[i] = "none" \/ Faulty)
    /\ disturbed' = IF Faulty THEN disturbed \cup {i} ELSE disturbed
    /\ \/ UNCHANGED lxd
       \/ Faulty /\ lxd[i] = "none" /\ lxd' = [lxd EXCEPT ![i] = "stopped"]
    /\ UNCHANGED <<rec, disk, stranded>>

\* The record is written, whatever it says by now; launch_status only if it is
\* still in the store, and a save that fails counts as a failed launch.
Launched(i, n) ==
    /\ rec' = [rec EXCEPT ![i].state = "running", ![i].gone = FALSE,
                          ![i].launch = IF rec[i].there THEN "ready" ELSE @]
    /\ \/ Step(i, n, "done", "idle") /\ IF rec[i].there THEN Persist ELSE UNCHANGED disk
       \/ Step(i, n, "done", "failed") /\ rec[i].there /\ PersistFails
    /\ UNCHANGED <<lxd, disturbed, stranded>>

\* Mutant: the error branch does not write launch_status.
Wrong_LaunchFailed(i, n) ==
    /\ Step(i, n, "failed", "idle")
    /\ rec' = IF rec[i].there THEN [rec EXCEPT ![i].gone = TRUE] ELSE rec
    /\ Persist \/ PersistFails \/ (~rec[i].there /\ UNCHANGED disk)
    /\ UNCHANGED <<lxd, disturbed, stranded>>

LaunchFailed(i, n) ==
    /\ Step(i, n, "failed", "idle")
    /\ \/ ~rec[i].there /\ UNCHANGED <<rec, disk>>
       \/ /\ rec[i].there
          /\ rec' = [rec EXCEPT ![i].launch = "error", ![i].gone = TRUE]
          /\ Persist \/ PersistFails
    /\ UNCHANGED <<lxd, disturbed, stranded>>

LauncherStep(i, n) ==
    \/ LookUp(i, n) \/ EnsureContainer(i, n) \/ Launch(i, n)
    \/ StartContainer(i, n) \/ CommandFails(i, n)
    \/ Launched(i, n) \/ LaunchFailed(i, n)

-----------------------------------------------------------------------------
(* Requests served by the pool: an LXD command, then the record. *)
Begin(t, op, i) ==
    /\ t \in load.requests /\ op \in load.ops
    /\ request[t] = Idle
    /\ Found(i)
    /\ request' = [request EXCEPT ![t] = [op |-> op, inst |-> i, seen |-> lxd[i]]]
    /\ UNCHANGED <<load, launcher, saved, restarts, stranded>>
End(t, op) ==
    /\ request[t].op = op
    /\ request' = [request EXCEPT ![t] = Idle]
    /\ UNCHANGED <<load, launcher, saved, restarts, stranded>>
Target(t) == request[t].inst

\* Mutant: a missing container means stopped, whatever the record says.
Wrong_Synced(r, status) ==
    LET settled == IF r.launch \in {"queued", "starting", "error"}
                   THEN "ready" ELSE r.launch
    IN  [r EXCEPT !.launch = settled, !.gone = (status = "none"),
           !.state = IF status = "running" THEN "running" ELSE "stopped"]

Synced(r, status) ==
    LET settled == IF r.launch \in {"queued", "starting", "error"}
                   THEN "ready" ELSE r.launch
    IN  [r EXCEPT !.launch = settled, !.gone = (status = "none"),
           !.state = CASE status = "running" -> "running"
                       [] status = "stopped" -> "stopped"
                       [] OTHER -> IF @ = "terminated" THEN @ ELSE "stopped"]

\* A list or a describe asks LXD, and writes the record with the answer.
BeginView(t, i) == Begin(t, "view", i) /\ UNCHANGED <<rec, lxd, disturbed>>
EndView(t) ==
    /\ End(t, "view")
    /\ rec' = [rec EXCEPT ![Target(t)] = Synced(@, request[t].seen)]
    /\ UNCHANGED <<lxd, disturbed>>

\* What ends a stop and a reboot: only Compute Engine's write launch_status.
Settled(i, state) == [rec[i] EXCEPT !.state = state, !.gone = FALSE,
                                    !.launch = IF i \in Gcp THEN "ready" ELSE @]

BeginStop(t, i) ==
    /\ Begin(t, "stop", i)
    /\ lxd' = [lxd EXCEPT ![i] = IF @ = "running" THEN "stopped" ELSE @]
    /\ UNCHANGED <<rec, disturbed>>
\* The state is written over any other, terminated included.
EndStop(t) ==
    LET i == Target(t)
    IN  /\ End(t, "stop")
        /\ rec' = [rec EXCEPT ![i] = Settled(i, "stopped")]
        /\ UNCHANGED <<lxd, disturbed>>

BeginReboot(t, i) ==
    /\ lxd[i] = "running"
    /\ i \in Gcp => rec[i].state = "running"
    /\ Begin(t, "reboot", i)
    /\ UNCHANGED <<rec, lxd, disturbed>>
Reboot(t) ==
    LET i == Target(t)
    IN  /\ request[t].op = "reboot"
        /\ rec' = [rec EXCEPT ![i].state = "rebooting"]
        /\ request' = [request EXCEPT ![t].op = "restart"]
        /\ UNCHANGED <<load, lxd, launcher, saved, restarts, disturbed, stranded>>
\* The restart command raises when the container is gone: the state stays.
EndReboot(t) ==
    LET i == Target(t)
    IN  /\ End(t, "restart")
        /\ \/ (lxd[i] = "none" \/ Faulty) /\ UNCHANGED <<rec, lxd>>
           \/ /\ lxd[i] # "none"
              /\ lxd' = [lxd EXCEPT ![i] = "running"]
              /\ rec' = [rec EXCEPT ![i] = Settled(i, "running")]
        /\ UNCHANGED disturbed

\* Mutant: an instance whose status says so has no container, named or not.
Wrong_NoBackingContainer(i) ==
    /\ i \notin Gcp
    /\ rec[i].launch = "error" \/ rec[i].gone

\* No container is looked for when the record says that there is none.
NoBackingContainer(i) ==
    /\ i \notin Gcp
    /\ ~rec[i].named
    /\ rec[i].launch = "error" \/ rec[i].gone

Terminated(i, gone) ==
    rec' = [rec EXCEPT ![i].state = "terminated", ![i].gone = gone]

TerminateSimulated(i) ==
    /\ Found(i)
    /\ NoBackingContainer(i)
    /\ Terminated(i, FALSE)
    /\ Met(i, Launching(i) \cup Serving(i))
    /\ UNCHANGED <<load, lxd, launcher, request, saved, restarts, stranded>>

\* Whether the container was removed is not looked at.  The query interface
\* comes here with a container_status that ends in TerminateSimulated otherwise.
BeginTerminate(t, i) ==
    /\ i \in Gcp \/ rec[i].named \/ rec[i].launch # "error"
    /\ Begin(t, "terminate", i)
    /\ \/ lxd' = [lxd EXCEPT ![i] = "none"] /\ Met(i, Unfinished(i, t))
       \/ Faulty /\ disturbed' = disturbed \cup {i} /\ UNCHANGED lxd
    /\ UNCHANGED rec
EndTerminate(t) ==
    LET i == Target(t)
    IN  /\ End(t, "terminate")
        /\ Terminated(i, TRUE)
        /\ Met(i, Unfinished(i, t))
        /\ UNCHANGED lxd

RequestStep(t) ==
    \/ EndView(t) \/ EndStop(t) \/ Reboot(t) \/ EndReboot(t) \/ EndTerminate(t)
    \/ \E i \in Instances : \/ BeginView(t, i) \/ BeginStop(t, i)
                            \/ BeginReboot(t, i) \/ BeginTerminate(t, i)

-----------------------------------------------------------------------------
\* A terminated record is dropped when it was visible for long enough; one of
\* Compute Engine only when the simulator starts.
Pruned(r) == IF r.there /\ r.state = "terminated" THEN [r EXCEPT !.there = FALSE] ELSE r
Prune(i) ==
    /\ i \notin Gcp
    /\ Found(i) /\ Pruned(rec[i]) # rec[i]
    /\ rec' = [rec EXCEPT ![i] = Pruned(@)]
    /\ Persist \/ PersistFails
    /\ UNCHANGED <<load, lxd, launcher, request, deleted, restarts, disturbed, stranded>>

\* What follows a request that changed anything, in whatever service.  That it
\* fails is not noticed, and is a step that does nothing.
Save ==
    /\ UNCHANGED rec /\ Persist
    /\ UNCHANGED <<load, lxd, launcher, request, deleted, restarts, disturbed, stranded>>

\* The space goes with its records; the containers stay, and the threads go on
\* with the records that they hold.
DeleteSpace ==
    /\ "delete" \in load.ops
    /\ ~deleted
    /\ deleted' = TRUE
    /\ disturbed' = Instances
    /\ UNCHANGED <<load, rec, lxd, launcher, request, disk, restarts, stranded>>

\* The simulator restarts: the threads are gone, the state saved last is loaded,
\* and before a request is served what LXD says is written into every record.
Restart ==
    /\ Restarting
    /\ restarts < MaxRestarts
    /\ restarts' = restarts + 1
    /\ launcher' = [i \in Instances |-> [n \in Threads |-> "idle"]]
    /\ request' = [t \in Requests |-> Idle]
    /\ deleted' = (deleted /\ \A i \in Instances : disk[i] = NoRecord)
    /\ LET Reconciled(i) == IF disk[i].there THEN Synced(disk[i], lxd[i]) ELSE disk[i]
       IN  \E old \in SUBSET Instances :
              rec' = [i \in Instances |-> IF i \in old THEN Pruned(Reconciled(i))
                                          ELSE Reconciled(i)]
    /\ UNCHANGED <<load, lxd, disk, disturbed, stranded>>

Next ==
    \/ \E i \in Instances :
         \/ Create(i) \/ Start(i) \/ TerminateSimulated(i) \/ Prune(i)
         \/ \E n \in Threads : LauncherStep(i, n)
    \/ \E t \in Requests : RequestStep(t)
    \/ Save \/ DeleteSpace \/ Restart

\* A launch thread runs until it has ended: its commands have timeouts.
Spec == /\ Init /\ [][Next]_vars
        /\ \A i \in Instances, n \in Threads : WF_vars(LauncherStep(i, n))

-----------------------------------------------------------------------------
\* A container outlives its instance only when a command about it failed, when
\* the termination met a launch or another request, or when the whole space was
\* deleted: otherwise neither a terminated nor a pruned instance has one, through
\* any order of launches, stops, views, terminations, and restarts that load an
\* older state.
NoOrphan ==
    \A i \in Instances \ disturbed :
        lxd[i] # "none" => rec[i].there /\ rec[i].state # "terminated"

\* Without such an encounter a terminated instance does not come back unless a
\* client starts or stops it, or the simulator restarts before the termination
\* is saved: no view and no end of a launch takes it out of that state.
TerminatedStays ==
    [][\A i \in Instances \ disturbed :
          rec[i].state = "terminated" =>
             \/ rec'[i].state \in {"terminated", "pending"}
             \/ \E t \in Requests : request[t].op = "stop" /\ Target(t) = i
             \/ restarts' # restarts /\ disk[i].state # "terminated"]_vars

\* Every launch whose first save succeeds is decided: launch_status does not stay
\* at starting, in spite of failing commands and later saves, terminations, views
\* that write it too, and restarts.
LaunchDecided ==
    \A i \in Instances : rec[i].there /\ rec[i].launch = "starting"
                         ~> i \in stranded \/ ~(rec[i].there /\ rec[i].launch = "starting")
=============================================================================
