---------------------------- MODULE Provisioner ----------------------------
(***************************************************************************)
(* The lazy backend provisioner, core/backend_provisioner.py: HTTP handler *)
(* threads call provision_async, stop and status on one shared             *)
(* ProvisionState row per backend, and every accepted provision_async      *)
(* spawns a daemon worker that drives the Docker container.  Backends      *)
(* share nothing, so one backend is modelled.                              *)
(*                                                                         *)
(* Only the worker takes the per-backend mutex, and it takes it without    *)
(* blocking; the handlers read and write the row with no lock, so every    *)
(* read or write of the row and every Docker call is a step of its own.    *)
(*                                                                         *)
(* A thread stands for one provision_async call and then for the worker it *)
(* spawned: the call returns right after thread.start(), so nothing is     *)
(* lost by giving both the same identity.  Timestamps, the progress        *)
(* percentage and the error text are left out.                             *)
(***************************************************************************)
CONSTANTS
    Threads,   \* concurrent provision_async calls, with the worker of each
    Stoppers,  \* concurrent stop() calls
    Pollers,   \* concurrent status() calls
    NoOne,     \* the mutex is free
    Faults     \* whether Docker may fail or containers stop by themselves

ASSUME NoOneAssumption == NoOne \notin Threads
ASSUME FaultsAssumption == Faults \in BOOLEAN

VARIABLES
    st,         \* ProvisionState.state
    lock,       \* _provision_locks[name]: its holder, or NoOne
    container,  \* the Docker container of that name (external)
    pc,         \* pc[t]: where a provision call or its worker is
    stopping,   \* stopping[s]: where a stop() call is
    polling     \* polling[p]: what a status() call saw

vars == <<st, lock, container, pc, stopping, polling>>

States == {"absent", "pulling", "starting", "ready", "failed", "stopped"}
InFlight == {"pulling", "starting"}
ContainerStates == {"none", "exited", "running"}

\* The worker between the acquire and the release of the mutex.
Inside == {"find", "pull", "pulled", "run", "restart", "started", "wait",
           "healthy", "broken", "release"}

\* The worker has found no container and has not created one yet.
Creating == {"pull", "pulled", "run"}

TypeOK ==
    /\ st \in States
    /\ lock \in Threads \cup {NoOne}
    /\ container \in ContainerStates
    /\ pc \in [Threads -> Inside \cup {"idle", "reset", "acquire"}]
    /\ stopping \in [Stoppers -> {"idle", "stop", "mark"}]
    /\ polling \in [Pollers -> {"idle", "look", "gone"}]

(***************************************************************************)
(* A container may be left over from an earlier run of the simulator.      *)
(***************************************************************************)
Init ==
    /\ st = "absent"
    /\ lock = NoOne
    /\ container \in ContainerStates
    /\ pc = [t \in Threads |-> "idle"]
    /\ stopping = [s \in Stoppers |-> "idle"]
    /\ polling = [p \in Pollers |-> "idle"]

Goto(t, label) == pc' = [pc EXCEPT ![t] = label]

(***************************************************************************)
(* provision_async: return if the row says in flight or ready; otherwise   *)
(* reset the row (a second, unlocked access) and start the worker.         *)
(***************************************************************************)
ProvisionCheck(t) ==
    /\ pc[t] = "idle"
    /\ st \notin InFlight \cup {"ready"}
    /\ Goto(t, "reset")
    /\ UNCHANGED <<st, lock, container, stopping, polling>>

ProvisionReset(t) ==
    /\ pc[t] = "reset"
    /\ st' = "absent"
    /\ Goto(t, "acquire")
    /\ UNCHANGED <<lock, container, stopping, polling>>

(***************************************************************************)
(* _provision_worker.                                                      *)
(***************************************************************************)
\* Wrong on purpose: the acquire does not look at the mutex.
Wrong_Acquire(t) ==
    /\ pc[t] = "acquire"
    /\ lock' = t
    /\ Goto(t, "find")
    /\ UNCHANGED <<st, container, stopping, polling>>

Acquire(t) ==
    /\ pc[t] = "acquire"
    /\ lock = NoOne
    /\ lock' = t
    /\ Goto(t, "find")
    /\ UNCHANGED <<st, container, stopping, polling>>

\* acquire(blocking=False) failed: another worker is in charge.
GiveUp(t) ==
    /\ pc[t] = "acquire"
    /\ lock # NoOne
    /\ Goto(t, "idle")
    /\ UNCHANGED <<st, lock, container, stopping, polling>>

FindContainer(t) ==
    /\ pc[t] = "find"
    /\ \/ container = "none" /\ Goto(t, "pull")
       \/ container = "exited" /\ Goto(t, "restart")
       \/ container = "running" /\ Goto(t, "wait")
    /\ UNCHANGED <<st, lock, container, stopping, polling>>

BeginPull(t) ==
    /\ pc[t] = "pull"
    /\ st' = "pulling"
    /\ Goto(t, "pulled")
    /\ UNCHANGED <<lock, container, stopping, polling>>

\* The pull is over; _start_container announces itself.
BeginStart(t) ==
    /\ pc[t] = "pulled"
    /\ st' = "starting"
    /\ Goto(t, "run")
    /\ UNCHANGED <<lock, container, stopping, polling>>

\* containers.run: creates the container and starts it.
RunContainer(t) ==
    /\ pc[t] = "run"
    /\ container = "none"
    /\ container' = "running"
    /\ Goto(t, "wait")
    /\ UNCHANGED <<st, lock, stopping, polling>>

\* containers.run raises: the name is taken, or the container was created
\* but could not be started (a port in use).
RunFails(t) ==
    /\ pc[t] = "run"
    /\ \/ container # "none" /\ container' = container
       \/ Faults /\ container = "none" /\ container' = "exited"
    /\ Goto(t, "broken")
    /\ UNCHANGED <<st, lock, stopping, polling>>

BeginRestart(t) ==
    /\ pc[t] = "restart"
    /\ st' = "starting"
    /\ Goto(t, "started")
    /\ UNCHANGED <<lock, container, stopping, polling>>

\* existing.start(): an error if the container was removed meanwhile.
StartExisting(t) ==
    /\ pc[t] = "started"
    /\ IF container = "none"
       THEN container' = container /\ Goto(t, "broken")
       ELSE container' = "running" /\ Goto(t, "wait")
    /\ UNCHANGED <<st, lock, stopping, polling>>

\* _wait_for_ready: a probe can only succeed while the container runs.
ProbeSucceeds(t) ==
    /\ pc[t] = "wait"
    /\ container = "running"
    /\ Goto(t, "healthy")
    /\ UNCHANGED <<st, lock, container, stopping, polling>>

\* health_timeout_s elapsed: the container is down, or never got healthy.
ProbeTimesOut(t) ==
    /\ pc[t] = "wait"
    /\ Faults \/ container # "running"
    /\ Goto(t, "broken")
    /\ UNCHANGED <<st, lock, container, stopping, polling>>

MarkReady(t) ==
    /\ pc[t] = "healthy"
    /\ st' = "ready"
    /\ Goto(t, "release")
    /\ UNCHANGED <<lock, container, stopping, polling>>

\* A Docker call raised: the pull, the network, the run or the start.
DockerError(t) ==
    /\ Faults
    /\ pc[t] \in {"find", "pulled", "run", "started"}
    /\ Goto(t, "broken")
    /\ UNCHANGED <<st, lock, container, stopping, polling>>

\* Wrong on purpose: the except branch keeps the error but not the state.
Wrong_MarkFailed(t) ==
    /\ pc[t] = "broken"
    /\ Goto(t, "release")
    /\ UNCHANGED <<st, lock, container, stopping, polling>>

\* Wrong on purpose: the release is not in a finally block.
Wrong_MarkFailedKeepsLock(t) ==
    /\ pc[t] = "broken"
    /\ st' = "failed"
    /\ Goto(t, "idle")
    /\ UNCHANGED <<lock, container, stopping, polling>>

MarkFailed(t) ==
    /\ pc[t] = "broken"
    /\ st' = "failed"
    /\ Goto(t, "release")
    /\ UNCHANGED <<lock, container, stopping, polling>>

Release(t) ==
    /\ pc[t] = "release"
    /\ lock' = NoOne
    /\ Goto(t, "idle")
    /\ UNCHANGED <<st, container, stopping, polling>>

Worker(t) ==
    \/ Acquire(t) \/ GiveUp(t) \/ FindContainer(t)
    \/ BeginPull(t) \/ BeginStart(t) \/ RunContainer(t) \/ RunFails(t)
    \/ BeginRestart(t) \/ StartExisting(t)
    \/ ProbeSucceeds(t) \/ ProbeTimesOut(t)
    \/ MarkReady(t) \/ DockerError(t) \/ MarkFailed(t) \/ Release(t)

(***************************************************************************)
(* stop(): look the container up, stop it if it runs, then mark the row.   *)
(* It takes no lock.  A Docker error leaves the row as it is.              *)
(***************************************************************************)
StopFind(s) ==
    /\ stopping[s] = "idle"
    /\ stopping' = [stopping EXCEPT
            ![s] = IF container = "running" THEN "stop" ELSE "mark"]
    /\ UNCHANGED <<st, lock, container, pc, polling>>

StopContainer(s) ==
    /\ stopping[s] = "stop"
    /\ container # "none"
    /\ container' = "exited"
    /\ stopping' = [stopping EXCEPT ![s] = "mark"]
    /\ UNCHANGED <<st, lock, pc, polling>>

StopFails(s) ==
    /\ stopping[s] = "stop"
    /\ Faults \/ container = "none"
    /\ stopping' = [stopping EXCEPT ![s] = "idle"]
    /\ UNCHANGED <<st, lock, container, pc, polling>>

StopMark(s) ==
    /\ stopping[s] = "mark"
    /\ st' = "stopped"
    /\ stopping' = [stopping EXCEPT ![s] = "idle"]
    /\ UNCHANGED <<lock, container, pc, polling>>

(***************************************************************************)
(* status(): a ready row is checked against Docker (at most every 10       *)
(* seconds) and flipped to stopped when the container is gone.             *)
(***************************************************************************)
StatusLook(p) ==
    /\ polling[p] = "idle"
    /\ st = "ready"
    /\ polling' = [polling EXCEPT ![p] = "look"]
    /\ UNCHANGED <<st, lock, container, pc, stopping>>

StatusFind(p) ==
    /\ polling[p] = "look"
    /\ polling' = [polling EXCEPT
            ![p] = IF container = "running" THEN "idle" ELSE "gone"]
    /\ UNCHANGED <<st, lock, container, pc, stopping>>

StatusFlip(p) ==
    /\ polling[p] = "gone"
    /\ st' = "stopped"
    /\ polling' = [polling EXCEPT ![p] = "idle"]
    /\ UNCHANGED <<lock, container, pc, stopping>>

(***************************************************************************)
(* The environment.  Docker: a container stops or is removed from outside, *)
(* and one that exited is started again (restart_policy unless-stopped).   *)
(* The simulator process restarts: row, mutex and threads are memory only, *)
(* the container stays.                                                    *)
(***************************************************************************)
ContainerExits ==
    /\ Faults
    /\ container = "running"
    /\ container' = "exited"
    /\ UNCHANGED <<st, lock, pc, stopping, polling>>

ContainerRestarts ==
    /\ Faults
    /\ container = "exited"
    /\ container' = "running"
    /\ UNCHANGED <<st, lock, pc, stopping, polling>>

ContainerRemoved ==
    /\ Faults
    /\ container # "none"
    /\ container' = "none"
    /\ UNCHANGED <<st, lock, pc, stopping, polling>>

Restart ==
    /\ Faults
    /\ st' = "absent"
    /\ lock' = NoOne
    /\ pc' = [t \in Threads |-> "idle"]
    /\ stopping' = [s \in Stoppers |-> "idle"]
    /\ polling' = [p \in Pollers |-> "idle"]
    /\ UNCHANGED container

Next ==
    \/ \E t \in Threads : ProvisionCheck(t) \/ ProvisionReset(t) \/ Worker(t)
    \/ \E s \in Stoppers :
          StopFind(s) \/ StopContainer(s) \/ StopFails(s) \/ StopMark(s)
    \/ \E p \in Pollers : StatusLook(p) \/ StatusFind(p) \/ StatusFlip(p)
    \/ ContainerExits
    \/ ContainerRestarts
    \/ ContainerRemoved
    \/ Restart

(***************************************************************************)
(* Threads that have started keep running (the operating system schedules  *)
(* them, every Docker call and the health probe have a timeout); nobody    *)
(* has to make a call.                                                     *)
(***************************************************************************)
Fairness ==
    /\ \A t \in Threads : WF_vars(ProvisionReset(t)) /\ WF_vars(Worker(t))
    /\ \A s \in Stoppers :
          WF_vars(StopContainer(s) \/ StopFails(s) \/ StopMark(s))
    /\ \A p \in Pollers : WF_vars(StatusFind(p) \/ StatusFlip(p))

Spec == Init /\ [][Next]_vars
FairSpec == Spec /\ Fairness

----------------------------------------------------------------------------

\* The mutex does its work: the threads inside the worker body are exactly
\* its holder.
LockDiscipline == \A t \in Threads : pc[t] \in Inside <=> lock = t

\* A row that says "pulling" or "starting" makes provision_async return at
\* once, so it must never outlive the worker that wrote it: whatever the
\* handlers do to the row, an in-flight row has a worker behind it.
InFlightHasWorker == st \in InFlight => lock # NoOne

\* containers.run is only ever called for a name that is free: the lookup
\* that found nothing is still true after a pull of many minutes.
NoNameConflict == \A t \in Threads : pc[t] \in Creating => container = "none"

\* provision_async refuses to act on an in-flight row, so such a row may
\* not stay for ever: it is resolved or overwritten.
InFlightResolves == st \in InFlight ~> st \notin InFlight

\* The mutex is always given back, on every error path of the worker.
LockReleased == \A t \in Threads : lock = t ~> lock # t

=============================================================================
