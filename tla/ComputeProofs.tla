---------------------------- MODULE ComputeProofs ----------------------------
(***************************************************************************)
(* Proofs about Compute for any instances, launch threads and requests,    *)
(* with failing commands and saves, deleted spaces and restarts.           *)
(*                                                                         *)
(* Sound(i) says what holds of one instance, and the safety properties     *)
(* follow from it: as long as nothing disturbed i, whoever is at work on   *)
(* it finds what its first step found, and a container is never younger    *)
(* than the record that a restart would load for it.                       *)
(***************************************************************************)
EXTENDS Compute, FiniteSetTheorems, TLAPS

Live(i) == rec[i].there /\ rec[i].state # "terminated"

\* What a request under way may still count on.
Undisturbed(i, q) ==
    /\ q.op = "terminate" => lxd[i] = "none" /\ Launching(i) = {}
    /\ q.op = "view" /\ rec[i].state = "terminated" => q.seen = "none"
    /\ q.op \in {"reboot", "restart"} => rec[i].state # "terminated"

\* The terminations that talk to no container pass over one that the record does
\* not name only after a restart has not found it.
Reachable(i) ==
    \/ rec[i].named
    \/ /\ ~rec[i].gone /\ rec[i].launch # "error"
       /\ \A n \in Threads : launcher[i][n] \in {"idle", "queued", "ensure"}
       /\ \A t \in Serving(i) : request[t].op = "view" => request[t].seen # "none"

Core(i) ==
    /\ rec[i].there \/ Serving(i) # {} => rec[i].state # "none"
    /\ deleted => i \in disturbed
    /\ i \notin disturbed =>
          /\ Launching(i) # {} => Live(i)
          /\ lxd[i] # "none" => Live(i) /\ Reachable(i)
          /\ \A t \in Serving(i) : Undisturbed(i, request[t])

\* i has a container, or a launcher that may make one.
Past(i) == lxd[i] # "none" \/ \E n \in Threads : launcher[i][n] \notin {"idle", "queued"}

\* The state saved last has the record of an instance that has a container.
OnDisk(i) ==
    /\ disk[i].there => disk[i].state # "none"
    /\ i \notin disturbed /\ Restarting /\ Past(i) =>
          disk[i].there /\ disk[i].state # "terminated"

Sound(i) == Core(i) /\ OnDisk(i)

\* A request that is under way is about an instance.
Targeted == \A t \in Requests : request[t].op # "idle" => Target(t) \in Instances

IInv == TypeOK /\ Targeted /\ \A i \in Instances : Sound(i)

----------------------------------------------------------------------------
(* Types. *)

Positions == {"idle", "queued", "ensure", "launch", "start", "done", "failed"}
Served == [op : {"idle", "view", "stop", "reboot", "restart", "terminate"},
           inst : Instances \cup {NoInstance}, seen : Container]

LEMMA Typed ==
    ASSUME TypeOK, NEW i \in Instances
    PROVE  /\ rec[i] \in Record /\ lxd[i] \in Container
           /\ launcher[i] \in [Threads -> Positions]
BY DEF TypeOK, Positions

LEMMA SyncedTyped ==
    ASSUME NEW r \in Record, NEW status \in Container
    PROVE  /\ Synced(r, status) \in Record /\ Pruned(r) \in Record
           /\ Synced(r, status).there = r.there /\ Synced(r, status).named = r.named
           /\ Synced(r, status).gone = (status = "none")
           /\ Synced(r, status).launch # "error"
           /\ Synced(r, status).state \in {"running", "stopped", "terminated"}
           /\ Synced(r, status).state = "terminated"
                 <=> r.state = "terminated" /\ status = "none"
BY DEF Synced, Pruned, Record, Container

LEMMA FieldTyped ==
    ASSUME NEW r \in Record
    PROVE  [r EXCEPT !.named = TRUE] \in Record
BY DEF Record

\* What a step leaves on disk.
SavedAs(i) == \/ disk'[i] = disk[i] \/ disk'[i] = rec'[i]
              \/ deleted /\ disk'[i] = NoRecord

LEMMA SaveTyped ==
    ASSUME TypeOK, rec' \in [Instances -> Record],
           \/ Persist \/ PersistFails \/ UNCHANGED disk
    PROVE  disk' \in [Instances -> Record] /\ \A i \in Instances : SavedAs(i)
<1>1. NoRecord \in Record
    BY DEF NoRecord, Record
<1>2. QED
    BY <1>1 DEF TypeOK, Persist, PersistFails, SavedAs

LEMMA StepTyped ==
    ASSUME TypeOK, NEW i \in Instances, NEW n \in Threads, NEW from,
           NEW to \in Positions, Step(i, n, from, to)
    PROVE  launcher' \in [Instances -> [Threads -> Positions]]
<1>1. [launcher[i] EXCEPT ![n] = to] \in [Threads -> Positions]
    BY Typed
<1>2. launcher' = [launcher EXCEPT ![i] = [launcher[i] EXCEPT ![n] = to]]
    BY DEF Step, TypeOK
<1>3. QED
    BY <1>1, <1>2 DEF TypeOK, Positions

LEMMA LauncherTyped ==
    ASSUME TypeOK, Targeted, NEW i \in Instances, NEW n \in Threads,
           LauncherStep(i, n)
    PROVE  TypeOK' /\ Targeted'
<1>1. \E from \in Positions, to \in Positions : Step(i, n, from, to)
    BY DEF LauncherStep, LookUp, EnsureContainer, Launch, StartContainer,
           CommandFails, Launched, LaunchFailed, Positions
<1>7. Persist \/ PersistFails \/ UNCHANGED disk
    BY DEF LauncherStep, LookUp, EnsureContainer, Launch, StartContainer,
           CommandFails, Launched, LaunchFailed
<1>2. launcher' \in [Instances -> [Threads -> Positions]]
    BY <1>1, StepTyped
<1>3. UNCHANGED <<load, request, deleted, restarts>>
    BY <1>1 DEF Step
<1>4. rec' \in [Instances -> Record]
    <2>1. rec[i] \in Record /\ rec \in [Instances -> Record]
        BY Typed DEF TypeOK
    <2>2. CASE LookUp(i, n)
        BY <2>1, <2>2 DEF LookUp, Record
    <2>3. CASE EnsureContainer(i, n)
        <3>1. \/ rec' = rec
              \/ rec' = [rec EXCEPT ![i].named = TRUE]
            BY <2>3 DEF EnsureContainer
        <3>2. QED
            BY <2>1, <3>1, FieldTyped DEF TypeOK
    <2>4. CASE Launch(i, n)
        BY <2>1, <2>4 DEF Launch, Record
    <2>5. CASE StartContainer(i, n) \/ CommandFails(i, n)
        BY <2>1, <2>5 DEF StartContainer, CommandFails
    <2>6. CASE Launched(i, n)
        BY <2>1, <2>6 DEF Launched, Record
    <2>7. CASE LaunchFailed(i, n)
        BY <2>1, <2>7 DEF LaunchFailed, Record
    <2>8. QED
        BY <2>2, <2>3, <2>4, <2>5, <2>6, <2>7 DEF LauncherStep
<1>5. lxd' \in [Instances -> Container] /\ disturbed' \subseteq Instances
    BY DEF LauncherStep, LookUp, EnsureContainer, Launch, StartContainer,
           CommandFails, Launched, LaunchFailed, Container, TypeOK
<1>8. stranded' \subseteq Instances
    BY DEF LauncherStep, LookUp, EnsureContainer, Launch, StartContainer,
           CommandFails, Launched, LaunchFailed, TypeOK
<1>9. disk' \in [Instances -> Record]
    BY <1>4, <1>7, SaveTyped
<1>6. QED
    BY <1>2, <1>3, <1>4, <1>5, <1>8, <1>9 DEF TypeOK, Positions, Targeted, Target

LEMMA QueueTyped ==
    ASSUME TypeOK, NEW i \in Instances, NEW r \in Record, Queue(i, r)
    PROVE  /\ launcher' \in [Instances -> [Threads -> Positions]]
           /\ rec' \in [Instances -> Record]
<1>1. PICK n \in Threads :
          /\ launcher' = [launcher EXCEPT ![i] = [launcher[i] EXCEPT ![n] = "queued"]]
          /\ rec' = [rec EXCEPT ![i] = r]
    BY ComputeAssumption DEF Queue, TypeOK
<1>2. [launcher[i] EXCEPT ![n] = "queued"] \in [Threads -> Positions]
    BY Typed DEF Positions
<1>3. QED
    BY <1>1, <1>2 DEF TypeOK, Positions

LEMMA CreatedTyped ==
    ASSUME TypeOK, NEW i \in Instances
    PROVE  NewRecord(i) \in Record /\ Requested(i) \in Record
BY Typed DEF NewRecord, NoRecord, Requested, Record

LEMMA MetTyped ==
    ASSUME disturbed \subseteq Instances, NEW i \in Instances, NEW threads,
           Met(i, threads)
    PROVE  disturbed' \subseteq Instances
BY DEF Met

LEMMA BeginTyped ==
    ASSUME TypeOK, NEW t, NEW i \in Instances,
           NEW op \in {"view", "stop", "reboot", "terminate"}, Begin(t, op, i)
    PROVE  request' \in [Requests -> Served]
<1>1. [op |-> op, inst |-> i, seen |-> lxd[i]] \in Served
    BY Typed DEF Served
<1>2. QED
    BY <1>1 DEF Begin, TypeOK, Served

LEMMA EndTyped ==
    ASSUME TypeOK, NEW t \in Requests, NEW op, End(t, op)
    PROVE  request' \in [Requests -> Served]
BY DEF End, TypeOK, Served, Idle, Container

LEMMA RequestTyped ==
    ASSUME TypeOK, Targeted, NEW t \in Requests, RequestStep(t)
    PROVE  TypeOK' /\ Targeted'
<1> SUFFICES TypeOK'
    <2> DEFINE Words == {"view", "stop", "reboot", "restart", "terminate"}
    <2>1. \/ \E op \in Words : End(t, op)
          \/ Reboot(t)
          \/ \E op \in Words, i \in Instances : Begin(t, op, i)
        <3>1. ASSUME NEW i \in Instances,
                     \/ BeginView(t, i) \/ BeginStop(t, i)
                     \/ BeginReboot(t, i) \/ BeginTerminate(t, i)
              PROVE  \E op \in Words : Begin(t, op, i)
            BY <3>1 DEF BeginView, BeginStop, BeginReboot, BeginTerminate
        <3>2. ASSUME EndView(t) \/ EndStop(t) \/ EndReboot(t) \/ EndTerminate(t)
              PROVE  \E op \in Words : End(t, op)
            BY <3>2 DEF EndView, EndStop, EndReboot, EndTerminate
        <3>3. QED
            BY <3>1, <3>2 DEF RequestStep
    <2>2. Targeted'
        <3>1. request \in [Requests -> Served]
            BY DEF TypeOK, Served
        <3>2. ASSUME NEW op \in Words, End(t, op) PROVE Targeted'
            BY <3>1, <3>2 DEF End, Targeted, Target, Idle
        <3>3. CASE Reboot(t)
            BY <3>1, <3>3 DEF Reboot, Targeted, Target
        <3>4. ASSUME NEW op \in Words, NEW i \in Instances, Begin(t, op, i) PROVE Targeted'
            BY <3>1, <3>4 DEF Begin, Targeted, Target
        <3>5. QED
            BY <2>1, <3>2, <3>3, <3>4
    <2>3. QED
        BY <2>2
<1>1. rec \in [Instances -> Record] /\ lxd \in [Instances -> Container]
    BY DEF TypeOK
<1>2. request[t] \in Served /\ request \in [Requests -> Served]
    BY DEF TypeOK, Served
<1>3. \A i \in Instances, state \in {"stopped", "running"} : Settled(i, state) \in Record
    BY <1>1 DEF Settled, Record
<1>4. CASE EndView(t)
    <2>1. rec' \in [Instances -> Record]
        BY <1>1, <1>2, <1>4, SyncedTyped DEF EndView, Served
    <2>2. QED
        BY <1>4, <2>1, EndTyped DEF EndView, End, saved, TypeOK, Served
<1>5. CASE EndStop(t)
    <2>1. rec' \in [Instances -> Record]
        BY <1>1, <1>3, <1>5 DEF EndStop
    <2>2. QED
        BY <1>5, <2>1, EndTyped DEF EndStop, End, saved, TypeOK, Served
<1>6. CASE Reboot(t)
    <2>1. rec' \in [Instances -> Record]
        BY <1>1, <1>6 DEF Reboot, Record
    <2>2. request' \in [Requests -> Served]
        BY <1>2, <1>6 DEF Reboot, Served
    <2>3. QED
        BY <1>6, <2>1, <2>2 DEF Reboot, saved, TypeOK, Served
<1>7. CASE EndReboot(t)
    <2>1. rec' \in [Instances -> Record] /\ lxd' \in [Instances -> Container]
        BY <1>1, <1>3, <1>7 DEF EndReboot, Container
    <2>2. QED
        BY <1>7, <2>1, EndTyped DEF EndReboot, End, saved, TypeOK, Served
<1>8. CASE EndTerminate(t)
    <2>1. rec' \in [Instances -> Record]
        BY <1>1, <1>8 DEF EndTerminate, Terminated, Record
    <2>2. disturbed' \subseteq Instances
        BY <1>8 DEF EndTerminate, Met, End, Targeted, TypeOK
    <2>3. QED
        BY <1>8, <2>1, <2>2, EndTyped DEF EndTerminate, End, saved, TypeOK, Served
<1>9. ASSUME NEW i \in Instances,
             \/ BeginView(t, i) \/ BeginStop(t, i)
             \/ BeginReboot(t, i) \/ BeginTerminate(t, i)
      PROVE  TypeOK'
    <2>1. request' \in [Requests -> Served]
        BY <1>9, BeginTyped DEF BeginView, BeginStop, BeginReboot, BeginTerminate
    <2>2. UNCHANGED <<load, rec, launcher, saved, restarts, stranded>>
        BY <1>9 DEF BeginView, BeginStop, BeginReboot, BeginTerminate, Begin
    <2>3. lxd' \in [Instances -> Container]
        BY <1>1, <1>9
        DEF BeginView, BeginStop, BeginReboot, BeginTerminate, Container
    <2>4. disturbed' \subseteq Instances
        BY <1>9 DEF BeginView, BeginStop, BeginReboot, BeginTerminate, Met, TypeOK
    <2>5. QED
        BY <2>1, <2>2, <2>3, <2>4 DEF saved, TypeOK, Served
<1>10. QED
    BY <1>4, <1>5, <1>6, <1>7, <1>8, <1>9 DEF RequestStep

LEMMA OthersTyped ==
    ASSUME TypeOK, Targeted, NEW i \in Instances,
           \/ Create(i) \/ Start(i) \/ TerminateSimulated(i) \/ Prune(i)
    PROVE  TypeOK' /\ Targeted'
<1> SUFFICES TypeOK'
    BY DEF Create, Start, TerminateSimulated, Prune, Targeted, Target
<1>1. CASE Create(i)
    <2>1. rec' \in [Instances -> Record]
          /\ launcher' \in [Instances -> [Threads -> Positions]]
        BY <1>1, QueueTyped, CreatedTyped DEF Create
    <2>2. QED
        BY <1>1, <2>1 DEF Create, saved, TypeOK, Positions
<1>2. CASE Start(i)
    <2>1. rec' \in [Instances -> Record]
          /\ launcher' \in [Instances -> [Threads -> Positions]]
        BY <1>2, QueueTyped, CreatedTyped DEF Start
    <2>2. disturbed' \subseteq Instances
        BY <1>2 DEF Start, Met, TypeOK
    <2>3. QED
        BY <1>2, <2>1, <2>2 DEF Start, saved, TypeOK, Positions
<1>3. CASE TerminateSimulated(i)
    <2>1. rec' \in [Instances -> Record]
        <3>1. [rec[i] EXCEPT !.state = "terminated", !.gone = FALSE] \in Record
            BY Typed DEF Record
        <3>2. rec \in [Instances -> Record]
            BY DEF TypeOK
        <3>3. QED
            BY <1>3, <3>1, <3>2 DEF TerminateSimulated, Terminated
    <2>2. disturbed' \subseteq Instances
        BY <1>3 DEF TerminateSimulated, Met, TypeOK
    <2>3. QED
        BY <1>3, <2>1, <2>2 DEF TerminateSimulated, saved, TypeOK
<1>4. CASE Prune(i)
    <2>1. rec' \in [Instances -> Record]
        BY <1>4, SyncedTyped, Typed DEF Prune, TypeOK, Container
    <2>2. disk' \in [Instances -> Record]
        BY <1>4, <2>1, SaveTyped DEF Prune
    <2>3. QED
        BY <1>4, <2>1, <2>2 DEF Prune, TypeOK
<1>5. QED
    BY <1>1, <1>2, <1>3, <1>4

LEMMA SpaceTyped ==
    ASSUME TypeOK, Targeted, Save \/ DeleteSpace
    PROVE  TypeOK' /\ Targeted'
<1>1. CASE Save
    <2>1. rec' \in [Instances -> Record]
        BY <1>1 DEF Save, TypeOK
    <2>2. disk' \in [Instances -> Record]
        BY <1>1, <2>1, SaveTyped DEF Save
    <2>3. QED
        BY <1>1, <2>2 DEF Save, TypeOK, Targeted, Target
<1>2. CASE DeleteSpace
    BY <1>2 DEF DeleteSpace, TypeOK, Targeted, Target
<1>3. QED
    BY <1>1, <1>2

LEMMA RestartTyped ==
    ASSUME TypeOK, Restart
    PROVE  TypeOK' /\ Targeted'
<1> SUFFICES TypeOK'
    BY DEF Restart, Targeted, Idle
<1>1. PICK old \in SUBSET Instances :
         rec' = [i \in Instances |->
            IF i \in old
            THEN Pruned(IF disk[i].there THEN Synced(disk[i], lxd[i]) ELSE disk[i])
            ELSE IF disk[i].there THEN Synced(disk[i], lxd[i]) ELSE disk[i]]
    BY DEF Restart
<1>2. rec' \in [Instances -> Record]
    <2>1. \A i \in Instances : disk[i] \in Record /\ lxd[i] \in Container
        BY DEF TypeOK
    <2>2. QED
        BY <1>1, <2>1, SyncedTyped
<1>3. launcher' \in [Instances -> [Threads -> Positions]]
    BY DEF Restart, Positions
<1>4. request' \in [Requests -> Served]
    BY DEF Restart, Served, Idle, Container
<1>5. restarts' \in 0 .. MaxRestarts
    BY ComputeAssumption DEF Restart, TypeOK
<1>6. deleted' \in BOOLEAN
    BY DEF Restart, TypeOK
<1>7. QED
    BY <1>2, <1>3, <1>4, <1>5, <1>6 DEF Restart, TypeOK, Positions, Served

LEMMA KeptTyped ==
    ASSUME TypeOK, Targeted, UNCHANGED vars
    PROVE  TypeOK' /\ Targeted'
BY DEF TypeOK, Targeted, Target, vars

LEMMA InitTyped == Init => TypeOK /\ Targeted
<1> SUFFICES ASSUME Init PROVE TypeOK /\ Targeted
    OBVIOUS
<1>1. rec \in [Instances -> Record]
    BY DEF Init, NoRecord, Record
<1>2. request \in [Requests -> Served] /\ Targeted
    BY DEF Init, Idle, Served, Container, Targeted
<1>3. /\ launcher \in [Instances -> [Threads -> Positions]]
      /\ lxd \in [Instances -> Container] /\ restarts \in 0 .. MaxRestarts
    BY ComputeAssumption DEF Init, Positions, Container
<1>4. disk \in [Instances -> Record]
    BY <1>1 DEF Init
<1>5. QED
    BY <1>1, <1>2, <1>3, <1>4 DEF Init, TypeOK, Served, Positions

LEMMA NextTyped == TypeOK /\ Targeted /\ [Next]_vars => TypeOK' /\ Targeted'
BY LauncherTyped, RequestTyped, OthersTyped, SpaceTyped, RestartTyped, KeptTyped DEF Next

\* Records, containers, threads and requests stay within their types.
THEOREM TypeCorrect == Spec => []TypeOK
BY InitTyped, NextTyped, PTL DEF Spec

----------------------------------------------------------------------------
(* Soundness of an instance. *)

AllSound == \A i \in Instances : Sound(i)

\* What is saved of a sound instance is sound: a step after which i has a
\* container, or may get one, finds it that way or saves the record.
LEMMA DiskKept ==
    ASSUME NEW i \in Instances, OnDisk(i), Core(i), Core(i)', SavedAs(i),
           load' = load, i \in disturbed => i \in disturbed',
           i \notin disturbed' /\ Restarting /\ Past(i)' => Past(i) \/ disk'[i] = rec'[i]
    PROVE  OnDisk(i)'
<1>1. Restarting' = Restarting
    BY DEF Restarting
<1>2. CASE disk'[i] = rec'[i]
    <2>1. i \notin disturbed' /\ Past(i)' => Live(i)'
        BY DEF Core, Past, Launching
    <2>2. QED
        BY <1>2, <2>1 DEF OnDisk, Core, Live
<1>3. CASE disk'[i] = disk[i] /\ disk'[i] # rec'[i]
    BY <1>1, <1>3 DEF OnDisk
<1>4. CASE deleted /\ disk'[i] = NoRecord
    BY <1>4 DEF OnDisk, Core, NoRecord
<1>5. QED
    BY <1>2, <1>3, <1>4 DEF SavedAs

\* What is not about j leaves j as it was.
LEMMA Elsewhere ==
    ASSUME NEW j \in Instances, Sound(j), SavedAs(j),
           rec'[j] = rec[j], lxd'[j] = lxd[j], launcher'[j] = launcher[j],
           load' = load, deleted' = deleted, j \in disturbed => j \in disturbed',
           \A t \in Requests : request'[t].inst = j => request'[t] = request[t]
    PROVE  Sound(j)'
<1>1. Launching(j)' = Launching(j) /\ Past(j)' = Past(j)
    BY DEF Launching, Past
<1>2. Serving(j)' \subseteq Serving(j)
    BY DEF Serving
<1>3. \A t \in Serving(j)' : request'[t] = request[t]
    BY DEF Serving
<1>4. Reachable(j) => Reachable(j)'
    BY <1>2, <1>3 DEF Reachable
<1>5. Core(j)'
    BY <1>1, <1>2, <1>3, <1>4 DEF Sound, Core, Live, Undisturbed
<1>6. QED
    BY <1>1, <1>5, DiskKept DEF Sound

LEMMA LauncherSound ==
    ASSUME TypeOK, TypeOK', AllSound, NEW i \in Instances, NEW n \in Threads,
           LauncherStep(i, n)
    PROVE  AllSound'
<1>1. /\ rec \in [Instances -> Record] /\ lxd \in [Instances -> Container]
      /\ launcher \in [Instances -> [Threads -> Positions]]
    BY DEF TypeOK, Positions
<1>2. PICK from \in Positions \ {"idle"}, to \in Positions : Step(i, n, from, to)
    BY DEF LauncherStep, LookUp, EnsureContainer, Launch, StartContainer,
           CommandFails, Launched, LaunchFailed, Positions
<1>3. /\ n \in Launching(i) /\ Launching(i)' \subseteq Launching(i)
      /\ Serving(i)' = Serving(i) /\ UNCHANGED <<load, request, deleted>>
    BY <1>1, <1>2 DEF Step, Launching, Serving, Positions
<1>4. \A j \in Instances : SavedAs(j)
    <2>1. Persist \/ PersistFails \/ UNCHANGED disk
        BY DEF LauncherStep, LookUp, EnsureContainer, Launch, StartContainer,
               CommandFails, Launched, LaunchFailed
    <2>2. rec' \in [Instances -> Record]
        BY DEF TypeOK
    <2>3. QED
        BY <2>1, <2>2, SaveTyped
<1>5. ASSUME NEW j \in Instances, j # i PROVE Sound(j)'
    <2>1. /\ launcher'[j] = launcher[j]
          /\ \A t \in Requests : request'[t] = request[t]
        BY <1>1, <1>2, <1>5 DEF Step
    <2>2. rec'[j] = rec[j] /\ lxd'[j] = lxd[j]
          /\ (j \in disturbed <=> j \in disturbed')
        BY <1>1, <1>5
        DEF LauncherStep, LookUp, EnsureContainer, Launch, StartContainer,
            CommandFails, Launched, LaunchFailed
    <2>3. QED
        BY <1>3, <1>4, <2>1, <2>2, Elsewhere DEF AllSound
<1>6. /\ Core(i) /\ OnDisk(i) /\ rec[i] \in Record /\ lxd[i] \in Container
      /\ i \notin disturbed => Live(i) /\ rec[i].state # "none"
    <2>1. Core(i) /\ OnDisk(i) /\ rec[i] \in Record /\ lxd[i] \in Container
        BY <1>1 DEF AllSound, Sound
    <2>2. QED
        BY <1>3, <2>1 DEF Core, Live
\* The launcher's instance with a container that its record does not name: the
\* thread is not further than the lookup.
<1>7. i \notin disturbed /\ lxd[i] # "none" /\ ~rec[i].named =>
          /\ from \in {"queued", "ensure"}
          /\ ~rec[i].gone /\ rec[i].launch # "error"
          /\ \A m \in Threads : launcher[i][m] \in {"idle", "queued", "ensure"}
          /\ \A t \in Serving(i) : request[t].op = "view" => request[t].seen # "none"
    BY <1>2, <1>6 DEF Core, Reachable, Step
\* What a launcher does to its own instance: it never says terminated, names the
\* container it makes, and a command that fails disturbs.
<1>8. /\ rec'[i].there = rec[i].there /\ (rec'[i].state = "none" => rec[i].state = "none")
      /\ i \in disturbed => i \in disturbed'
      /\ i \notin disturbed' =>
            /\ i \notin disturbed
            /\ rec'[i].state # "terminated"
            /\ rec[i].named => rec'[i].named
            /\ lxd'[i] # "none" => lxd[i] # "none" \/ rec'[i].named
            /\ lxd'[i] # "none" /\ ~rec'[i].named =>
                  ~rec'[i].gone /\ rec'[i].launch # "error" /\ to \in {"idle", "ensure"}
            /\ Past(i)' /\ Restarting => Past(i) \/ disk'[i] = rec'[i]
    <2>1. CASE LookUp(i, n)
        <3>1. /\ rec' = rec \/ rec' = [rec EXCEPT ![i].launch = "starting"]
              /\ UNCHANGED <<lxd, disturbed>>
            BY <2>1 DEF LookUp
        <3>2. from = "queued" /\ to \in {"idle", "ensure"}
            BY <1>1, <1>2, <2>1 DEF LookUp, Step, Positions
        <3>3. to = "ensure" => Persist
            BY <1>1, <1>2, <2>1 DEF LookUp, Step, Positions
        <3>4. to = "idle" => (Past(i)' => Past(i))
            BY <1>1, <1>2, <3>1 DEF Past, Step
        <3>5. i \notin disturbed /\ Restarting /\ Persist => disk'[i] = rec'[i]
            BY <1>6 DEF Persist, Core
        <3>6. QED
            BY <1>1, <1>6, <1>7, <3>1, <3>2, <3>3, <3>4, <3>5 DEF Live, Record
    <2>9. CASE ~LookUp(i, n)
        <3>1. launcher[i][n] \notin {"idle", "queued"}
            BY <2>9 DEF LauncherStep, LookUp, EnsureContainer, Launch, StartContainer,
                        CommandFails, Launched, LaunchFailed, Step
        <3>2. Past(i)
            BY <3>1 DEF Past
        <3>3. CASE EnsureContainer(i, n)
            <4>1. /\ \/ rec' = rec /\ (rec[i].state = "terminated" \/ lxd[i] = "none")
                     \/ rec' = [rec EXCEPT ![i].named = TRUE]
                  /\ UNCHANGED <<lxd, disturbed>>
                BY <3>3 DEF EnsureContainer
            <4>2. QED
                BY <1>1, <1>6, <3>2, <4>1 DEF Live, Record
        <3>4. CASE Launch(i, n)
            BY <1>1, <1>6, <3>2, <3>4 DEF Launch, Live
        <3>5. CASE StartContainer(i, n)
            <4>1. from = "start"
                BY <1>2, <3>5 DEF StartContainer, Step
            <4>2. QED
                BY <1>1, <1>6, <1>7, <3>2, <3>5, <4>1 DEF StartContainer, Live
        <3>6. CASE CommandFails(i, n)
            <4>1. /\ UNCHANGED rec
                  /\ disturbed' = IF Faulty THEN disturbed \cup {i} ELSE disturbed
                  /\ Faulty \/ UNCHANGED lxd
                BY <3>6 DEF CommandFails
            <4>2. from \in {"launch", "start"}
                BY <1>2, <3>6 DEF CommandFails, Step
            <4>3. QED
                BY <1>6, <1>7, <3>2, <4>1, <4>2, ComputeAssumption DEF Live
        <3>7. CASE Launched(i, n)
            <4>1. from = "done"
                BY <1>2, <3>7 DEF Launched, Step
            <4>2. /\ UNCHANGED <<lxd, disturbed>> /\ rec'[i].state = "running"
                  /\ rec'[i].there = rec[i].there /\ rec'[i].named = rec[i].named
                BY <1>1, <1>6, <3>7 DEF Launched, Record
            <4>3. QED
                BY <1>6, <1>7, <3>2, <4>1, <4>2
        <3>8. CASE LaunchFailed(i, n)
            <4>1. from = "failed"
                BY <1>2, <3>8 DEF LaunchFailed, Step
            <4>2. /\ UNCHANGED <<lxd, disturbed>> /\ rec'[i].state = rec[i].state
                  /\ rec'[i].there = rec[i].there /\ rec'[i].named = rec[i].named
                BY <1>1, <1>6, <3>8 DEF LaunchFailed, Record
            <4>3. QED
                BY <1>6, <1>7, <3>2, <4>1, <4>2 DEF Live
        <3>9. QED
            BY <2>9, <3>3, <3>4, <3>5, <3>6, <3>7, <3>8 DEF LauncherStep
    <2>10. QED
        BY <2>1, <2>9
<1>9. Core(i)'
    <2>1. rec'[i].there \/ Serving(i)' # {} => rec'[i].state # "none"
        BY <1>3, <1>6, <1>8 DEF Core
    <2>2. ASSUME i \notin disturbed' PROVE Live(i)'
        BY <1>6, <1>8, <2>2 DEF Live
    <2>3. ASSUME i \notin disturbed', lxd'[i] # "none" PROVE Reachable(i)'
        <3>1. CASE rec'[i].named
            BY <3>1 DEF Reachable
        <3>2. CASE ~rec'[i].named
            <4>1. /\ i \notin disturbed /\ lxd[i] # "none" /\ ~rec[i].named
                  /\ ~rec'[i].gone /\ rec'[i].launch # "error" /\ to \in {"idle", "ensure"}
                BY <1>8, <2>3, <3>2
            <4>2. \A m \in Threads : launcher'[i][m] \in {"idle", "queued", "ensure"}
                BY <1>1, <1>2, <1>7, <4>1 DEF Step
            <4>3. QED
                BY <1>3, <1>7, <4>1, <4>2 DEF Reachable
        <3>3. QED
            BY <3>1, <3>2
    <2>4. ASSUME i \notin disturbed', NEW t \in Serving(i)' PROVE Undisturbed(i, request[t])'
        BY <1>3, <1>6, <1>8, <2>4 DEF Core, Undisturbed
    <2>5. deleted' => i \in disturbed'
        BY <1>3, <1>6, <1>8 DEF Core
    <2>6. QED
        BY <2>1, <2>2, <2>3, <2>4, <2>5 DEF Core
<1>10. OnDisk(i)'
    BY <1>3, <1>4, <1>6, <1>8, <1>9, DiskKept
<1>11. QED
    BY <1>5, <1>9, <1>10 DEF AllSound, Sound

LEMMA CreateSound ==
    ASSUME TypeOK, TypeOK', AllSound, NEW i \in Instances, Create(i)
    PROVE  AllSound'
<1>1. /\ rec \in [Instances -> Record] /\ lxd \in [Instances -> Container]
      /\ launcher \in [Instances -> [Threads -> Positions]]
    BY DEF TypeOK, Positions
<1>2. PICK n \in Threads :
         /\ launcher[i][n] = "idle"
         /\ launcher' = [launcher EXCEPT ![i] = [launcher[i] EXCEPT ![n] = "queued"]]
         /\ rec' = [rec EXCEPT ![i] = NewRecord(i)]
    BY ComputeAssumption DEF Create, Queue, TypeOK
<1>3. /\ rec[i] = NoRecord /\ lxd[i] = "none"
      /\ UNCHANGED <<load, lxd, request, disk, deleted, disturbed>>
    BY DEF Create, saved
<1>4. /\ rec'[i].there /\ rec'[i].state = "pending"
      /\ \A j \in Instances : j # i => rec'[j] = rec[j] /\ launcher'[j] = launcher[j]
    BY <1>1, <1>2 DEF NewRecord, NoRecord
<1>5. Serving(i)' = {} /\ Core(i) /\ OnDisk(i)
    BY <1>3 DEF AllSound, Sound, Core, NoRecord, Serving
<1>6. Core(i)'
    BY <1>3, <1>4, <1>5 DEF Core, Live
<1>7. Past(i)' => Past(i)
    BY <1>1, <1>2, <1>3 DEF Past
<1>8. Sound(i)'
    BY <1>3, <1>5, <1>6, <1>7, DiskKept DEF Sound, SavedAs
<1>9. ASSUME NEW j \in Instances, j # i PROVE Sound(j)'
    BY <1>3, <1>4, <1>9, Elsewhere DEF AllSound, SavedAs
<1>10. QED
    BY <1>8, <1>9 DEF AllSound

LEMMA StartSound ==
    ASSUME TypeOK, TypeOK', AllSound, NEW i \in Instances, Start(i)
    PROVE  AllSound'
<1>1. /\ rec \in [Instances -> Record] /\ lxd \in [Instances -> Container]
      /\ launcher \in [Instances -> [Threads -> Positions]]
    BY DEF TypeOK, Positions
<1>2. PICK n \in Threads :
         /\ launcher[i][n] = "idle"
         /\ launcher' = [launcher EXCEPT ![i] = [launcher[i] EXCEPT ![n] = "queued"]]
         /\ rec' = [rec EXCEPT ![i] = Requested(i)]
    BY ComputeAssumption DEF Start, Queue, TypeOK
<1>3. rec[i].there /\ UNCHANGED <<load, lxd, request, disk, deleted>>
    BY DEF Start, Found, saved
<1>4. /\ rec'[i].there /\ rec'[i].state = "pending" /\ rec'[i].named = rec[i].named
      /\ rec'[i].gone = rec[i].gone /\ rec'[i].launch \in {"starting", rec[i].launch}
      /\ \A j \in Instances : j # i => rec'[j] = rec[j] /\ launcher'[j] = launcher[j]
    BY <1>1, <1>2, <1>3 DEF Requested, Record
<1>5. /\ \A j \in Instances : j \in disturbed => j \in disturbed'
      /\ i \notin disturbed' => \A t \in Serving(i) : request[t].op # "terminate"
    BY DEF Start, Met
<1>6. Serving(i)' = Serving(i) /\ Core(i) /\ OnDisk(i)
    BY <1>3 DEF Serving, AllSound, Sound
<1>7. Reachable(i) => Reachable(i)'
    BY <1>1, <1>2, <1>3, <1>4, <1>6 DEF Reachable
<1>8. Core(i)'
    BY <1>3, <1>4, <1>5, <1>6, <1>7 DEF Core, Live, Undisturbed
<1>9. Past(i)' => Past(i)
    BY <1>1, <1>2, <1>3 DEF Past
<1>10. Sound(i)'
    BY <1>3, <1>5, <1>6, <1>8, <1>9, DiskKept DEF Sound, SavedAs
<1>11. ASSUME NEW j \in Instances, j # i PROVE Sound(j)'
    BY <1>3, <1>4, <1>5, <1>11, Elsewhere DEF AllSound, SavedAs
<1>12. QED
    BY <1>10, <1>11 DEF AllSound

LEMMA TerminateSimulatedSound ==
    ASSUME TypeOK, TypeOK', AllSound, NEW i \in Instances, TerminateSimulated(i)
    PROVE  AllSound'
<1>1. rec \in [Instances -> Record]
    BY DEF TypeOK
<1>2. UNCHANGED <<load, lxd, launcher, request, disk, deleted>>
    BY DEF TerminateSimulated, saved
<1>3. /\ rec'[i].there = rec[i].there /\ rec'[i].state = "terminated"
      /\ ~rec[i].named /\ (rec[i].launch = "error" \/ rec[i].gone)
      /\ \A j \in Instances : j # i => rec'[j] = rec[j]
    BY <1>1 DEF TerminateSimulated, Terminated, NoBackingContainer, Record
<1>4. /\ \A j \in Instances : j \in disturbed => j \in disturbed'
      /\ i \notin disturbed' =>
            i \notin disturbed /\ Launching(i) = {} /\ Serving(i) = {}
    BY DEF TerminateSimulated, Met
<1>5. Core(i) /\ OnDisk(i)
    BY DEF AllSound, Sound
<1>6. Core(i)'
    <2>1. Launching(i)' = Launching(i) /\ Serving(i)' = Serving(i)
        BY <1>2 DEF Launching, Serving
    <2>2. i \notin disturbed => lxd[i] = "none"
        BY <1>3, <1>5 DEF Core, Reachable
    <2>3. QED
        BY <1>2, <1>3, <1>4, <1>5, <2>1, <2>2 DEF Core
<1>7. Past(i)' => Past(i)
    BY <1>2 DEF Past
<1>8. Sound(i)'
    BY <1>2, <1>4, <1>5, <1>6, <1>7, DiskKept DEF Sound, SavedAs
<1>9. \A j \in Instances : j # i => Sound(j)'
    BY <1>2, <1>3, <1>4, Elsewhere DEF AllSound, SavedAs
<1>10. QED
    BY <1>8, <1>9 DEF AllSound

LEMMA PruneSound ==
    ASSUME TypeOK, TypeOK', AllSound, NEW i \in Instances, Prune(i)
    PROVE  AllSound'
<1>1. rec \in [Instances -> Record] /\ rec' \in [Instances -> Record]
    BY DEF TypeOK
<1>2. UNCHANGED <<load, lxd, launcher, request, deleted, disturbed>>
    BY DEF Prune
<1>3. /\ rec[i].state = "terminated" /\ rec'[i].state = "terminated"
      /\ ~rec'[i].there
      /\ \A j \in Instances : j # i => rec'[j] = rec[j]
    BY <1>1 DEF Prune, Pruned, Record
<1>4. \A j \in Instances : SavedAs(j)
    BY <1>1, SaveTyped DEF Prune
<1>5. Core(i) /\ OnDisk(i)
    BY DEF AllSound, Sound
<1>6. Core(i)'
    BY <1>2, <1>3, <1>5 DEF Core, Live, Launching, Serving, Undisturbed
<1>7. Past(i)' => Past(i)
    BY <1>2 DEF Past
<1>8. Sound(i)'
    BY <1>2, <1>4, <1>5, <1>6, <1>7, DiskKept DEF Sound
<1>9. \A j \in Instances : j # i => Sound(j)'
    BY <1>2, <1>3, <1>4, Elsewhere DEF AllSound
<1>10. QED
    BY <1>8, <1>9 DEF AllSound

LEMMA SaveSound ==
    ASSUME TypeOK, TypeOK', AllSound, Save
    PROVE  AllSound'
<1>1. UNCHANGED <<load, rec, lxd, launcher, request, deleted, disturbed>>
    BY DEF Save
<1>2. \A j \in Instances : SavedAs(j)
    <2>1. Persist /\ rec' \in [Instances -> Record]
        BY DEF Save, TypeOK
    <2>2. QED
        BY <2>1, SaveTyped
<1>3. QED
    BY <1>1, <1>2, Elsewhere DEF AllSound

LEMMA DeleteSpaceSound ==
    ASSUME TypeOK, TypeOK', AllSound, DeleteSpace
    PROVE  AllSound'
<1>1. UNCHANGED <<rec, request, disk>> /\ disturbed' = Instances
    BY DEF DeleteSpace
<1>2. \A j \in Instances : Serving(j)' = Serving(j)
    BY <1>1 DEF Serving
<1>3. QED
    BY <1>1, <1>2 DEF AllSound, Sound, Core, OnDisk

\* A step of a request is about one instance, and saves nothing.
LEMMA AboutOne ==
    ASSUME AllSound, NEW i \in Instances, Core(i)',
           UNCHANGED <<load, launcher, disk, deleted>>,
           i \notin disturbed' /\ lxd'[i] # "none" => lxd[i] # "none",
           \A j \in Instances : j \in disturbed => j \in disturbed',
           \A j \in Instances : j # i => rec'[j] = rec[j] /\ lxd'[j] = lxd[j],
           \A j \in Instances, u \in Requests :
              j # i /\ request'[u].inst = j => request'[u] = request[u]
    PROVE  AllSound'
<1>1. i \notin disturbed' /\ Past(i)' => Past(i)
    BY DEF Past
<1>2. Sound(i)'
    BY <1>1, DiskKept DEF AllSound, Sound, SavedAs
<1>3. ASSUME NEW j \in Instances, j # i PROVE Sound(j)'
    BY <1>3, Elsewhere DEF AllSound, SavedAs
<1>4. QED
    BY <1>2, <1>3 DEF AllSound

LEMMA RequestSound ==
    ASSUME TypeOK, TypeOK', Targeted, AllSound, NEW t \in Requests, RequestStep(t)
    PROVE  AllSound'
<1>1. /\ rec \in [Instances -> Record] /\ lxd \in [Instances -> Container]
      /\ request \in [Requests -> Served]
    BY DEF TypeOK, Served
<1>2. ASSUME NEW op \in {"view", "stop", "restart", "terminate"}, End(t, op)
      PROVE  /\ Target(t) \in Instances /\ t \in Serving(Target(t))
             /\ request[t].op = op
             /\ UNCHANGED <<load, launcher, disk, deleted>>
             /\ \A j \in Instances, u \in Requests :
                   request'[u].inst = j => request'[u] = request[u] /\ u # t
    BY <1>1, <1>2, ComputeAssumption DEF End, saved, Targeted, Target, Serving, Idle
<1>3. ASSUME NEW i \in Instances, i = Target(t), EndView(t) PROVE AllSound'
    <2> i = Target(t)
        BY <1>3
    <2>1. End(t, "view") /\ UNCHANGED <<lxd, disturbed>>
        BY <1>3 DEF EndView
    <2>2. request[t].seen \in Container /\ rec[i] \in Record /\ Core(i)
        BY <1>1 DEF Served, AllSound, Sound
    <2>3. /\ rec'[i] = Synced(rec[i], request[t].seen)
          /\ \A j \in Instances : j # i => rec'[j] = rec[j]
        BY <1>1, <1>3, <2>2 DEF EndView
    <2>4. /\ rec'[i].there = rec[i].there /\ rec'[i].named = rec[i].named
          /\ rec'[i].state # "none" /\ rec'[i].launch # "error"
          /\ rec'[i].gone = (request[t].seen = "none")
          /\ i \notin disturbed => (rec'[i].state = "terminated" <=> rec[i].state = "terminated")
        BY <1>2, <2>1, <2>2, <2>3, SyncedTyped DEF Core, Undisturbed
    <2>5. Serving(i)' \subseteq Serving(i) /\ \A u \in Serving(i)' : request'[u] = request[u]
        BY <1>2, <2>1 DEF Serving
    <2>6. Reachable(i) => Reachable(i)'
        BY <1>2, <2>1, <2>4, <2>5 DEF Reachable
    <2>7. Core(i)'
        BY <1>2, <2>1, <2>2, <2>4, <2>5, <2>6 DEF Core, Live, Launching, Undisturbed
    <2>8. QED
        BY <1>2, <2>1, <2>3, <2>7, AboutOne
<1>4. ASSUME NEW i \in Instances, i = Target(t), EndStop(t) PROVE AllSound'
    <2> i = Target(t)
        BY <1>4
    <2>1. End(t, "stop") /\ UNCHANGED <<lxd, disturbed>>
        BY <1>4 DEF EndStop
    <2>2. rec[i] \in Record /\ Core(i)
        BY <1>1 DEF AllSound, Sound
    <2>3. /\ rec'[i].there = rec[i].there /\ rec'[i].named = rec[i].named
          /\ ~rec'[i].gone /\ rec'[i].launch \in {"ready", rec[i].launch}
          /\ rec'[i].state = "stopped"
          /\ \A j \in Instances : j # i => rec'[j] = rec[j]
        BY <1>1, <1>4, <2>2 DEF EndStop, Settled, Record
    <2>4. Serving(i)' \subseteq Serving(i) /\ \A u \in Serving(i)' : request'[u] = request[u]
        BY <1>2, <2>1 DEF Serving
    <2>5. Reachable(i) => Reachable(i)'
        BY <1>2, <2>1, <2>3, <2>4 DEF Reachable
    <2>6. Core(i)'
        BY <1>2, <2>1, <2>2, <2>3, <2>4, <2>5 DEF Core, Live, Launching, Undisturbed
    <2>7. QED
        BY <1>2, <2>1, <2>3, <2>6, AboutOne
<1>5. ASSUME NEW i \in Instances, i = Target(t), Reboot(t) PROVE AllSound'
    <2> i = Target(t)
        BY <1>5
    <2>1. /\ t \in Serving(i) /\ rec[i] \in Record /\ Core(i)
          /\ UNCHANGED <<load, lxd, launcher, disk, deleted, disturbed>>
          /\ request[t].op = "reboot"
          /\ \A u \in Requests \ {t} : request'[u] = request[u]
          /\ request'[t].inst = i /\ request'[t].op = "restart"
        BY <1>1, <1>5 DEF Reboot, saved, Target, Serving, Served, AllSound, Sound
    <2>2. /\ rec'[i].there = rec[i].there /\ rec'[i].named = rec[i].named
          /\ rec'[i].gone = rec[i].gone /\ rec'[i].launch = rec[i].launch
          /\ rec'[i].state = "rebooting"
          /\ \A j \in Instances : j # i => rec'[j] = rec[j]
        BY <1>1, <1>5, <2>1 DEF Reboot, Record
    <2>3. Serving(i)' = Serving(i)
        BY <2>1 DEF Serving, Target
    <2>4. Core(i)'
        <3>1. Launching(i)' = Launching(i)
            BY <2>1 DEF Launching
        <3>2. ASSUME i \notin disturbed', NEW u \in Serving(i)'
              PROVE  Undisturbed(i, request[u])'
            <4>1. CASE u = t
                BY <2>1, <2>2, <4>1 DEF Undisturbed
            <4>2. CASE u # t
                <5>1. u \in Serving(i) /\ request'[u] = request[u] /\ i \notin disturbed
                    BY <2>1, <2>3, <3>2, <4>2 DEF Serving
                <5>2. Undisturbed(i, request[u])
                    BY <2>1, <5>1 DEF Core
                <5>3. QED
                    BY <2>1, <2>2, <3>1, <5>1, <5>2 DEF Undisturbed
            <4>3. QED
                BY <4>1, <4>2
        <3>3. Reachable(i) => Reachable(i)'
            <4>1. \A u \in Serving(i)' : request'[u].op = "view" => request'[u] = request[u]
                BY <2>1 DEF Serving
            <4>2. QED
                BY <2>1, <2>2, <2>3, <4>1 DEF Reachable
        <3>4. i \notin disturbed => rec[i].state # "terminated"
            BY <2>1 DEF Core, Undisturbed
        <3>5. QED
            BY <2>1, <2>2, <2>3, <3>1, <3>2, <3>3, <3>4 DEF Core, Live
    <2>5. QED
        BY <2>1, <2>2, <2>4, AboutOne
<1>6. ASSUME NEW i \in Instances, i = Target(t), EndReboot(t) PROVE AllSound'
    <2> i = Target(t)
        BY <1>6
    <2>1. End(t, "restart") /\ UNCHANGED disturbed
        BY <1>6 DEF EndReboot
    <2>2. rec[i] \in Record /\ lxd[i] \in Container /\ Core(i)
        BY <1>1 DEF AllSound, Sound
    <2>3. /\ rec'[i].there = rec[i].there /\ rec'[i].named = rec[i].named
          /\ rec'[i].state = rec[i].state \/ rec'[i].state = "running"
          /\ rec'[i].gone => rec[i].gone
          /\ rec'[i].launch \in {"ready", rec[i].launch}
          /\ \A j \in Instances : j # i => rec'[j] = rec[j] /\ lxd'[j] = lxd[j]
          /\ lxd'[i] = "none" <=> lxd[i] = "none"
        <3>1. CASE UNCHANGED <<rec, lxd>>
            BY <3>1
        <3>2. CASE /\ lxd[i] # "none" /\ lxd' = [lxd EXCEPT ![i] = "running"]
                   /\ rec' = [rec EXCEPT ![i] = Settled(i, "running")]
            BY <1>1, <2>2, <3>2 DEF Settled, Record
        <3>3. QED
            BY <1>6, <3>1, <3>2 DEF EndReboot
    <2>4. Serving(i)' \subseteq Serving(i) /\ \A u \in Serving(i)' : request'[u] = request[u]
        BY <1>2, <2>1 DEF Serving
    <2>5. i \notin disturbed => rec[i].state # "terminated"
        BY <1>2, <2>1, <2>2 DEF Core, Undisturbed
    <2>6. Reachable(i) => Reachable(i)'
        BY <1>2, <2>1, <2>3, <2>4 DEF Reachable
    <2>7. Core(i)'
        BY <1>2, <2>1, <2>2, <2>3, <2>4, <2>5, <2>6
        DEF Core, Live, Launching, Undisturbed
    <2>8. QED
        BY <1>2, <2>1, <2>3, <2>7, AboutOne
<1>7. ASSUME NEW i \in Instances, i = Target(t), EndTerminate(t) PROVE AllSound'
    <2> i = Target(t)
        BY <1>7
    <2>1. End(t, "terminate") /\ Met(i, Unfinished(i, t)) /\ UNCHANGED lxd
        BY <1>7 DEF EndTerminate
    <2>2. rec[i] \in Record /\ Core(i)
        BY <1>1 DEF AllSound, Sound
    <2>3. /\ rec'[i].there = rec[i].there /\ rec'[i].state = "terminated"
          /\ \A j \in Instances : j # i => rec'[j] = rec[j]
        BY <1>1, <1>7, <2>2 DEF EndTerminate, Terminated, Record
    <2>4. /\ \A j \in Instances : j \in disturbed => j \in disturbed'
          /\ i \notin disturbed' =>
                i \notin disturbed /\ Launching(i) = {} /\ Serving(i) \subseteq {t}
        BY <2>1 DEF Met, Unfinished
    <2>5. Serving(i)' \subseteq Serving(i) \ {t} /\ Launching(i)' = Launching(i)
        BY <1>2, <2>1 DEF Serving, Launching
    <2>6. i \notin disturbed => lxd[i] = "none"
        BY <1>2, <2>1, <2>2 DEF Core, Undisturbed
    <2>7. Core(i)'
        BY <1>2, <2>1, <2>2, <2>3, <2>4, <2>5, <2>6 DEF Core
    <2>8. QED
        BY <1>2, <2>1, <2>3, <2>4, <2>7, AboutOne
<1>8. ASSUME NEW i \in Instances, NEW op \in {"view", "stop", "reboot", "terminate"},
             Begin(t, op, i), rec' = rec,
             \A j \in Instances : j \in disturbed => j \in disturbed',
             \A j \in Instances : j # i => lxd'[j] = lxd[j],
             i \notin disturbed' =>
                /\ i \notin disturbed
                /\ lxd'[i] # "none" => lxd[i] # "none"
                /\ op = "terminate" => lxd'[i] = "none" /\ Unfinished(i, t) = {}
                /\ op = "reboot" => lxd[i] = "running"
      PROVE  AllSound'
    <2>1. /\ rec[i].there /\ UNCHANGED <<load, launcher, disk, deleted>>
          /\ request'[t] = [op |-> op, inst |-> i, seen |-> lxd[i]]
          /\ \A u \in Requests \ {t} : request'[u] = request[u]
        BY <1>1, <1>8 DEF Begin, Found, saved
    <2>2. Core(i) /\ Launching(i)' = Launching(i) /\ Serving(i)' \subseteq Serving(i) \cup {t}
        BY <2>1 DEF AllSound, Sound, Launching, Serving
    <2>3. ASSUME i \notin disturbed', NEW u \in Serving(i)'
          PROVE  Undisturbed(i, request[u])'
        <3>1. CASE u = t
            BY <1>8, <2>1, <2>2, <2>3, <3>1 DEF Core, Live, Undisturbed, Unfinished
        <3>2. CASE u # t
            BY <1>8, <2>1, <2>2, <2>3, <3>2 DEF Core, Live, Undisturbed, Serving
        <3>3. QED
            BY <3>1, <3>2
    <2>4. lxd[i] # "none" /\ Reachable(i) => Reachable(i)'
        <3>1. ASSUME NEW u \in Serving(i)', lxd[i] # "none"
              PROVE  (u \in Serving(i) /\ request'[u] = request[u]) \/ request'[u].seen # "none"
            BY <2>1, <2>2, <3>1 DEF Serving
        <3>2. QED
            BY <1>8, <2>1, <3>1 DEF Reachable
    <2>5. Core(i)'
        BY <1>8, <2>1, <2>2, <2>3, <2>4 DEF Core, Live
    <2>6. \A j \in Instances, u \in Requests :
             j # i /\ request'[u].inst = j => request'[u] = request[u]
        BY <2>1
    <2>7. QED
        BY <1>8, <2>1, <2>5, <2>6, AboutOne
<1>9. ASSUME NEW i \in Instances, BeginView(t, i) \/ BeginStop(t, i) \/ BeginReboot(t, i)
      PROVE  AllSound'
    BY <1>1, <1>8, <1>9 DEF BeginView, BeginStop, BeginReboot
<1>10. ASSUME NEW i \in Instances, BeginTerminate(t, i)
       PROVE  AllSound'
    <2>1. Begin(t, "terminate", i) /\ rec' = rec
        BY <1>10 DEF BeginTerminate
    <2>2. CASE lxd' = [lxd EXCEPT ![i] = "none"] /\ Met(i, Unfinished(i, t))
        BY <1>1, <1>8, <2>1, <2>2 DEF Met
    <2>3. CASE disturbed' = disturbed \cup {i} /\ UNCHANGED lxd
        BY <1>8, <2>1, <2>3
    <2>4. QED
        BY <1>10, <2>2, <2>3 DEF BeginTerminate
<1>11. CASE EndView(t) \/ EndStop(t) \/ Reboot(t) \/ EndReboot(t) \/ EndTerminate(t)
    <2>1. Target(t) \in Instances
        BY <1>11
        DEF EndView, EndStop, Reboot, EndReboot, EndTerminate, End, Targeted
    <2>2. QED
        BY <1>3, <1>4, <1>5, <1>6, <1>7, <1>11, <2>1
<1>12. QED
    BY <1>9, <1>10, <1>11 DEF RequestStep

LEMMA RestartSound ==
    ASSUME TypeOK, TypeOK', AllSound, Restart
    PROVE  AllSound'
<1>1. UNCHANGED <<load, lxd, disk, disturbed>> /\ Restarting
    BY DEF Restart
<1>2. ASSUME NEW i \in Instances PROVE Sound(i)'
    <2>1. disk[i] \in Record /\ lxd[i] \in Container /\ Core(i) /\ OnDisk(i)
        BY DEF TypeOK, AllSound, Sound
    <2>2. /\ Launching(i)' = {} /\ Serving(i)' = {}
          /\ \A n \in Threads : launcher'[i][n] = "idle"
        BY ComputeAssumption DEF Restart, Launching, Serving, Idle
    <2>3. PICK r \in Record :
             /\ r = IF disk[i].there THEN Synced(disk[i], lxd[i]) ELSE disk[i]
             /\ rec'[i] = r \/ rec'[i] = Pruned(r)
        <3> DEFINE r == IF disk[i].there THEN Synced(disk[i], lxd[i]) ELSE disk[i]
        <3>1. r \in Record
            BY <2>1, SyncedTyped
        <3>2. rec'[i] = r \/ rec'[i] = Pruned(r)
            BY DEF Restart
        <3>3. QED
            BY <3>1, <3>2
    <2>4. /\ r.there = disk[i].there
          /\ r.there => /\ r.state # "none" /\ r.launch # "error"
                        /\ r.gone = (lxd[i] = "none")
                        /\ r.state = "terminated"
                              <=> disk[i].state = "terminated" /\ lxd[i] = "none"
        BY <2>1, <2>3, SyncedTyped
    <2>5. rec'[i] = r \/ (r.state = "terminated" /\ r.there /\ ~rec'[i].there)
        BY <2>3 DEF Pruned, Record
    <2>6. i \notin disturbed /\ lxd[i] # "none" =>
             disk[i].there /\ disk[i].state # "terminated"
        BY <1>1, <2>1 DEF OnDisk, Past
    <2>7. i \notin disturbed /\ lxd[i] # "none" => Live(i)' /\ Reachable(i)'
        BY <1>1, <2>2, <2>4, <2>5, <2>6 DEF Live, Reachable
    <2>8. deleted' => deleted
        BY DEF Restart
    <2>9. Core(i)'
        BY <1>1, <2>1, <2>2, <2>4, <2>5, <2>7, <2>8 DEF Core
    <2>10. OnDisk(i)'
        BY <1>1, <2>1, <2>2 DEF OnDisk, Past, Restarting
    <2>11. QED
        BY <2>9, <2>10 DEF Sound
<1>3. QED
    BY <1>2 DEF AllSound

LEMMA InvInductive == Spec => []IInv
<1>1. Init => IInv
    <2> SUFFICES ASSUME Init PROVE IInv
        OBVIOUS
    <2>1. TypeOK /\ Targeted
        BY InitTyped
    <2>2. \A i \in Instances : Core(i)
        BY ComputeAssumption
        DEF Init, Core, Serving, Launching, NoRecord, Idle
    <2>3. \A i \in Instances : OnDisk(i)
        BY DEF Init, OnDisk, Past, NoRecord
    <2>4. QED
        BY <2>1, <2>2, <2>3 DEF IInv, Sound
<1>2. IInv /\ [Next]_vars => IInv'
    <2> SUFFICES ASSUME IInv, [Next]_vars PROVE IInv'
        OBVIOUS
    <2>1. TypeOK /\ TypeOK' /\ Targeted /\ Targeted' /\ AllSound
        BY NextTyped DEF IInv, AllSound
    <2>2. ASSUME NEW i \in Instances,
                 \/ Create(i) \/ Start(i) \/ TerminateSimulated(i) \/ Prune(i)
                 \/ \E n \in Threads : LauncherStep(i, n)
          PROVE  AllSound'
        BY <2>1, <2>2, CreateSound, StartSound, TerminateSimulatedSound, PruneSound,
           LauncherSound
    <2>3. ASSUME NEW t \in Requests, RequestStep(t) PROVE AllSound'
        BY <2>1, <2>3, RequestSound
    <2>4. ASSUME Save \/ DeleteSpace \/ Restart PROVE AllSound'
        <3>1. CASE Save
            BY <2>1, <3>1, SaveSound
        <3>2. CASE DeleteSpace
            BY <2>1, <3>2, DeleteSpaceSound
        <3>3. CASE Restart
            BY <2>1, <3>3, RestartSound
        <3>4. QED
            BY <2>4, <3>1, <3>2, <3>3
    <2>5. ASSUME UNCHANGED vars PROVE AllSound'
        <3>1. /\ UNCHANGED <<load, rec, lxd, launcher, request, deleted, disturbed>>
              /\ \A i \in Instances : SavedAs(i)
            BY <2>5 DEF vars, SavedAs
        <3>2. QED
            BY ONLY <2>1, <3>1, Elsewhere DEF AllSound
    <2>6. AllSound'
        <3>1. CASE Next
            BY <2>2, <2>3, <2>4, <3>1 DEF Next
        <3>2. QED
            BY <2>5, <3>1
    <2>7. QED
        BY <2>1, <2>6 DEF IInv, AllSound
<1>3. QED
    BY <1>1, <1>2, PTL DEF Spec

\* No container is left behind a terminated or pruned instance, for any instances,
\* launches and requests, failing commands and saves, and restarts that load an
\* older state: but for the instances of which a command failed, whose termination
\* met a launch or another request, or whose space was deleted.
THEOREM NothingOrphaned == Spec => []NoOrphan
<1>1. IInv => NoOrphan
    BY DEF IInv, Sound, Core, Live, NoOrphan
<1>2. QED
    BY <1>1, InvInductive, PTL

\* Nothing but a start, a stop or a restart that finds the termination unsaved takes
\* an instance out of the terminated state, but for the instances that NoOrphan
\* leaves out.
THEOREM TerminatedIsFinal == Spec => TerminatedStays
<1> DEFINE Stays(i) ==
        rec[i].state = "terminated" =>
           \/ rec'[i].state \in {"terminated", "pending"}
           \/ \E t \in Requests : request[t].op = "stop" /\ Target(t) = i
           \/ restarts' # restarts /\ disk[i].state # "terminated"
<1>1. ASSUME IInv, [Next]_vars, NEW i \in Instances \ disturbed
      PROVE  Stays(i)
    <2> SUFFICES ASSUME rec[i].state = "terminated",
                        \A t \in Requests : ~(request[t].op = "stop" /\ Target(t) = i),
                        restarts' = restarts \/ disk[i].state = "terminated"
                 PROVE  rec'[i].state \in {"terminated", "pending"}
        OBVIOUS
    <2>1. /\ rec \in [Instances -> Record] /\ lxd \in [Instances -> Container]
          /\ request \in [Requests -> Served] /\ disk \in [Instances -> Record]
          /\ restarts \in Nat /\ Core(i)
        BY <1>1, ComputeAssumption DEF IInv, Sound, TypeOK, Served
    <2>2. Launching(i) = {} /\ lxd[i] = "none"
        BY <2>1 DEF Core, Live
    <2>3. ASSUME NEW t \in Requests, Target(t) = i
          PROVE  Undisturbed(i, request[t])
        BY <2>1, <2>3 DEF Core, Serving, Target
    <2>4. ASSUME NEW j \in Instances, NEW n \in Threads, LauncherStep(j, n)
          PROVE  rec'[i] = rec[i]
        <3>1. n \in Launching(j)
            BY <2>4 DEF LauncherStep, LookUp, EnsureContainer, Launch, StartContainer,
                        CommandFails, Launched, LaunchFailed, Step, Launching
        <3>2. j # i
            BY <2>2, <3>1
        <3>3. QED
            BY <2>1, <2>4, <3>2
            DEF LauncherStep, LookUp, EnsureContainer, Launch, StartContainer,
                CommandFails, Launched, LaunchFailed
    <2>5. ASSUME NEW j \in Instances,
                 Create(j) \/ Start(j) \/ TerminateSimulated(j) \/ Prune(j)
          PROVE  rec'[i].state \in {"terminated", "pending"}
        <3>1. CASE j # i
            BY <2>1, <2>5, <3>1
            DEF Create, Start, Queue, TerminateSimulated, Terminated, Prune
        <3>2. CASE j = i
            <4>1. ~Create(i)
                BY DEF Create, NoRecord
            <4>2. CASE Start(i)
                BY <2>1, <4>2 DEF Start, Queue, Requested, Record
            <4>3. CASE TerminateSimulated(i)
                BY <2>1, <4>3 DEF TerminateSimulated, Terminated, Record
            <4>4. CASE Prune(i)
                BY <2>1, <4>4 DEF Prune, Pruned, Record
            <4>5. QED
                BY <2>5, <3>2, <4>1, <4>2, <4>3, <4>4
        <3>3. QED
            BY <3>1, <3>2
    <2>6. ASSUME NEW t \in Requests, RequestStep(t)
          PROVE  rec'[i].state = "terminated"
        <3>1. CASE Target(t) # i \/ UNCHANGED rec
            BY <2>1, <2>6, <3>1
            DEF RequestStep, EndView, EndStop, Reboot, EndReboot, EndTerminate, Terminated,
                BeginView, BeginStop, BeginReboot, BeginTerminate
        <3>2. CASE Target(t) = i /\ EndView(t)
            <4>1. request[t].seen = "none"
                BY <2>3, <3>2 DEF EndView, End, Undisturbed
            <4>2. rec'[i] = Synced(rec[i], "none")
                BY <2>1, <3>2, <4>1 DEF EndView
            <4>3. QED
                BY <2>1, <4>2, SyncedTyped DEF Container
        <3>3. CASE Target(t) = i /\ EndTerminate(t)
            BY <2>1, <3>3 DEF EndTerminate, Terminated, Record
        <3>4. CASE Target(t) = i /\ (Reboot(t) \/ EndReboot(t))
            BY <2>3, <3>4 DEF Reboot, EndReboot, End, Undisturbed
        <3>5. CASE Target(t) = i /\ EndStop(t)
            BY <3>5 DEF EndStop, End
        <3>6. QED
            BY <2>6, <3>1, <3>2, <3>3, <3>4, <3>5
            DEF RequestStep, BeginView, BeginStop, BeginReboot, BeginTerminate
    <2>7. ASSUME Restart
          PROVE  rec'[i].state = "terminated"
        <3>1. disk[i].state = "terminated"
            BY <2>1, <2>7 DEF Restart
        <3>2. Synced(disk[i], "none").state = "terminated"
              /\ Synced(disk[i], "none") \in Record
            BY <2>1, <3>1, SyncedTyped DEF Container
        <3>3. \E r \in {disk[i], Synced(disk[i], "none")} : rec'[i] = r \/ rec'[i] = Pruned(r)
            BY <2>2, <2>7 DEF Restart
        <3>4. QED
            BY <2>1, <3>1, <3>2, <3>3 DEF Pruned, Record
    <2>8. CASE Save \/ DeleteSpace \/ UNCHANGED vars
        BY <2>8 DEF Save, DeleteSpace, vars
    <2>9. QED
        BY <1>1, <2>4, <2>5, <2>6, <2>7, <2>8 DEF Next
<1>2. IInv /\ [Next]_vars => [\A i \in Instances \ disturbed : Stays(i)]_vars
    BY <1>1
<1>3. QED
    BY <1>2, InvInductive, PTL DEF Spec, TerminatedStays
=============================================================================
