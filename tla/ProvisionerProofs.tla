------------------------- MODULE ProvisionerProofs -------------------------
(***************************************************************************)
(* Proofs about Provisioner for any number of calls.  LockDiscipline is    *)
(* inductive with TypeOK; the other two invariants need it, and            *)
(* InFlightHasWorker needs to know besides that a worker has overwritten   *)
(* the in-flight row before it gives the mutex back (SettledAtRelease).    *)
(***************************************************************************)
EXTENDS Provisioner, TLAPS

SettledAtRelease ==
    \A t \in Threads : pc[t] = "release" => st \notin InFlight

IInv ==
    /\ TypeOK
    /\ LockDiscipline
    /\ SettledAtRelease
    /\ InFlightHasWorker
    /\ NoNameConflict

----------------------------------------------------------------------------

\* The row, the mutex and every thread's position stay within their types.
THEOREM TypeCorrect == Spec => []TypeOK
<1> USE DEF States, InFlight, ContainerStates, Inside
<1>1. Init => TypeOK
    BY DEF Init, TypeOK
<1>2. TypeOK /\ [Next]_vars => TypeOK'
    <2> SUFFICES ASSUME TypeOK, [Next]_vars PROVE TypeOK'
        OBVIOUS
    <2> USE DEF TypeOK, Goto
    <2>1. ASSUME NEW t \in Threads, ProvisionCheck(t) \/ ProvisionReset(t)
          PROVE TypeOK'
        BY <2>1 DEF ProvisionCheck, ProvisionReset
    <2>2. ASSUME NEW t \in Threads, Acquire(t) \/ GiveUp(t) \/ Release(t)
          PROVE TypeOK'
        BY <2>2 DEF Acquire, GiveUp, Release
    <2>3. ASSUME NEW t \in Threads, FindContainer(t)
          PROVE TypeOK'
        BY <2>3 DEF FindContainer
    <2>4. ASSUME NEW t \in Threads,
                 \/ BeginPull(t) \/ BeginStart(t) \/ RunContainer(t)
                 \/ RunFails(t)
          PROVE TypeOK'
        BY <2>4 DEF BeginPull, BeginStart, RunContainer, RunFails
    <2>5. ASSUME NEW t \in Threads,
                 BeginRestart(t) \/ StartExisting(t) \/ DockerError(t)
          PROVE TypeOK'
        BY <2>5 DEF BeginRestart, StartExisting, DockerError
    <2>6. ASSUME NEW t \in Threads,
                 \/ ProbeSucceeds(t) \/ ProbeTimesOut(t)
                 \/ MarkReady(t) \/ MarkFailed(t)
          PROVE TypeOK'
        BY <2>6 DEF ProbeSucceeds, ProbeTimesOut, MarkReady, MarkFailed
    <2>7. ASSUME NEW s \in Stoppers,
                 StopFind(s) \/ StopContainer(s) \/ StopFails(s) \/ StopMark(s)
          PROVE TypeOK'
        BY <2>7 DEF StopFind, StopContainer, StopFails, StopMark
    <2>8. ASSUME NEW p \in Pollers,
                 StatusLook(p) \/ StatusFind(p) \/ StatusFlip(p)
          PROVE TypeOK'
        BY <2>8 DEF StatusLook, StatusFind, StatusFlip
    <2>9. CASE ContainerExits \/ ContainerRestarts \/ ContainerRemoved \/ Restart
        BY <2>9 DEF ContainerExits, ContainerRestarts, ContainerRemoved, Restart
    <2>10. CASE UNCHANGED vars
        BY <2>10 DEF vars
    <2>11. QED
        BY <2>1, <2>2, <2>3, <2>4, <2>5, <2>6, <2>7, <2>8, <2>9, <2>10
        DEF Next, Worker
<1>3. QED
    BY <1>1, <1>2, PTL DEF Spec

\* The steps of the worker body, the one place where the mutex matters.
LEMMA WorkerKeepsInv ==
    ASSUME IInv, TypeOK', NEW t \in Threads, Worker(t)
    PROVE  IInv'
<1> USE NoOneAssumption
    DEF IInv, TypeOK, LockDiscipline, SettledAtRelease, InFlightHasWorker,
        NoNameConflict, Inside, Creating, InFlight, Goto
<1>1. CASE Acquire(t)
    BY <1>1 DEF Acquire
<1>2. CASE GiveUp(t)
    BY <1>2 DEF GiveUp
<1>3. CASE FindContainer(t)
    BY <1>3 DEF FindContainer
<1>4. CASE BeginPull(t)
    BY <1>4 DEF BeginPull
<1>5. CASE BeginStart(t)
    BY <1>5 DEF BeginStart
<1>6. CASE RunContainer(t)
    BY <1>6 DEF RunContainer
<1>7. CASE RunFails(t)
    BY <1>7 DEF RunFails
<1>8. CASE BeginRestart(t)
    BY <1>8 DEF BeginRestart
<1>9. CASE StartExisting(t)
    BY <1>9 DEF StartExisting
<1>10. CASE ProbeSucceeds(t) \/ ProbeTimesOut(t)
    BY <1>10 DEF ProbeSucceeds, ProbeTimesOut
<1>11. CASE MarkReady(t) \/ MarkFailed(t)
    BY <1>11 DEF MarkReady, MarkFailed
<1>12. CASE DockerError(t)
    BY <1>12 DEF DockerError
<1>13. CASE Release(t)
    BY <1>13 DEF Release
<1>14. QED
    BY <1>1, <1>2, <1>3, <1>4, <1>5, <1>6, <1>7, <1>8, <1>9, <1>10, <1>11,
       <1>12, <1>13 DEF Worker

\* The handlers write the row without the mutex, but never an in-flight
\* value; Docker's own steps never create a container.
LEMMA OthersKeepInv ==
    ASSUME IInv, TypeOK', [Next]_vars, \A t \in Threads : ~Worker(t)
    PROVE  IInv'
<1> USE NoOneAssumption
    DEF IInv, TypeOK, LockDiscipline, SettledAtRelease, InFlightHasWorker,
        NoNameConflict, Inside, Creating, InFlight, Goto
<1>1. ASSUME NEW t \in Threads, ProvisionCheck(t) \/ ProvisionReset(t)
      PROVE IInv'
    BY <1>1 DEF ProvisionCheck, ProvisionReset
<1>2. ASSUME NEW s \in Stoppers,
             StopFind(s) \/ StopContainer(s) \/ StopFails(s) \/ StopMark(s)
      PROVE IInv'
    BY <1>2 DEF StopFind, StopContainer, StopFails, StopMark
<1>3. ASSUME NEW p \in Pollers,
             StatusLook(p) \/ StatusFind(p) \/ StatusFlip(p)
      PROVE IInv'
    BY <1>3 DEF StatusLook, StatusFind, StatusFlip
<1>4. CASE ContainerExits \/ ContainerRestarts \/ ContainerRemoved
    BY <1>4 DEF ContainerExits, ContainerRestarts, ContainerRemoved
<1>5. CASE Restart
    BY <1>5 DEF Restart
<1>6. CASE UNCHANGED vars
    BY <1>6 DEF vars
<1>7. QED
    BY <1>1, <1>2, <1>3, <1>4, <1>5, <1>6 DEF Next

LEMMA InvInductive == Spec => []IInv
<1>1. Init => IInv
    BY NoOneAssumption
    DEF Init, IInv, TypeOK, LockDiscipline, SettledAtRelease,
        InFlightHasWorker, NoNameConflict, Inside, Creating, InFlight,
        States, ContainerStates
<1>2. IInv /\ TypeOK' /\ [Next]_vars => IInv'
    BY WorkerKeepsInv, OthersKeepInv
<1>3. QED
    BY <1>1, <1>2, TypeCorrect, PTL DEF Spec

\* At most one worker is past the acquire, and it is the one that holds the
\* mutex, for any number of provision_async calls.
THEOREM MutualExclusion == Spec => []LockDiscipline
BY InvInductive, PTL DEF IInv

\* An in-flight row always has a worker behind it: no order of
\* provision_async, stop and status leaves a row that refuses every later
\* provision_async with nobody left to change it.
THEOREM NoOrphanInFlight == Spec => []InFlightHasWorker
BY InvInductive, PTL DEF IInv

\* containers.run never meets a container of its own name.
THEOREM NameIsFree == Spec => []NoNameConflict
BY InvInductive, PTL DEF IInv
=============================================================================
