-------------------------------- MODULE SQS --------------------------------
(***************************************************************************)
(* The in-memory SQS broker (server.py, _sqs_*; routes/aws_sqs.py), used   *)
(* when no ElasticMQ is configured.                                        *)
(*                                                                         *)
(* Every SQS handler runs on the event loop (providers/aws_routes.py,      *)
(* _proxy, calls it inside an async endpoint), so one request ends before  *)
(* the next begins.  A receive marks its messages one after the other and  *)
(* may raise between two of them: each pass of that loop is a step here,   *)
(* and nothing but the rest of the receive can follow it.                  *)
(*                                                                         *)
(* A queue's list only grows at its end, so it is the set of the messages  *)
(* with that queue's name, ordered by a stamp that stands for message_id.  *)
(* A receipt handle is new at every delivery and so is receive_count: the  *)
(* pair of stamp and count stands for it.  The code writes timestamps in   *)
(* whole seconds, rounded down, and compares them with the time as it is:  *)
(* now is the second that has begun and part says that some of it is over. *)
(* Left out: bodies and their size, tags, the attributes no operation      *)
(* below reads, the views.                                                 *)
(***************************************************************************)
EXTENDS Naturals, FiniteSets

CONSTANTS
    Queues,      \* queue names
    Fifo,        \* those that are FIFO queues: the names ending in .fifo
    NoQueue,     \* not in any queue; no redrive target
    Groups,      \* message group ids
    NoGroup,     \* MessageGroupId is ""
    Dedups,      \* deduplication ids, given or the digest of the body
    NoDedup,     \* there is none
    Configs,     \* Configs[q]: redrive policies and delays clients give q
    Waits,       \* visibility timeouts clients ask for
    Visibility,  \* visibility_timeout of every queue
    Retention,   \* message_retention_period of every queue
    Window,      \* the deduplication window, 5 minutes
    MaxStamps,   \* bound: messages ever enqueued
    MaxTime,     \* bound: the clock
    MaxCount,    \* bound: receive_count
    MaxBatch     \* MaxNumberOfMessages is at most this, 10 in the code

NoPolicy == [target |-> NoQueue, max |-> 0]

ASSUME QueuesAssumption ==
    /\ IsFiniteSet(Queues)
    /\ Fifo \subseteq Queues
    /\ NoQueue \notin Queues
ASSUME NamesAssumption == NoGroup \notin Groups /\ NoDedup \notin Dedups
\* Redriving to the queue itself is not refused by the code; see the README.
ASSUME ConfigsAssumption ==
    \A q \in Queues :
        Configs[q] \subseteq
            [policy : [target : (Queues \cup {NoQueue}) \ {q}, max : Nat],
             delay : Nat]
ASSUME NumbersAssumption ==
    /\ Waits \subseteq Nat
    /\ {Visibility, Retention, Window} \subseteq Nat
    /\ {MaxStamps, MaxTime, MaxCount, MaxBatch} \subseteq Nat
    /\ Visibility > 0

VARIABLES
    now,     \* datetime.now rounded down, as it is written
    part,    \* whether datetime.now is later than that
    attrs,   \* attrs[q]: does q exist, its redrive policy and its delay
    box,     \* box[s]: the message with stamp s
    next,    \* the stamp of the next message
    call,    \* the receive being answered
    open,    \* history: accepted messages nobody has disposed of
    steady,  \* history: queues whose attributes did not change under messages
    doubled  \* history: those a redrive that could not be saved left twice

vars == <<now, part, attrs, box, next, call, open, steady, doubled>>

Stamps == 1 .. MaxStamps
Idle == [queue |-> NoQueue, todo |-> {}, out |-> {}, wait |-> 0]
Absent == [exists |-> FALSE, policy |-> NoPolicy, delay |-> 0]
\* body is the stamp under which the message was first accepted.
Empty == [queue |-> NoQueue, body |-> 0, group |-> NoGroup, dedup |-> NoDedup,
          sent |-> 0, visible |-> 0, count |-> 0, flight |-> FALSE]

Message == [queue : Queues \cup {NoQueue}, body : 0 .. MaxStamps,
            group : Groups \cup {NoGroup}, dedup : Dedups \cup {NoDedup},
            sent : Nat, visible : Nat, count : Nat, flight : BOOLEAN]

Live(b) == {s \in Stamps : b[s].queue # NoQueue}
In(b, q) == {s \in Stamps : b[s].queue = q}
Bodies(b, S) == {b[s].body : s \in S}

Init ==
    /\ now = 0
    /\ part = FALSE
    /\ attrs = [q \in Queues |-> Absent]
    /\ box = [s \in Stamps |-> Empty]
    /\ next = 1
    /\ call = Idle
    /\ open = {}
    /\ steady = Queues
    /\ doubled = {}

-----------------------------------------------------------------------------
(* The sweep: messages past retention go, leases that are over end.        *)

\* datetime.now() > t
After(t) == now > t \/ (now = t /\ part)

Expired(b, q) == {s \in In(b, q) : After(b[s].sent + Retention)}

Lapsed(b, q) == {s \in In(b, q) : b[s].flight /\ b[s].visible <= now}

Sweep(b, q) ==
    [s \in Stamps |->
        IF s \in Expired(b, q) THEN Empty
        ELSE [b[s] EXCEPT !.flight = @ /\ s \notin Lapsed(b, q)]]

\* Wrong on purpose: only the newest message of the queue is compared.
Wrong_Twins(b, q, k) ==
    {s \in In(b, q) : /\ q \in Fifo
                      /\ k # NoDedup
                      /\ b[s].dedup = k
                      /\ \A t \in In(b, q) : t <= s
                      /\ ~After(b[s].sent + Window)}

\* Messages of a FIFO queue that make a new one with id k a duplicate.
Twins(b, q, k) ==
    {s \in In(b, q) : /\ q \in Fifo
                      /\ k # NoDedup
                      /\ b[s].dedup = k
                      /\ ~After(b[s].sent + Window)}

Refused(q, g) == q \in Fifo /\ g = NoGroup

Fresh(q, body, g, k) ==
    [queue |-> q, body |-> body, group |-> g, dedup |-> k, sent |-> now,
     visible |-> now + attrs[q].delay, count |-> 0, flight |-> FALSE]

-----------------------------------------------------------------------------
(* Queues.                                                                 *)

CreateQueue(q, c) ==
    /\ call = Idle
    /\ ~attrs[q].exists
    /\ attrs' = [attrs EXCEPT ![q] = [exists |-> TRUE, policy |-> c.policy,
                                      delay |-> c.delay]]
    /\ steady' = steady \cup {q}
    /\ UNCHANGED <<now, part, box, next, call, open, doubled>>

UpdateQueue(q, c) ==
    /\ call = Idle
    /\ attrs[q].exists
    /\ attrs' = [attrs EXCEPT ![q].policy = c.policy, ![q].delay = c.delay]
    /\ steady' = IF In(box, q) = {} \/ attrs' = attrs THEN steady
                 ELSE steady \ {q}
    /\ UNCHANGED <<now, part, box, next, call, open, doubled>>

PurgeQueue(q) ==
    /\ call = Idle
    /\ attrs[q].exists
    /\ box' = [s \in Stamps |-> IF s \in In(box, q) THEN Empty ELSE box[s]]
    /\ open' = open \ Bodies(box, In(box, q))
    /\ UNCHANGED <<now, part, attrs, next, call, steady, doubled>>

DeleteQueue(q) ==
    /\ call = Idle
    /\ attrs[q].exists
    /\ attrs' = [attrs EXCEPT ![q] = Absent]
    /\ box' = [s \in Stamps |-> IF s \in In(box, q) THEN Empty ELSE box[s]]
    /\ open' = open \ Bodies(box, In(box, q))
    /\ UNCHANGED <<now, part, next, call, steady, doubled>>

\* Reading a queue sweeps it, and so does a send that is refused.
ViewQueue(q) ==
    /\ call = Idle
    /\ attrs[q].exists
    /\ box' = Sweep(box, q)
    /\ open' = open \ Bodies(box, Expired(box, q))
    /\ UNCHANGED <<now, part, attrs, next, call, steady, doubled>>

-----------------------------------------------------------------------------
(* Send.  A duplicate is answered with the message that is there already.  *)

Send(q, g, k) ==
    /\ call = Idle
    /\ attrs[q].exists
    /\ next \in Stamps
    /\ ~Refused(q, g)
    /\ Twins(Sweep(box, q), q, k) = {}
    /\ box' = [Sweep(box, q) EXCEPT ![next] = Fresh(q, next, g, k)]
    /\ open' = (open \ Bodies(box, Expired(box, q))) \cup {next}
    /\ next' = next + 1
    /\ UNCHANGED <<now, part, attrs, call, steady, doubled>>

SendDuplicate(q, g, k) ==
    /\ ~Refused(q, g)
    /\ Twins(Sweep(box, q), q, k) # {}
    /\ ViewQueue(q)

-----------------------------------------------------------------------------
(* Receive.                                                                *)

\* Wrong on purpose: visible_at only counts until the first delivery.
Wrong_Waiting(b, s) == b[s].count > 0 \/ b[s].visible <= now

Waiting(b, s) == ~b[s].flight /\ b[s].visible <= now

\* Wrong on purpose: without group_locks only leases block a group.
Wrong_Deliverable(b, q) ==
    {s \in In(b, q) :
        /\ Waiting(b, s)
        /\ q \in Fifo =>
               \A t \in In(b, q) :
                   t < s /\ b[t].group = b[s].group => ~b[t].flight}

\* A FIFO queue gives out one message of a group at a time, the oldest.
Deliverable(b, q) ==
    {s \in In(b, q) :
        /\ Waiting(b, s)
        /\ q \in Fifo =>
               \A t \in In(b, q) :
                   t < s /\ b[t].group = b[s].group =>
                       ~b[t].flight /\ ~Waiting(b, t)}

\* Wrong on purpose: compares the count before this delivery.
Wrong_OverLimit(q, s) ==
    LET max == attrs[q].policy.max
    IN  max > 0 /\ box[s].count > max

OverLimit(q, s) ==
    LET max == attrs[q].policy.max
    IN  max > 0 /\ box[s].count + 1 > max

FirstOf(S, n) == {s \in S : Cardinality({t \in S : t < s}) < n}

\* The bounds MaxCount and MaxStamps leave room for all of the receive.
HasRoom(q, S) ==
    /\ \A s \in S : box[s].count < MaxCount
    /\ next + Cardinality({s \in S : OverLimit(q, s)}) <= MaxStamps + 1

BeginReceive(q, n, w) ==
    /\ call = Idle
    /\ attrs[q].exists
    /\ \E S \in {FirstOf(Deliverable(Sweep(box, q), q), n)} :
        /\ HasRoom(q, S)
        /\ call' = [queue |-> q, todo |-> S, out |-> {}, wait |-> w]
    /\ box' = Sweep(box, q)
    /\ open' = open \ Bodies(box, Expired(box, q))
    /\ UNCHANGED <<now, part, attrs, next, steady, doubled>>

\* The loop comes to message s.
Reaches(s) == s \in call.todo /\ \A t \in call.todo : s <= t

Target == attrs[call.queue].policy.target

HasTarget == Target \in Queues /\ attrs[Target].exists

Deliver(s) ==
    /\ Reaches(s)
    /\ ~OverLimit(call.queue, s)
    /\ box' = [box EXCEPT ![s].count = @ + 1,
                          ![s].flight = TRUE,
                          ![s].visible = now + Visibility]
    /\ call' = [call EXCEPT !.todo = @ \ {s}, !.out = @ \cup {s}]
    /\ UNCHANGED <<now, part, attrs, next, open, steady, doubled>>

\* No dead-letter queue by that name: the message is dropped.
Discard(s) ==
    /\ Reaches(s)
    /\ OverLimit(call.queue, s)
    /\ ~HasTarget
    /\ box' = [box EXCEPT ![s] = Empty]
    /\ call' = [call EXCEPT !.todo = @ \ {s}]
    /\ open' = open \ {box[s].body}
    /\ UNCHANGED <<now, part, attrs, next, steady, doubled>>

\* Wrong on purpose: the original is not marked deleted.
Wrong_Redrive(s) ==
    /\ Reaches(s)
    /\ OverLimit(call.queue, s)
    /\ HasTarget
    /\ ~Refused(Target, box[s].group)
    /\ Twins(Sweep(box, Target), Target, box[s].dedup) = {}
    /\ next \in Stamps
    /\ box' = [Sweep(box, Target) EXCEPT
                  ![next] = Fresh(Target, box[s].body, box[s].group, box[s].dedup)]
    /\ open' = open \ Bodies(box, Expired(box, Target))
    /\ next' = next + 1
    /\ call' = [call EXCEPT !.todo = @ \ {s}]
    /\ UNCHANGED <<now, part, attrs, steady, doubled>>

Redrive(s) ==
    /\ Reaches(s)
    /\ OverLimit(call.queue, s)
    /\ HasTarget
    /\ ~Refused(Target, box[s].group)
    /\ Twins(Sweep(box, Target), Target, box[s].dedup) = {}
    /\ next \in Stamps
    /\ box' = [Sweep(box, Target) EXCEPT
                  ![s] = Empty,
                  ![next] = Fresh(Target, box[s].body, box[s].group, box[s].dedup)]
    /\ open' = open \ Bodies(box, Expired(box, Target))
    /\ next' = next + 1
    /\ call' = [call EXCEPT !.todo = @ \ {s}]
    /\ UNCHANGED <<now, part, attrs, steady, doubled>>

\* The copy is in the dead-letter queue when saving it raises and the receive
\* with it: the original is not marked and stays, so the message is doubled.
RedriveUnsaved(s) ==
    /\ Reaches(s)
    /\ OverLimit(call.queue, s)
    /\ HasTarget
    /\ ~Refused(Target, box[s].group)
    /\ Twins(Sweep(box, Target), Target, box[s].dedup) = {}
    /\ next \in Stamps
    /\ box' = [Sweep(box, Target) EXCEPT
                  ![s].count = @ + 1,
                  ![next] = Fresh(Target, box[s].body, box[s].group, box[s].dedup)]
    /\ open' = open \ Bodies(box, Expired(box, Target))
    /\ next' = next + 1
    /\ call' = Idle
    /\ doubled' = doubled \cup {box[s].body}
    /\ UNCHANGED <<now, part, attrs, steady>>

\* The dead-letter queue takes it for a duplicate of one it holds.
RedriveDuplicate(s) ==
    /\ Reaches(s)
    /\ OverLimit(call.queue, s)
    /\ HasTarget
    /\ ~Refused(Target, box[s].group)
    /\ Twins(Sweep(box, Target), Target, box[s].dedup) # {}
    /\ box' = [Sweep(box, Target) EXCEPT ![s] = Empty]
    /\ open' = (open \ Bodies(box, Expired(box, Target))) \ {box[s].body}
    /\ call' = [call EXCEPT !.todo = @ \ {s}]
    /\ UNCHANGED <<now, part, attrs, next, steady, doubled>>

\* The dead-letter queue refuses it and the whole receive raises: the message
\* stays with its count raised, those before it stay in flight.
RedriveRaises(s) ==
    /\ Reaches(s)
    /\ OverLimit(call.queue, s)
    /\ HasTarget
    /\ Refused(Target, box[s].group)
    /\ box' = [Sweep(box, Target) EXCEPT ![s].count = @ + 1]
    /\ open' = open \ Bodies(box, Expired(box, Target))
    /\ call' = Idle
    /\ UNCHANGED <<now, part, attrs, next, steady, doubled>>

\* The timeout the client asked for replaces the queue's.
EndReceive ==
    /\ call # Idle
    /\ call.todo = {}
    /\ box' = [s \in Stamps |->
                  IF s \in call.out
                  THEN [box[s] EXCEPT !.visible = now + call.wait]
                  ELSE box[s]]
    /\ call' = Idle
    /\ UNCHANGED <<now, part, attrs, next, open, steady, doubled>>

\* Saving at the end raises: the messages stay in flight for the queue's time,
\* and the client has no handle of theirs.
ReceiveRaises ==
    /\ call # Idle
    /\ call.todo = {}
    /\ call' = Idle
    /\ UNCHANGED <<now, part, attrs, box, next, open, steady, doubled>>

-----------------------------------------------------------------------------
(* What a client does with a receipt handle.  One that is not current      *)
(* matches no message in flight and is answered with an error.             *)

Holds(s) == call = Idle /\ box[s].queue # NoQueue /\ box[s].flight

DeleteMessage(s) ==
    /\ Holds(s)
    /\ box' = [box EXCEPT ![s] = Empty]
    /\ open' = open \ {box[s].body}
    /\ UNCHANGED <<now, part, attrs, next, call, steady, doubled>>

ChangeVisibility(s, w) ==
    /\ Holds(s)
    /\ box' = [box EXCEPT ![s].visible = now + w]
    /\ UNCHANGED <<now, part, attrs, next, call, open, steady, doubled>>

Tick ==
    /\ call = Idle
    /\ now < MaxTime
    /\ \/ ~part /\ part' = TRUE /\ UNCHANGED now
       \/ now' = now + 1 /\ part' = FALSE
    /\ UNCHANGED <<attrs, box, next, call, open, steady, doubled>>

QueueStep ==
    \E q \in Queues :
        \/ \E c \in Configs[q] : CreateQueue(q, c) \/ UpdateQueue(q, c)
        \/ PurgeQueue(q)
        \/ DeleteQueue(q)
        \/ ViewQueue(q)

SendStep ==
    \E q \in Queues, g \in Groups \cup {NoGroup}, k \in Dedups \cup {NoDedup} :
        Send(q, g, k) \/ SendDuplicate(q, g, k)

ReceiveStep ==
    \/ \E q \in Queues, n \in 1 .. MaxBatch, w \in Waits \cup {Visibility} :
           BeginReceive(q, n, w)
    \/ \E s \in Stamps :
           \/ Deliver(s)
           \/ Discard(s)
           \/ Redrive(s)
           \/ RedriveUnsaved(s)
           \/ RedriveDuplicate(s)
           \/ RedriveRaises(s)
    \/ EndReceive
    \/ ReceiveRaises

HandleStep ==
    \E s \in Stamps :
        DeleteMessage(s) \/ \E w \in Waits : ChangeVisibility(s, w)

Next == QueueStep \/ SendStep \/ ReceiveStep \/ HandleStep \/ Tick

Spec == Init /\ [][Next]_vars

-----------------------------------------------------------------------------
(* Type: stamps from next on are free; a receive works on messages of its  *)
(* queue; what was doubled had been accepted.                              *)
TypeOK ==
    /\ now \in Nat
    /\ part \in BOOLEAN
    /\ attrs \in [Queues -> [exists : BOOLEAN, delay : Nat,
                             policy : [target : Queues \cup {NoQueue}, max : Nat]]]
    /\ box \in [Stamps -> Message]
    /\ next \in 1 .. MaxStamps + 1
    /\ call \in [queue : Queues \cup {NoQueue}, todo : SUBSET Stamps,
                 out : SUBSET Stamps, wait : Nat]
    /\ open \subseteq Stamps
    /\ steady \subseteq Queues
    /\ doubled \subseteq {s \in Stamps : s < next}
    /\ \A s \in Stamps : s >= next => box[s] = Empty
    /\ \A s \in call.todo \cup call.out : box[s].queue = call.queue

\* What was accepted and not disposed of (deleted by a holder, purged, past
\* retention, dropped for want of a dead-letter queue, a duplicate there) is
\* in exactly one place of one queue; nothing that was disposed of comes back.
\* The exception is a message doubled by a redrive whose save raised
\* (_sqs_enqueue_message persists before _sqs_extract_messages_for_delivery
\* marks the original deleted).
Accounted ==
    /\ Bodies(box, Live(box)) \ doubled = open \ doubled
    /\ \A s, t \in Live(box) :
           box[s].body = box[t].body /\ box[s].body \notin doubled => s = t

\* In a FIFO queue whose attributes did not change under its messages, a
\* message is in flight only when nothing older of its group is left, so a
\* group is handed out one message at a time and in order, across leases that
\* lapse, redrives and deletes.
OneAtATime ==
    \A s, t \in Live(box) :
        /\ box[s].queue = box[t].queue
        /\ box[s].queue \in Fifo \cap steady
        /\ box[s].group = box[t].group
        /\ s < t
        => ~box[t].flight

\* Two messages of a FIFO queue with one deduplication id were stamped a
\* deduplication window apart at least, whether sent there or redriven there.
NoDuplicate ==
    \A s, t \in Live(box) :
        /\ box[s].queue = box[t].queue
        /\ box[s].queue \in Fifo
        /\ box[s].dedup = box[t].dedup
        /\ box[s].dedup # NoDedup
        /\ s < t
        => box[t].sent >= box[s].sent + Window

\* With a redrive policy that did not change under the messages, no message is
\* handed out more than maxReceiveCount times, also when the dead-letter queue
\* refuses it and the receive that found it fails.
NotOverDelivered ==
    \A s \in Live(box) :
        LET max == attrs[box[s].queue].policy.max
        IN  /\ box[s].queue \in steady
            /\ max > 0
            /\ box[s].flight
            => box[s].count <= max

-----------------------------------------------------------------------------
(* The refinement.                                                         *)

\* The receipt handles under which message n is in flight.  A message that
\* was doubled has left the contract: its copies can be out at once.
Leases(n) ==
    LET copies == {s \in Live(box) : /\ box[s].body = n
                                     /\ n \notin doubled
                                     /\ box[s].flight}
    IN  {<<s, box[s].count>> : s \in copies}

Contract == INSTANCE Broker WITH
    Numbers <- Stamps,
    held <- Bodies(box, Live(box)) \ doubled,
    leases <- [n \in Stamps |-> Leases(n)]

\* Whatever the queues do to a message that no failed save doubled (lapse,
\* redrive, failed receive, purge, retention), a receive only takes one that
\* nobody holds, and a message that is gone is never offered again.
KeepsContract == Contract!Spec
=============================================================================
