------------------------------- MODULE PubSub -------------------------------
(***************************************************************************)
(* Pub/Sub without the emulator: the handlers of providers/gcp_services.py *)
(* and the PUT handlers of server.py, for one project.                     *)
(*                                                                         *)
(* The handlers run on the event loop, so each is one step, except the two *)
(* PATCH handlers, which look a record up, wait for the body and store the *)
(* record again.  One dictionary "messages" holds the log of a topic and   *)
(* the queue of a subscription alike, under their ids: box.  A list only   *)
(* grows at its end, so it is a set of entries in the order of Before.     *)
(*                                                                         *)
(* Left out: labels, keys, schemas; a batch, which is its members one by   *)
(* one; the clock: a lease may end, and messages may grow too old, at any  *)
(* time.  Clients name only messages they have been given.                 *)
(***************************************************************************)
EXTENDS Naturals, FiniteSets

CONSTANTS
    Topics, Subs,  \* ids; a topic and a subscription may share theirs
    Keys,          \* ordering keys
    NoKey, NoTopic,
    MaxMessages,   \* bound: messages published
    Batches        \* bound: the values of maxMessages

ASSUME PubSubAssumption ==
    /\ NoKey \notin Keys /\ NoTopic \notin Topics
    /\ MaxMessages \in Nat /\ Batches \subseteq Nat \ {0}

Messages == 1 .. MaxMessages
Ids == Topics \cup Subs
\* An entry of a topic's log has no ackId.
Entry == [msg : Messages, ack : BOOLEAN, leased : BOOLEAN, given : BOOLEAN]

VARIABLES
    topics,    \* the topics there are
    subs,      \* subs[s]: the topic of subscription s, or NoTopic
    box,       \* box[i]: messages[i]
    key,       \* key[m]: orderingKey of message m
    next,      \* the next message
    updating,  \* topics with a PATCH that waits for its body
    patching,  \* patching[s]: the record a PATCH of s will store, or NoTopic
    due        \* history: see Accounted

psvars == <<topics, subs, box, key, next, updating, patching, due>>
records == <<topics, subs, updating, patching>>
queues == <<box, key, next, due>>

PSTypeOK ==
    /\ topics \subseteq Topics /\ updating \subseteq Topics
    /\ subs \in [Subs -> Topics \cup {NoTopic}]
    /\ patching \in [Subs -> Topics \cup {NoTopic}]
    /\ box \in [Ids -> SUBSET Entry]
    /\ key \in [Messages -> Keys \cup {NoKey}]
    /\ next \in 1 .. MaxMessages + 1
    /\ due \in [Subs -> SUBSET Messages]

PSInit ==
    /\ topics = {} /\ updating = {}
    /\ subs = [s \in Subs |-> NoTopic] /\ patching = [s \in Subs |-> NoTopic]
    /\ box = [i \in Ids |-> {}]
    /\ key = [m \in Messages |-> NoKey] /\ next = 1
    /\ due = [s \in Subs |-> {}]

Exists(s) == subs[s] # NoTopic

-----------------------------------------------------------------------------
(* Topics. *)
\* A topic of that id is replaced; the default subscription is not.
CreateTopic(t, s) ==
    /\ topics' = topics \cup {t}
    /\ subs' = IF Exists(s) THEN subs ELSE [subs EXCEPT ![s] = t]
    /\ UNCHANGED <<queues, updating, patching>>

PutTopic(t) ==
    /\ topics' = topics \cup {t}
    /\ UNCHANGED <<queues, subs, updating, patching>>

BeginUpdateTopic(t) ==
    /\ t \in topics \ updating
    /\ updating' = updating \cup {t}
    /\ UNCHANGED <<queues, topics, subs, patching>>
EndUpdateTopic(t) ==
    /\ t \in updating
    /\ updating' = updating \ {t}
    /\ topics' = topics \cup {t}
    /\ UNCHANGED <<queues, subs, patching>>

\* Without the queues of S, and what is due on them.
Forget(S, I) ==
    /\ box' = [i \in Ids |-> IF i \in I THEN {} ELSE box[i]]
    /\ due' = [s \in Subs |-> IF s \in S THEN {} ELSE due[s]]
    /\ UNCHANGED <<key, next>>

\* Wrong on purpose: the queues of the topic's subscriptions stay.
Wrong_DeleteTopic(t) ==
    LET S == {s \in Subs : subs[s] = t}
    IN  /\ t \in topics
        /\ topics' = topics \ {t}
        /\ subs' = [s \in Subs |-> IF s \in S THEN NoTopic ELSE subs[s]]
        /\ Forget(S, {t})
        /\ UNCHANGED <<updating, patching>>

DeleteTopic(t) ==
    LET S == {s \in Subs : subs[s] = t}
    IN  /\ t \in topics
        /\ topics' = topics \ {t}
        /\ subs' = [s \in Subs |-> IF s \in S THEN NoTopic ELSE subs[s]]
        /\ Forget(S, S \cup {t})
        /\ UNCHANGED <<updating, patching>>

\* The log of the topic gets the message, and the queue of each subscription.
Publish(t, k) ==
    LET S == {s \in Subs : subs[s] = t}
        new(a) == [msg |-> next, ack |-> a, leased |-> FALSE, given |-> FALSE]
    IN  /\ t \in topics /\ next \in Messages
        /\ box' = [i \in Ids |-> box[i] \cup {new(FALSE) : x \in {t} \cap {i}}
                                        \cup {new(TRUE) : x \in S \cap {i}}]
        /\ due' = [s \in Subs |-> due[s] \cup {next : x \in S \cap {s}}]
        /\ key' = [key EXCEPT ![next] = k]
        /\ next' = next + 1
        /\ UNCHANGED records

-----------------------------------------------------------------------------
(* Subscriptions. *)
\* Any topic will do, and a subscription of that id keeps its queue.
CreateSubscription(s, t) ==
    /\ subs' = [subs EXCEPT ![s] = t]
    /\ UNCHANGED <<queues, topics, updating, patching>>

BeginPatch(s) ==
    /\ Exists(s) /\ patching[s] = NoTopic
    /\ patching' = [patching EXCEPT ![s] = subs[s]]
    /\ UNCHANGED <<queues, topics, subs, updating>>
EndPatch(s) ==
    /\ patching[s] # NoTopic
    /\ subs' = [subs EXCEPT ![s] = patching[s]]
    /\ patching' = [patching EXCEPT ![s] = NoTopic]
    /\ UNCHANGED <<queues, topics, updating>>

Purge(s) ==
    /\ Exists(s)
    /\ Forget({s}, {s})
    /\ UNCHANGED records

DeleteSubscription(s) ==
    /\ Exists(s)
    /\ subs' = [subs EXCEPT ![s] = NoTopic]
    /\ Forget({s}, {s})
    /\ UNCHANGED <<topics, updating, patching>>

-----------------------------------------------------------------------------
(* Delivery. *)
Before(e, f) == e.msg < f.msg \/ (e.msg = f.msg /\ f.ack /\ ~e.ack)
SameKey(e, f) == key[e.msg] = key[f.msg] /\ key[e.msg] # NoKey

\* Wrong on purpose: a message handed out now does not hold the next of its key.
Wrong_Deliverable(q) ==
    {e \in q : ~e.leased /\ \A f \in q : Before(f, e) /\ f.leased => ~SameKey(f, e)}

\* Neither leased nor behind another message of its key.
Deliverable(q) == {e \in q : ~e.leased /\ \A f \in q : Before(f, e) => ~SameKey(f, e)}
First(q, n) == {e \in q : Cardinality({f \in q : Before(f, e)}) < n}

\* Messages up to old are past the retention, none if it is 0.
Pull(s, n, old) ==
    LET kept == {e \in box[s] : e.msg > old}
        got == First(Deliverable(kept), n)
    IN  /\ Exists(s)
        /\ box' = [box EXCEPT ![s] = (kept \ got) \cup
                      {[e EXCEPT !.leased = TRUE, !.given = TRUE] : e \in got}]
        /\ due' = [due EXCEPT ![s] = {m \in @ : m > old}]
        /\ UNCHANGED <<records, key, next>>

Held(s, m) == {e \in box[s] : e.ack /\ e.given /\ e.msg = m}
\* Wrong on purpose: an acknowledgement after the lease is ignored.
Wrong_Ack(s, m) ==
    LET out == {e \in Held(s, m) : e.leased}
    IN  /\ Exists(s) /\ Held(s, m) # {}
        /\ box' = [box EXCEPT ![s] = @ \ out]
        /\ due' = [due EXCEPT ![s] = @ \ {e.msg : e \in out}]
        /\ UNCHANGED <<records, key, next>>

Ack(s, m) ==
    /\ Exists(s) /\ Held(s, m) # {}
    /\ box' = [box EXCEPT ![s] = @ \ Held(s, m)]
    /\ due' = [due EXCEPT ![s] = @ \ {m}]
    /\ UNCHANGED <<records, key, next>>

Relet(s, old, lease) ==
    box' = [box EXCEPT ![s] = (@ \ old) \cup {[e EXCEPT !.leased = lease] : e \in old}]

\* A deadline of 0 gives the message back.
ModifyAckDeadline(s, m, lease) ==
    /\ Exists(s) /\ Held(s, m) # {}
    /\ Relet(s, Held(s, m), lease)
    /\ UNCHANGED <<records, key, next, due>>

Expire(s, e) ==
    /\ e \in box[s] /\ e.leased
    /\ Relet(s, {e}, FALSE)
    /\ UNCHANGED <<records, key, next, due>>

-----------------------------------------------------------------------------
Operate ==
    \/ \E t \in Topics : PutTopic(t) \/ DeleteTopic(t)
    \/ \E t \in Topics : BeginUpdateTopic(t) \/ EndUpdateTopic(t)
    \/ \E t \in Topics, s \in Subs : CreateTopic(t, s) \/ CreateSubscription(s, t)
    \/ \E t \in Topics, k \in Keys \cup {NoKey} : Publish(t, k)
    \/ \E s \in Subs : BeginPatch(s) \/ EndPatch(s) \/ Purge(s) \/ DeleteSubscription(s)

Deliver ==
    \E s \in Subs :
        \/ \E n \in Batches, old \in 0 .. next - 1 : Pull(s, n, old)
        \/ \E m \in Messages : Ack(s, m) \/ \E lease \in BOOLEAN : ModifyAckDeadline(s, m, lease)
        \/ \E e \in box[s] : Expire(s, e)

PSNext == Operate \/ Deliver

\* A client of each subscription keeps pulling, and acknowledges what it gets.
PSFairness ==
    \A s \in Subs :
        /\ WF_psvars(\E n \in Batches : Pull(s, n, 0))
        /\ \A m \in Messages : WF_psvars(Ack(s, m))

PSSpec == PSInit /\ [][PSNext]_psvars
PSFairSpec == PSSpec /\ PSFairness

-----------------------------------------------------------------------------
(* Properties; the first three for subscriptions whose id no topic has.    *)

\* The queue of a subscription holds what was published to it and neither
\* acknowledged, purged, grown too old nor deleted with it, each once: also
\* across topics deleted, repointed and patched.
Accounted ==
    \A s \in Subs \ Topics :
        /\ {e.msg : e \in box[s]} = due[s]
        /\ \A e, f \in box[s] : e.msg = f.msg => e = f

\* Of the messages of one key, only the oldest can be with a client.
InOrder ==
    \A s \in Subs \ Topics : \A e, f \in box[s] :
        Before(e, f) /\ SameKey(e, f) => ~f.leased /\ ~f.given

\* A message for a subscription whose client pulls and acknowledges is settled
\* in the end.
Drained == \A s \in Subs, m \in Messages : m \in due[s] ~> m \notin due[s]

\* A message that is acknowledged is removed from the queue entirely.
AckedRemoved ==
    [][\A s \in Subs, m \in Messages : Ack(s, m) => \A e \in box'[s] : e.msg # m]_psvars
=============================================================================
