----------------------------- MODULE SQSProofs -----------------------------
(***************************************************************************)
(* Proofs about SQS for any number of queues, messages, groups and ids,    *)
(* any redrive policies that do not name the queue itself, any timeouts.   *)
(*                                                                         *)
(* Almost every step drops messages of one queue or ends their leases, and *)
(* then changes or adds at most one message.  Good says what a collection  *)
(* of messages satisfies, Pruned relates two that differ by the first, and *)
(* the lemmas show that each kind of change keeps Good.                    *)
(***************************************************************************)
EXTENDS SQS, TLAPS

-----------------------------------------------------------------------------

Policy == [target : Queues \cup {NoQueue}, max : Nat]
Config == [exists : BOOLEAN, policy : Policy, delay : Nat]

\* Every message by itself.
Sound(b) ==
    \A s \in Live(b) :
        /\ b[s].body \in 1 .. s
        /\ attrs[b[s].queue].exists
        /\ b[s].sent <= now
        /\ b[s].flight => b[s].count > 0
        /\ b[s].queue \in Fifo => b[s].group # NoGroup
        /\ b[s].count > 0 /\ ~b[s].flight => b[s].visible <= now
        /\ b[s].queue \in steady /\ b[s].count = 0
           => b[s].visible = b[s].sent + attrs[b[s].queue].delay

Stamped(b, n) == \A s \in Stamps : s >= n => b[s] = Empty

\* One live message of each number, but for those in D.
Unique(b, D) ==
    \A s, t \in Live(b) :
        b[s].body = b[t].body /\ b[s].body \notin D => s = t

\* Of a group's messages only the oldest was ever handed out, and they become
\* visible in order.
Ordered(b) ==
    \A s, t \in Live(b) :
        /\ b[s].queue = b[t].queue
        /\ b[s].queue \in Fifo
        /\ b[s].queue \in steady
        /\ b[s].group = b[t].group
        /\ s < t
        => /\ b[t].count = 0
           /\ b[s].sent <= b[t].sent

Distinct(b) ==
    \A s, t \in Live(b) :
        /\ b[s].queue = b[t].queue
        /\ b[s].queue \in Fifo
        /\ b[s].dedup = b[t].dedup
        /\ b[s].dedup # NoDedup
        /\ s < t
        => b[t].sent >= b[s].sent + Window

Capped(b) ==
    \A s \in Live(b) :
        /\ b[s].queue \in steady
        /\ attrs[b[s].queue].policy.max > 0
        /\ b[s].flight
        => b[s].count <= attrs[b[s].queue].policy.max

Good(b) ==
    /\ b \in [Stamps -> Message]
    /\ Sound(b)
    /\ Unique(b, doubled)
    /\ Ordered(b)
    /\ Distinct(b)
    /\ Capped(b)

\* c has what b has, but for messages that are gone and leases that lapsed.
Same(m, l) ==
    /\ m.queue = l.queue
    /\ m.body = l.body
    /\ m.group = l.group
    /\ m.dedup = l.dedup
    /\ m.sent = l.sent
    /\ m.visible = l.visible
    /\ m.count = l.count
    /\ \/ m.flight = l.flight
       \/ ~m.flight /\ l.visible <= now

Pruned(b, c) ==
    \A s \in Stamps :
        \/ c[s] = Empty
        \/ c[s] = b[s]
        \/ s \in Live(b) /\ Same(c[s], b[s])

LEMMA EmptyType == Empty \in Message /\ Empty.queue = NoQueue
BY NumbersAssumption DEF Empty, Message

LEMMA PrunedLive ==
    ASSUME NEW b, NEW c, Pruned(b, c)
    PROVE  /\ Live(c) \subseteq Live(b)
           /\ \A s \in Live(c) : Same(c[s], b[s])
BY EmptyType DEF Pruned, Same, Live

LEMMA PrunedGood ==
    ASSUME NEW b, NEW c \in [Stamps -> Message], Good(b), Pruned(b, c)
    PROVE  Good(c)
<1>1. /\ Live(c) \subseteq Live(b)
      /\ \A s \in Live(c) : Same(c[s], b[s])
    BY PrunedLive
<1>2. Sound(c)
    BY <1>1 DEF Good, Sound, Same, Live
<1>3. Unique(c, doubled)
    BY <1>1 DEF Good, Unique, Same, Live
<1>4. Ordered(c)
    BY <1>1 DEF Good, Ordered, Same, Live
<1>5. Distinct(c)
    BY <1>1 DEF Good, Distinct, Same, Live
<1>6. Capped(c)
    BY <1>1 DEF Good, Capped, Same, Live
<1> QED
    BY <1>2, <1>3, <1>4, <1>5, <1>6 DEF Good

\* The bodies of what a pruning leaves.
LEMMA PrunedBodies ==
    ASSUME NEW b, NEW c, NEW S, Pruned(b, c), Unique(b, doubled),
           S \subseteq Stamps,
           \A s \in Live(b) : s \in S <=> s \notin Live(c)
    PROVE  /\ Bodies(c, Live(c)) \ doubled
                  = (Bodies(b, Live(b)) \ Bodies(b, S \cap Live(b))) \ doubled
           /\ Live(c) \subseteq Live(b)
<1>1. /\ Live(c) \subseteq Live(b)
      /\ \A s \in Live(c) : Same(c[s], b[s])
    BY PrunedLive
<1>2. ASSUME NEW x \in Bodies(c, Live(c)), x \notin doubled
      PROVE  x \in Bodies(b, Live(b)) \ Bodies(b, S \cap Live(b))
    BY <1>1, <1>2 DEF Bodies, Same, Unique
<1>3. ASSUME NEW x \in Bodies(b, Live(b)), x \notin Bodies(b, S \cap Live(b))
      PROVE  x \in Bodies(c, Live(c))
    BY <1>1, <1>3 DEF Bodies, Same, Unique
<1> QED
    BY <1>1, <1>2, <1>3

LEMMA SweepPrunes ==
    ASSUME NEW b \in [Stamps -> Message], NEW q \in Queues
    PROVE  /\ Sweep(b, q) \in [Stamps -> Message]
           /\ Pruned(b, Sweep(b, q))
           /\ Expired(b, q) \subseteq Live(b)
           /\ \A s \in Live(b) : s \in Expired(b, q) <=> s \notin Live(Sweep(b, q))
           /\ \A s \in Stamps : b[s].queue # q => Sweep(b, q)[s] = b[s]
<1> DEFINE c == Sweep(b, q)
<1>1. ASSUME NEW s \in Stamps, s \in Expired(b, q)
      PROVE  c[s] = Empty
    BY <1>1 DEF Sweep
<1>2. ASSUME NEW s \in Stamps, s \notin Expired(b, q)
      PROVE  /\ c[s] = [b[s] EXCEPT !.flight = @ /\ s \notin Lapsed(b, q)]
             /\ c[s] \in Message
             /\ c[s].queue = b[s].queue
             /\ s \notin Lapsed(b, q) => c[s] = b[s]
             /\ s \in Lapsed(b, q) => s \in Live(b) /\ Same(c[s], b[s])
    <2>1. c[s] = [b[s] EXCEPT !.flight = @ /\ s \notin Lapsed(b, q)]
        BY <1>2, Zenon DEF Sweep
    <2>2. b[s] \in Message
        OBVIOUS
    <2>3. c[s].flight = (b[s].flight /\ s \notin Lapsed(b, q))
        BY <2>1, <2>2 DEF Message
    <2>4. c[s] \in Message /\ c[s].queue = b[s].queue
        BY <2>1, <2>2 DEF Message
    <2>5. /\ c[s].body = b[s].body
          /\ c[s].group = b[s].group
          /\ c[s].dedup = b[s].dedup
          /\ c[s].sent = b[s].sent
          /\ c[s].visible = b[s].visible
          /\ c[s].count = b[s].count
        BY <2>1, <2>2 DEF Message
    <2>6. \/ c[s].flight = b[s].flight
          \/ ~c[s].flight /\ b[s].visible <= now
        <3>1. CASE s \in Lapsed(b, q)
            BY <2>3, <3>1 DEF Lapsed
        <3>2. CASE s \notin Lapsed(b, q)
            <4>1. b[s].flight \in BOOLEAN
                BY <2>2 DEF Message
            <4> QED
                BY <2>3, <3>2, <4>1
        <3> QED
            BY <3>1, <3>2
    <2>7. s \notin Lapsed(b, q) => c[s] = b[s]
        <3> SUFFICES ASSUME s \notin Lapsed(b, q) PROVE c[s] = b[s]
            OBVIOUS
        <3>1. c[s] = [b[s] EXCEPT !.flight = @ /\ TRUE]
            BY <2>1
        <3> QED
            BY <2>2, <3>1 DEF Message
    <2>8. s \in Lapsed(b, q) => s \in Live(b)
        BY QueuesAssumption DEF Lapsed, In, Live
    <2> QED
        BY <2>1, <2>4, <2>5, <2>6, <2>7, <2>8 DEF Same
<1>3. c \in [Stamps -> Message]
    <2>1. \A s \in Stamps : c[s] \in Message
        BY <1>1, <1>2, EmptyType
    <2>2. c = [s \in Stamps |-> c[s]]
        BY DEF Sweep
    <2> HIDE DEF c
    <2> QED
        BY <2>1, <2>2
<1>4. Pruned(b, c)
    BY <1>1, <1>2 DEF Pruned
<1>5. NoQueue \notin Queues
    BY QueuesAssumption
<1>6. Expired(b, q) \subseteq Live(b)
    BY <1>5 DEF Expired, In, Live
<1>7. \A s \in Live(b) : s \in Expired(b, q) <=> s \notin Live(c)
    BY <1>1, <1>2, EmptyType DEF Live
<1>8. \A s \in Stamps : b[s].queue # q => c[s] = b[s]
    <2> SUFFICES ASSUME NEW s \in Stamps, b[s].queue # q
                 PROVE  c[s] = b[s]
        OBVIOUS
    <2>1. s \notin Expired(b, q) /\ s \notin Lapsed(b, q)
        BY DEF Expired, Lapsed, In
    <2>2. c[s] = b[s] \/ s \in Lapsed(b, q)
        BY <1>2, <2>1
    <2> QED
        BY <2>1, <2>2
<1> QED
    BY <1>3, <1>4, <1>6, <1>7, <1>8

-----------------------------------------------------------------------------

\* Dropping messages: by name of the queue, or one of them.
LEMMA DropPrunes ==
    ASSUME NEW b \in [Stamps -> Message], NEW S \in SUBSET Live(b), NEW c,
           c = [s \in Stamps |-> IF s \in S THEN Empty ELSE b[s]]
    PROVE  /\ c \in [Stamps -> Message]
           /\ Pruned(b, c)
           /\ \A s \in Live(b) : s \in S <=> s \notin Live(c)
<1>1. c \in [Stamps -> Message]
    BY EmptyType
<1>2. Pruned(b, c)
    BY DEF Pruned, Same
<1>3. \A s \in Live(b) : s \in S <=> s \notin Live(c)
    BY EmptyType DEF Live
<1> QED
    BY <1>1, <1>2, <1>3

LEMMA DropOne ==
    ASSUME NEW b \in [Stamps -> Message], NEW s \in Stamps
    PROVE  [b EXCEPT ![s] = Empty]
               = [t \in Stamps |-> IF t \in {s} THEN Empty ELSE b[t]]
OBVIOUS

Added(b, q, body, g, k) == [b EXCEPT ![next] = Fresh(q, body, g, k)]

\* Enqueueing at the end, when nothing there makes it a duplicate.
LEMMA AddAny ==
    ASSUME NEW b \in [Stamps -> Message], Good(b), Stamped(b, next),
           next \in Stamps, now \in Nat, attrs \in [Queues -> Config],
           NEW q \in Queues, attrs[q].exists,
           NEW body \in 1 .. next,
           NEW D, doubled \subseteq D, body \notin Bodies(b, Live(b)) \/ body \in D,
           NEW g \in Groups \cup {NoGroup}, NEW k \in Dedups \cup {NoDedup},
           ~Refused(q, g), Twins(b, q, k) = {}
    PROVE  /\ Added(b, q, body, g, k) \in [Stamps -> Message]
           /\ Sound(Added(b, q, body, g, k))
           /\ Unique(Added(b, q, body, g, k), D)
           /\ Ordered(Added(b, q, body, g, k))
           /\ Distinct(Added(b, q, body, g, k))
           /\ Capped(Added(b, q, body, g, k))
           /\ Live(Added(b, q, body, g, k)) = Live(b) \cup {next}
           /\ Bodies(Added(b, q, body, g, k), Live(Added(b, q, body, g, k)))
                  = Bodies(b, Live(b)) \cup {body}
           /\ Stamped(Added(b, q, body, g, k), next + 1)
           /\ \A s \in Stamps : s # next => Added(b, q, body, g, k)[s] = b[s]
<1> DEFINE m == Fresh(q, body, g, k)
           c == Added(b, q, body, g, k)
<1>1. /\ m \in Message
      /\ m.queue = q /\ m.body = body /\ m.group = g /\ m.dedup = k
      /\ m.sent = now /\ m.visible = now + attrs[q].delay
      /\ m.count = 0 /\ m.flight = FALSE
    <2>1. attrs[q].delay \in Nat
        BY DEF Config
    <2>2. body \in 0 .. MaxStamps
        BY NumbersAssumption DEF Stamps
    <2> QED
        BY <2>1, <2>2 DEF Fresh, Message
<1>2. c[next] = m /\ \A s \in Stamps : s # next => c[s] = b[s]
    BY DEF Added
<1>3. c \in [Stamps -> Message]
    BY <1>1 DEF Added
<1>4. q # NoQueue /\ MaxStamps \in Nat /\ Window \in Nat
    BY QueuesAssumption, NumbersAssumption
<1>5. next \notin Live(b) /\ \A s \in Live(b) : s < next
    BY EmptyType, <1>4 DEF Stamped, Live, Stamps
<1>6. Live(c) = Live(b) \cup {next}
    BY <1>1, <1>2, <1>4 DEF Live
<1> HIDE DEF m, c
<1>7. \A s \in Live(b) : c[s] = b[s] /\ s \in Stamps /\ b[s] \in Message
    BY <1>2, <1>5 DEF Live
<1>8. Sound(c)
    <2>1. ASSUME NEW s \in Live(b)
          PROVE  /\ c[s].body \in 1 .. s
                 /\ attrs[c[s].queue].exists
                 /\ c[s].sent <= now
                 /\ c[s].flight => c[s].count > 0
                 /\ c[s].queue \in Fifo => c[s].group # NoGroup
                 /\ c[s].count > 0 /\ ~c[s].flight => c[s].visible <= now
                 /\ c[s].queue \in steady /\ c[s].count = 0
                    => c[s].visible = c[s].sent + attrs[c[s].queue].delay
        BY <1>7 DEF Good, Sound
    <2>2. /\ m.body \in 1 .. next
          /\ attrs[m.queue].exists
          /\ m.sent <= now
          /\ m.queue \in Fifo => m.group # NoGroup
          /\ m.visible = m.sent + attrs[m.queue].delay
        BY <1>1 DEF Refused
    <2> QED
        BY <1>1, <1>2, <1>6, <2>1, <2>2 DEF Sound
<1>9. Bodies(c, Live(c)) = Bodies(b, Live(b)) \cup {body}
    <2>1. Bodies(c, Live(c)) \subseteq Bodies(b, Live(b)) \cup {body}
        <3> SUFFICES ASSUME NEW s \in Live(c)
                     PROVE  c[s].body \in Bodies(b, Live(b)) \cup {body}
            BY DEF Bodies
        <3> QED
            BY <1>1, <1>2, <1>6, <1>7 DEF Bodies
    <2>2. Bodies(b, Live(b)) \subseteq Bodies(c, Live(c))
        BY <1>6, <1>7 DEF Bodies
    <2>3. body \in Bodies(c, Live(c))
        BY <1>1, <1>2, <1>6 DEF Bodies
    <2> QED
        BY <2>1, <2>2, <2>3
<1>10. Unique(c, D)
    BY <1>1, <1>2, <1>6, <1>7 DEF Good, Unique, Bodies
<1>11. Ordered(c)
    <2>1. \A s \in Live(b) : b[s].sent <= now
        BY DEF Good, Sound
    <2> QED
        BY <1>1, <1>2, <1>5, <1>6, <1>7, <2>1 DEF Good, Ordered, Live, Stamps
<1>12. Distinct(c)
    <2>1. ASSUME NEW s \in Live(b), b[s].queue = q, q \in Fifo,
                 b[s].dedup = k, k # NoDedup
          PROVE  now >= b[s].sent + Window
        <3>1. s \notin Twins(b, q, k)
            OBVIOUS
        <3>2. b[s].sent \in Nat
            BY <1>7 DEF Message
        <3> QED
            BY <1>4, <2>1, <3>1, <3>2 DEF Twins, After, In, Live
    <2> QED
        BY <1>1, <1>2, <1>5, <1>6, <1>7, <2>1 DEF Good, Distinct, Live, Stamps
<1>13. Capped(c)
    BY <1>1, <1>2, <1>6, <1>7 DEF Good, Capped
<1>14. Stamped(c, next + 1)
    BY <1>2, <1>4 DEF Stamped, Stamps
<1> QED
    BY <1>2, <1>3, <1>6, <1>8, <1>9, <1>10, <1>11, <1>12, <1>13, <1>14 DEF c

LEMMA AddGood ==
    ASSUME NEW b \in [Stamps -> Message], Good(b), Stamped(b, next),
           next \in Stamps, now \in Nat, attrs \in [Queues -> Config],
           NEW q \in Queues, attrs[q].exists,
           NEW body \in 1 .. next,
           body \notin Bodies(b, Live(b)) \/ body \in doubled,
           NEW g \in Groups \cup {NoGroup}, NEW k \in Dedups \cup {NoDedup},
           ~Refused(q, g), Twins(b, q, k) = {}
    PROVE  /\ Good(Added(b, q, body, g, k))
           /\ Live(Added(b, q, body, g, k)) = Live(b) \cup {next}
           /\ Bodies(Added(b, q, body, g, k), Live(Added(b, q, body, g, k)))
                  = Bodies(b, Live(b)) \cup {body}
           /\ Stamped(Added(b, q, body, g, k), next + 1)
           /\ \A s \in Stamps : s # next => Added(b, q, body, g, k)[s] = b[s]
<1> DEFINE c == Added(b, q, body, g, k)
           D == doubled
<1>1. doubled \subseteq D /\ (body \notin Bodies(b, Live(b)) \/ body \in D)
    OBVIOUS
<1> HIDE DEF D
<1>2. /\ c \in [Stamps -> Message]
      /\ Sound(c) /\ Unique(c, D) /\ Ordered(c) /\ Distinct(c) /\ Capped(c)
      /\ Live(c) = Live(b) \cup {next}
      /\ Bodies(c, Live(c)) = Bodies(b, Live(b)) \cup {body}
      /\ Stamped(c, next + 1)
      /\ \A s \in Stamps : s # next => c[s] = b[s]
    BY <1>1, AddAny
<1> HIDE DEF c
<1>3. Good(c)
    BY <1>2 DEF Good, D
<1> QED
    BY <1>2, <1>3 DEF c

-----------------------------------------------------------------------------

\* What the receive in progress has still to come to was ready when it began
\* and is, group by group, the oldest of its queue.
Selected ==
    /\ call # Idle => call.queue \in Queues
    /\ \A s \in call.todo : ~box[s].flight /\ box[s].visible <= now
    /\ \A s \in call.out : box[s].flight
    /\ \A s \in call.todo, t \in Stamps :
           /\ call.queue \in Fifo
           /\ box[t].queue = call.queue
           /\ box[t].group = box[s].group
           /\ t < s
           => ~box[t].flight /\ box[t].visible > now

Balance == Bodies(box, Live(box)) \ doubled = open \ doubled

NotToItself == \A q \in Queues : attrs[q].policy.target # q

IInv ==
    /\ TypeOK
    /\ Good(box)
    /\ Selected
    /\ Balance
    /\ NotToItself

\* Good depends on the messages, the clock, the attributes and steady.
LEMMA GoodLater ==
    ASSUME Good(box'), UNCHANGED <<now, attrs, steady, doubled>>
    PROVE  Good(box)'
BY DEF Good, Sound, Unique, Ordered, Distinct, Capped, Live

LEMMA TypeParts ==
    ASSUME TypeOK
    PROVE  /\ now \in Nat
           /\ attrs \in [Queues -> Config]
           /\ box \in [Stamps -> Message]
           /\ next \in 1 .. MaxStamps + 1
           /\ Stamped(box, next)
           /\ call.todo \subseteq Stamps /\ call.out \subseteq Stamps
           /\ \A s \in call.todo \cup call.out : box[s].queue = call.queue
           /\ call \in [queue : Queues \cup {NoQueue}, todo : SUBSET Stamps,
                        out : SUBSET Stamps, wait : Nat]
BY DEF TypeOK, Stamped, Config, Policy

LEMMA IdleType ==
    /\ Idle \in [queue : Queues \cup {NoQueue}, todo : SUBSET Stamps,
                 out : SUBSET Stamps, wait : Nat]
    /\ Idle.todo = {} /\ Idle.out = {} /\ Idle.queue = NoQueue
BY DEF Idle

\* Messages c that differ from box by those in S and by leases that ended.
LEMMA DropTo ==
    ASSUME IInv, NEW S \in SUBSET Live(box), NEW c \in [Stamps -> Message],
           Pruned(box, c),
           \A s \in Live(box) : s \in S <=> s \notin Live(c)
    PROVE  /\ Good(c)
           /\ Stamped(c, next)
           /\ Bodies(c, Live(c)) \ doubled = (open \ Bodies(box, S)) \ doubled
<1>1. Good(c)
    BY PrunedGood DEF IInv
<1>2. Bodies(c, Live(c)) \ doubled = (open \ Bodies(box, S)) \ doubled
    <2>1. S \cap Live(box) = S /\ S \subseteq Stamps
        BY DEF Live
    <2>2. Bodies(c, Live(c)) \ doubled
              = (Bodies(box, Live(box)) \ Bodies(box, S)) \ doubled
        <3>1. Unique(box, doubled)
            BY DEF IInv, Good
        <3>2. Bodies(c, Live(c)) \ doubled
                  = (Bodies(box, Live(box)) \ Bodies(box, S \cap Live(box)))
                        \ doubled
            BY <2>1, <3>1, PrunedBodies
        <3> QED
            BY <2>1, <3>2
    <2> QED
        BY <2>2 DEF IInv, Balance
<1>3. Stamped(c, next)
    <2>1. \A s \in Stamps : s >= next => box[s] = Empty
        BY DEF IInv, TypeOK
    <2> QED
        BY <2>1, EmptyType DEF Live, Pruned, Stamped
<1> QED
    BY <1>1, <1>2, <1>3

\* A step that drops the messages in S and ends leases.
LEMMA DropBase ==
    ASSUME IInv, NEW S \in SUBSET Live(box),
           Pruned(box, box'), box' \in [Stamps -> Message],
           \A s \in Live(box) : s \in S <=> s \notin Live(box'),
           open' = open \ Bodies(box, S),
           UNCHANGED <<now, part, attrs, next, steady, doubled>>
    PROVE  /\ Good(box)' /\ Balance' /\ NotToItself'
           /\ \A s \in Stamps : s >= next => box'[s] = Empty
<1>1. /\ Good(box')
      /\ Stamped(box', next)
      /\ Bodies(box', Live(box')) \ doubled = open' \ doubled
    BY DropTo
<1>2. Good(box)'
    BY <1>1, GoodLater
<1>3. Balance'
    BY <1>1 DEF Balance, Bodies, Live
<1> QED
    BY <1>1, <1>2, <1>3 DEF IInv, NotToItself, Stamped

\* The same between two receives.
LEMMA DropStep ==
    ASSUME IInv, call = Idle, NEW S \in SUBSET Live(box),
           Pruned(box, box'), box' \in [Stamps -> Message],
           \A s \in Live(box) : s \in S <=> s \notin Live(box'),
           open' = open \ Bodies(box, S),
           UNCHANGED <<now, part, attrs, next, call, steady, doubled>>
    PROVE  IInv'
<1>1. /\ Good(box)' /\ Balance' /\ NotToItself'
      /\ \A s \in Stamps : s >= next => box'[s] = Empty
    BY DropBase
<1>2. TypeOK'
    BY <1>1, IdleType DEF IInv, TypeOK
<1>3. Selected'
    BY IdleType DEF Selected
<1> QED
    BY <1>1, <1>2, <1>3 DEF IInv

\* Changing count, visible_at and in_flight of the messages in T.
LEMMA TouchGood ==
    ASSUME NEW b \in [Stamps -> Message], NEW c \in [Stamps -> Message],
           Good(b), NEW T \in SUBSET Live(b),
           \A s \in Stamps \ T : c[s] = b[s],
           \A s \in T :
               /\ c[s].queue = b[s].queue
               /\ c[s].body = b[s].body
               /\ c[s].group = b[s].group
               /\ c[s].dedup = b[s].dedup
               /\ c[s].sent = b[s].sent
               /\ c[s].count > 0
               /\ c[s].flight \/ c[s].visible <= now
               /\ b[s].queue \in steady
                  /\ attrs[b[s].queue].policy.max > 0
                  /\ c[s].flight
                  => c[s].count <= attrs[b[s].queue].policy.max
               /\ b[s].count > 0
                  \/ \A t \in Live(b) :
                         ~ /\ b[t].queue = b[s].queue
                           /\ b[t].queue \in Fifo
                           /\ b[t].queue \in steady
                           /\ b[t].group = b[s].group
                           /\ t < s
    PROVE  Good(c) /\ Live(c) = Live(b) /\ Bodies(c, Live(c)) = Bodies(b, Live(b))
<1>1. Live(c) = Live(b)
    BY DEF Live
<1>2. \A s \in Live(b) :
          /\ c[s].queue = b[s].queue
          /\ c[s].body = b[s].body
          /\ c[s].group = b[s].group
          /\ c[s].dedup = b[s].dedup
          /\ c[s].sent = b[s].sent
    BY DEF Live
<1>3. Sound(c)
    <2> SUFFICES ASSUME NEW s \in Live(b)
                 PROVE  /\ c[s].body \in 1 .. s
                        /\ attrs[c[s].queue].exists
                        /\ c[s].sent <= now
                        /\ c[s].flight => c[s].count > 0
                        /\ c[s].queue \in Fifo => c[s].group # NoGroup
                        /\ c[s].count > 0 /\ ~c[s].flight => c[s].visible <= now
                        /\ c[s].queue \in steady /\ c[s].count = 0
                           => c[s].visible = c[s].sent + attrs[c[s].queue].delay
        BY <1>1 DEF Sound
    <2>1. CASE s \in T
        BY <1>2, <2>1 DEF Good, Sound
    <2>2. CASE s \notin T
        BY <2>2 DEF Good, Sound, Live
    <2> QED
        BY <2>1, <2>2
<1>4. Unique(c, doubled) /\ Distinct(c)
    BY <1>1, <1>2 DEF Good, Unique, Distinct
<1>5. Ordered(c)
    <2> SUFFICES ASSUME NEW s \in Live(b), NEW t \in Live(b),
                        b[s].queue = b[t].queue, b[s].queue \in Fifo,
                        b[s].queue \in steady, b[s].group = b[t].group, s < t
                 PROVE  c[t].count = 0 /\ c[s].sent <= c[t].sent
        BY <1>1, <1>2 DEF Ordered
    <2>1. b[t].count = 0 /\ b[s].sent <= b[t].sent
        BY DEF Good, Ordered
    <2>2. t \notin T
        BY <2>1
    <2> QED
        BY <1>2, <2>1, <2>2 DEF Live
<1>6. Capped(c)
    <2> SUFFICES ASSUME NEW s \in Live(b), b[s].queue \in steady,
                        attrs[b[s].queue].policy.max > 0, c[s].flight
                 PROVE  c[s].count <= attrs[b[s].queue].policy.max
        BY <1>1, <1>2 DEF Capped
    <2>1. CASE s \in T
        BY <2>1
    <2>2. CASE s \notin T
        BY <2>2 DEF Good, Capped, Live
    <2> QED
        BY <2>1, <2>2
<1>7. Bodies(c, Live(c)) = Bodies(b, Live(b))
    BY <1>1, <1>2 DEF Bodies
<1> QED
    BY <1>1, <1>3, <1>4, <1>5, <1>6, <1>7 DEF Good

LEMMA TouchOne ==
    ASSUME NEW b \in [Stamps -> Message], NEW c \in [Stamps -> Message],
           Good(b), NEW s \in Live(b),
           \A t \in Stamps \ {s} : c[t] = b[t],
           c[s].queue = b[s].queue, c[s].body = b[s].body,
           c[s].group = b[s].group, c[s].dedup = b[s].dedup,
           c[s].sent = b[s].sent, c[s].count > 0,
           c[s].flight \/ c[s].visible <= now,
           /\ b[s].queue \in steady
           /\ attrs[b[s].queue].policy.max > 0
           /\ c[s].flight
           => c[s].count <= attrs[b[s].queue].policy.max,
           \/ b[s].count > 0
           \/ \A t \in Live(b) :
                  ~ /\ b[t].queue = b[s].queue
                    /\ b[t].queue \in Fifo
                    /\ b[t].queue \in steady
                    /\ b[t].group = b[s].group
                    /\ t < s
    PROVE  Good(c) /\ Live(c) = Live(b) /\ Bodies(c, Live(c)) = Bodies(b, Live(b))
<1> DEFINE T == {s}
<1>1. T \in SUBSET Live(b) /\ \A t \in Stamps \ T : c[t] = b[t]
    OBVIOUS
<1>2. \A t \in T :
          /\ c[t].queue = b[t].queue
          /\ c[t].body = b[t].body
          /\ c[t].group = b[t].group
          /\ c[t].dedup = b[t].dedup
          /\ c[t].sent = b[t].sent
          /\ c[t].count > 0
          /\ c[t].flight \/ c[t].visible <= now
          /\ b[t].queue \in steady
             /\ attrs[b[t].queue].policy.max > 0
             /\ c[t].flight
             => c[t].count <= attrs[b[t].queue].policy.max
          /\ b[t].count > 0
             \/ \A r \in Live(b) :
                    ~ /\ b[r].queue = b[t].queue
                      /\ b[r].queue \in Fifo
                      /\ b[r].queue \in steady
                      /\ b[r].group = b[t].group
                      /\ r < t
    OBVIOUS
<1> HIDE DEF T
<1> QED
    BY <1>1, <1>2, TouchGood

\* A pass of the loop that takes s off its queue.
LEMMA TakenOff ==
    ASSUME IInv, NEW s \in call.todo,
           call' = [call EXCEPT !.todo = @ \ {s}],
           \A t \in Stamps : t # s /\ box[t].queue = call.queue
                             => box'[t] = box[t],
           \A t \in Stamps : box'[t].queue = call.queue
                             => t # s /\ box[t].queue = call.queue,
           UNCHANGED <<now, attrs, doubled>>
    PROVE  /\ call' \in [queue : Queues \cup {NoQueue}, todo : SUBSET Stamps,
                         out : SUBSET Stamps, wait : Nat]
           /\ \A t \in (call.todo \cup call.out)' : box'[t].queue = call'.queue
           /\ Selected' /\ NotToItself'
<1>1. /\ call.todo \subseteq Stamps /\ call.out \subseteq Stamps
      /\ \A t \in call.todo \cup call.out : box[t].queue = call.queue
      /\ call \in [queue : Queues \cup {NoQueue}, todo : SUBSET Stamps,
                   out : SUBSET Stamps, wait : Nat]
    BY TypeParts DEF IInv
<1>2. /\ call'.queue = call.queue /\ call'.wait = call.wait
      /\ call'.todo = call.todo \ {s} /\ call'.out = call.out
    BY <1>1
<1>3. s \notin call.out
    BY DEF IInv, Selected
<1>4. call' \in [queue : Queues \cup {NoQueue}, todo : SUBSET Stamps,
                 out : SUBSET Stamps, wait : Nat]
    BY <1>1
<1>5. \A t \in call'.todo \cup call'.out : box'[t] = box[t]
    BY <1>1, <1>2, <1>3
<1>6. call.queue \in Queues
    BY IdleType DEF IInv, Selected
<1>7. Selected'
    BY <1>1, <1>2, <1>3, <1>5, <1>6 DEF IInv, Selected
<1> QED
    BY <1>1, <1>2, <1>4, <1>5, <1>7 DEF IInv, NotToItself

-----------------------------------------------------------------------------
(* The steps.                                                              *)

\* Attributes of one queue change, of which nothing is in the queue or which
\* is no longer steady.
LEMMA AttrGood ==
    ASSUME Good(box'), NEW q \in Queues, UNCHANGED <<now, doubled>>,
           \A r \in Queues \ {q} :
               attrs'[r] = attrs[r] /\ (r \in steady' <=> r \in steady),
           \/ \A s \in Stamps : box'[s].queue # q
           \/ attrs'[q].exists /\ q \notin steady'
    PROVE  Good(box)'
<1>1. \A s \in Live(box') : s \in Stamps /\ box'[s].queue \in Queues
    BY DEF Good, Live, Message
<1>2. Sound(box)'
    <2> SUFFICES ASSUME NEW s \in Live(box')
                 PROVE  /\ box'[s].body \in 1 .. s
                        /\ attrs'[box'[s].queue].exists
                        /\ box'[s].sent <= now'
                        /\ box'[s].flight => box'[s].count > 0
                        /\ box'[s].queue \in Fifo => box'[s].group # NoGroup
                        /\ box'[s].count > 0 /\ ~box'[s].flight
                           => box'[s].visible <= now'
                        /\ box'[s].queue \in steady' /\ box'[s].count = 0
                           => box'[s].visible
                              = box'[s].sent + attrs'[box'[s].queue].delay
        BY DEF Sound, Live
    <2>1. CASE box'[s].queue = q
        BY <1>1, <2>1 DEF Good, Sound
    <2>2. CASE box'[s].queue # q
        BY <1>1, <2>2 DEF Good, Sound
    <2> QED
        BY <2>1, <2>2
<1>3. (Unique(box, doubled) /\ Distinct(box))'
    BY DEF Good, Unique, Distinct, Live
<1>4. Ordered(box)'
    <2> SUFFICES ASSUME NEW s \in Live(box'), NEW t \in Live(box'),
                        box'[s].queue = box'[t].queue, box'[s].queue \in Fifo,
                        box'[s].queue \in steady',
                        box'[s].group = box'[t].group, s < t
                 PROVE  box'[t].count = 0 /\ box'[s].sent <= box'[t].sent
        BY DEF Ordered, Live
    <2>1. box'[s].queue \in steady
        BY <1>1
    <2> QED
        BY <2>1 DEF Good, Ordered
<1>5. Capped(box)'
    <2> SUFFICES ASSUME NEW s \in Live(box'), box'[s].queue \in steady',
                        attrs'[box'[s].queue].policy.max > 0, box'[s].flight
                 PROVE  box'[s].count <= attrs'[box'[s].queue].policy.max
        BY DEF Capped, Live
    <2>1. box'[s].queue # q
        BY <1>1
    <2>2. box'[s].queue \in steady /\ attrs'[box'[s].queue] = attrs[box'[s].queue]
        BY <1>1, <2>1
    <2> QED
        BY <2>2 DEF Good, Capped
<1> QED
    BY <1>2, <1>3, <1>4, <1>5 DEF Good

LEMMA InitIInv == Init => IInv
<1> SUFFICES ASSUME Init PROVE IInv
    OBVIOUS
<1>1. \A s \in Stamps : box[s] = Empty
    BY DEF Init
<1>2. Live(box) = {}
    BY <1>1, EmptyType DEF Live
<1>p. part \in BOOLEAN
    BY Zenon DEF Init
<1>3. TypeOK
    BY <1>1, <1>p, IdleType, EmptyType, NumbersAssumption
       DEF Init, TypeOK, Absent, NoPolicy
<1>4. Good(box)
    BY <1>2, <1>3 DEF Good, Sound, Unique, Ordered, Distinct, Capped, TypeOK
<1>5. Selected
    BY IdleType DEF Init, Selected
<1>6. Balance
    BY <1>2 DEF Balance, Bodies, Init
<1>7. NotToItself
    BY QueuesAssumption DEF Init, NotToItself, Absent, NoPolicy
<1> QED
    BY <1>3, <1>4, <1>5, <1>6, <1>7 DEF IInv

\* A change of attributes between two receives.
LEMMA AttrStep ==
    ASSUME IInv, call = Idle, NEW q \in Queues,
           attrs' \in [Queues -> Config], attrs'[q].policy.target # q,
           \A r \in Queues \ {q} :
               attrs'[r] = attrs[r] /\ (r \in steady' <=> r \in steady),
           steady' \subseteq Queues,
           \/ \A s \in Stamps : box[s].queue # q
           \/ attrs'[q].exists /\ q \notin steady',
           UNCHANGED <<now, part, box, next, call, open, doubled>>
    PROVE  IInv'
<1>1. Good(box)'
    BY AttrGood DEF IInv
<1>2. TypeOK'
    BY IdleType DEF IInv, TypeOK, Config, Policy
<1>3. Selected'
    BY IdleType DEF Selected
<1>4. Balance' /\ NotToItself'
    BY DEF IInv, Balance, NotToItself, Bodies, Live
<1> QED
    BY <1>1, <1>2, <1>3, <1>4 DEF IInv

LEMMA StutterKept ==
    ASSUME IInv, UNCHANGED vars
    PROVE  IInv'
<1>1. Good(box)'
    BY GoodLater DEF IInv, vars
<1>2. TypeOK' /\ Selected' /\ Balance' /\ NotToItself'
    BY DEF IInv, TypeOK, Selected, Balance, Bodies, Live, NotToItself, vars
<1> QED
    BY <1>1, <1>2 DEF IInv

LEMMA ConfigType ==
    ASSUME NEW q \in Queues, NEW c \in Configs[q]
    PROVE  /\ c.policy \in Policy /\ c.delay \in Nat
           /\ c.policy.target # q
BY ConfigsAssumption DEF Policy

LEMMA QueueKept ==
    ASSUME IInv, QueueStep
    PROVE  IInv'
<1>t. /\ attrs \in [Queues -> Config] /\ box \in [Stamps -> Message]
      /\ steady \subseteq Queues
    BY TypeParts DEF IInv, TypeOK
<1>q. NoQueue \notin Queues
    BY QueuesAssumption
<1>1. ASSUME NEW q \in Queues, NEW c \in Configs[q], CreateQueue(q, c)
      PROVE  IInv'
    <2>1. \A s \in Stamps : box[s].queue # q
        BY <1>1, <1>q DEF IInv, Good, Sound, Live, CreateQueue
    <2>2. attrs' \in [Queues -> Config] /\ attrs'[q].policy.target # q
        BY <1>1, <1>t, ConfigType DEF CreateQueue, Config
    <2>3. \A r \in Queues \ {q} :
              attrs'[r] = attrs[r] /\ (r \in steady' <=> r \in steady)
        BY <1>1, <1>t DEF CreateQueue
    <2> QED
        BY <1>1, <1>t, <2>1, <2>2, <2>3, AttrStep DEF CreateQueue
<1>2. ASSUME NEW q \in Queues, NEW c \in Configs[q], UpdateQueue(q, c)
      PROVE  IInv'
    <2>1. /\ attrs' \in [Queues -> Config]
          /\ attrs'[q].policy.target # q
          /\ attrs'[q].exists
        BY <1>2, <1>t, ConfigType DEF UpdateQueue, Config
    <2>2. \A r \in Queues \ {q} :
              attrs'[r] = attrs[r] /\ (r \in steady' <=> r \in steady)
        BY <1>2, <1>t DEF UpdateQueue
    <2>3. CASE attrs' = attrs
        BY <1>2, <2>3, StutterKept DEF UpdateQueue, vars
    <2>4. CASE attrs' # attrs
        <3>1. \/ \A s \in Stamps : box[s].queue # q
              \/ attrs'[q].exists /\ q \notin steady'
            BY <1>2, <2>1, <2>4 DEF UpdateQueue, In
        <3>2. steady' \subseteq Queues
            BY <1>2, <1>t DEF UpdateQueue
        <3> QED
            BY <1>2, <2>1, <2>2, <3>1, <3>2, AttrStep DEF UpdateQueue
    <2> QED
        BY <2>3, <2>4
<1>3. ASSUME NEW q \in Queues, PurgeQueue(q)
      PROVE  IInv'
    <2>1. In(box, q) \in SUBSET Live(box)
        BY <1>q DEF In, Live
    <2>2. /\ box' \in [Stamps -> Message]
          /\ Pruned(box, box')
          /\ \A s \in Live(box) : s \in In(box, q) <=> s \notin Live(box')
        BY <1>3, <1>t, <2>1, DropPrunes DEF PurgeQueue
    <2> QED
        BY <1>3, <2>1, <2>2, DropStep DEF PurgeQueue
<1>4. ASSUME NEW q \in Queues, DeleteQueue(q)
      PROVE  IInv'
    <2>1. In(box, q) \in SUBSET Live(box)
        BY <1>q DEF In, Live
    <2>2. /\ box' \in [Stamps -> Message]
          /\ Pruned(box, box')
          /\ \A s \in Live(box) : s \in In(box, q) <=> s \notin Live(box')
        BY <1>4, <1>t, <2>1, DropPrunes DEF DeleteQueue
    <2>3. Good(box')
        BY <1>t, <2>2, PrunedGood DEF IInv
    <2>4. \A s \in Stamps : box'[s].queue # q
        BY <1>4, <1>q, EmptyType DEF DeleteQueue, In
    <2>5. attrs' \in [Queues -> Config] /\ attrs'[q].policy.target # q
        BY <1>4, <1>t, <1>q DEF DeleteQueue, Absent, NoPolicy, Config, Policy
    <2>6. \A r \in Queues \ {q} :
              attrs'[r] = attrs[r] /\ (r \in steady' <=> r \in steady)
        BY <1>4, <1>t DEF DeleteQueue
    <2>7. Good(box)'
        BY <1>4, <2>3, <2>4, <2>6, AttrGood DEF DeleteQueue
    <2>8. Balance'
        <3>1. In(box, q) \cap Live(box) = In(box, q) /\ In(box, q) \subseteq Stamps
            BY <2>1 DEF Live
        <3>2. Bodies(box', Live(box')) \ doubled
                  = (Bodies(box, Live(box)) \ Bodies(box, In(box, q))) \ doubled
            <4>1. Unique(box, doubled)
                BY DEF IInv, Good
            <4>2. Bodies(box', Live(box')) \ doubled
                      = (Bodies(box, Live(box))
                             \ Bodies(box, In(box, q) \cap Live(box))) \ doubled
                BY <2>2, <3>1, <4>1, PrunedBodies
            <4> QED
                BY <3>1, <4>2
        <3> QED
            BY <1>4, <3>2 DEF IInv, Balance, DeleteQueue, Bodies, Live
    <2>9. TypeOK'
        <3>1. \A s \in Stamps : s >= next => box'[s] = Empty
            BY <1>4 DEF IInv, TypeOK, DeleteQueue
        <3> QED
            BY <1>4, <2>2, <2>5, <3>1, IdleType
               DEF IInv, TypeOK, DeleteQueue, Config, Policy
    <2>10. Selected'
        BY <1>4, IdleType DEF DeleteQueue, Selected
    <2>11. NotToItself'
        BY <1>4, <2>5, <2>6 DEF IInv, NotToItself
    <2> QED
        BY <2>7, <2>8, <2>9, <2>10, <2>11 DEF IInv
<1>5. ASSUME NEW q \in Queues, ViewQueue(q)
      PROVE  IInv'
    BY <1>5, <1>t, SweepPrunes, DropStep DEF ViewQueue
<1> QED
    BY <1>1, <1>2, <1>3, <1>4, <1>5 DEF QueueStep

LEMMA SendKept ==
    ASSUME IInv, SendStep
    PROVE  IInv'
<1>t. /\ attrs \in [Queues -> Config] /\ box \in [Stamps -> Message]
      /\ now \in Nat /\ next \in 1 .. MaxStamps + 1
    BY TypeParts DEF IInv
<1>1. ASSUME NEW q \in Queues, NEW g \in Groups \cup {NoGroup},
             NEW k \in Dedups \cup {NoDedup}, Send(q, g, k)
      PROVE  IInv'
    <2> DEFINE b == Sweep(box, q)
    <2>1. /\ b \in [Stamps -> Message]
          /\ Pruned(box, b)
          /\ Expired(box, q) \subseteq Live(box)
          /\ \A s \in Live(box) : s \in Expired(box, q) <=> s \notin Live(b)
        BY <1>t, SweepPrunes
    <2>2. /\ b \in [Stamps -> Message]
          /\ box' = [b EXCEPT ![next] = Fresh(q, next, g, k)]
          /\ ~Refused(q, g) /\ Twins(b, q, k) = {}
          /\ next \in Stamps /\ next' = next + 1
          /\ attrs[q].exists
          /\ open' = (open \ Bodies(box, Expired(box, q))) \cup {next}
          /\ UNCHANGED <<now, part, attrs, steady, call, doubled>> /\ call = Idle
        BY <1>1, <2>1 DEF Send
    <2> HIDE DEF b
    <2>3. Good(b)
        BY <1>t, <2>1, PrunedGood DEF IInv
    <2>4. Stamped(b, next)
        BY <2>1, EmptyType DEF IInv, TypeOK, Stamped, Live, Pruned
    <2>5. Bodies(b, Live(b)) \ doubled
              = (open \ Bodies(box, Expired(box, q))) \ doubled
        <3>1. /\ Expired(box, q) \cap Live(box) = Expired(box, q)
              /\ Expired(box, q) \subseteq Stamps
            BY <2>1 DEF Live
        <3>2. Unique(box, doubled)
            BY DEF IInv, Good
        <3>3. Bodies(b, Live(b)) \ doubled
                  = (Bodies(box, Live(box)) \ Bodies(box, Expired(box, q) \cap Live(box)))
                        \ doubled
            BY <2>1, <3>1, <3>2, PrunedBodies
        <3> QED
            BY <3>1, <3>3 DEF IInv, Balance
    <2>6. next \notin Bodies(b, Live(b)) /\ next \in 1 .. next
        <3>1. \A s \in Live(b) : s < next
            BY <1>t, <2>4, EmptyType DEF Live, Stamped, Stamps
        <3>2. \A s \in Live(b) : b[s].body \in 1 .. s /\ s \in Nat
            BY <2>3 DEF Good, Sound, Live, Stamps
        <3> QED
            BY <1>t, <3>1, <3>2 DEF Bodies
    <2>7. /\ Good(box')
          /\ Bodies(box', Live(box')) = Bodies(b, Live(b)) \cup {next}
          /\ Stamped(box', next + 1)
        <3>1. box' = Added(b, q, next, g, k)
            BY <2>2 DEF Added
        <3>2. /\ next \in Stamps /\ now \in Nat
              /\ attrs \in [Queues -> Config]
              /\ b \in [Stamps -> Message]
              /\ attrs[q].exists
              /\ ~Refused(q, g) /\ Twins(b, q, k) = {}
            BY <1>t, <2>2
        <3>3. /\ Good(Added(b, q, next, g, k))
              /\ Bodies(Added(b, q, next, g, k), Live(Added(b, q, next, g, k)))
                     = Bodies(b, Live(b)) \cup {next}
              /\ Stamped(Added(b, q, next, g, k), next + 1)
            BY ONLY <1>1, <2>3, <2>4, <2>6, <3>2, AddGood
        <3> QED
            BY ONLY <3>1, <3>3
    <2>8. Good(box)'
        BY <2>2, <2>7, GoodLater
    <2>9. Balance'
        BY <2>2, <2>5, <2>7 DEF Balance, Bodies, Live
    <2>10. TypeOK'
        <3>1. box' \in [Stamps -> Message]
            BY <2>7 DEF Good
        <3>2. next' \in 1 .. MaxStamps + 1
            BY <2>2, NumbersAssumption DEF Stamps
        <3>3. doubled' \subseteq {n \in Stamps : n < next'}
            BY <1>t, <2>2 DEF IInv, TypeOK, Stamps
        <3> QED
            BY <2>2, <2>7, <3>1, <3>2, <3>3, IdleType DEF IInv, TypeOK, Stamped
    <2>11. Selected' /\ NotToItself'
        BY <2>2, IdleType DEF IInv, Selected, NotToItself
    <2> QED
        BY <2>8, <2>9, <2>10, <2>11 DEF IInv
<1>2. ASSUME NEW q \in Queues, NEW g, NEW k, SendDuplicate(q, g, k)
      PROVE  IInv'
    BY <1>2, QueueKept DEF SendDuplicate, QueueStep
<1> QED
    BY <1>1, <1>2 DEF SendStep

LEMMA HandleKept ==
    ASSUME IInv, HandleStep
    PROVE  IInv'
<1>t. /\ box \in [Stamps -> Message] /\ now \in Nat
    BY TypeParts DEF IInv
<1>1. ASSUME NEW s \in Stamps, DeleteMessage(s)
      PROVE  IInv'
    <2>1. {s} \in SUBSET Live(box)
        BY <1>1 DEF DeleteMessage, Holds, Live
    <2>2. box' = [t \in Stamps |-> IF t \in {s} THEN Empty ELSE box[t]]
        BY <1>1, <1>t, DropOne DEF DeleteMessage
    <2>3. /\ box' \in [Stamps -> Message]
          /\ Pruned(box, box')
          /\ \A t \in Live(box) : t \in {s} <=> t \notin Live(box')
        BY <1>t, <2>1, <2>2, DropPrunes
    <2>4. Bodies(box, {s}) = {box[s].body}
        BY DEF Bodies
    <2> QED
        BY <1>1, <2>1, <2>3, <2>4, DropStep DEF DeleteMessage, Holds
<1>2. ASSUME NEW s \in Stamps, NEW w \in Waits, ChangeVisibility(s, w)
      PROVE  IInv'
    <2>1. /\ box[s].queue # NoQueue /\ box[s].flight /\ call = Idle
          /\ box' = [box EXCEPT ![s].visible = now + w]
          /\ UNCHANGED <<now, part, attrs, next, call, open, steady, doubled>>
        BY <1>2 DEF ChangeVisibility, Holds
    <2>2. w \in Nat
        BY NumbersAssumption
    <2>3. {s} \in SUBSET Live(box)
        BY <2>1 DEF Live
    <2>4. /\ box' \in [Stamps -> Message]
          /\ \A t \in Stamps \ {s} : box'[t] = box[t]
          /\ box'[s].queue = box[s].queue
          /\ box'[s].body = box[s].body
          /\ box'[s].group = box[s].group
          /\ box'[s].dedup = box[s].dedup
          /\ box'[s].sent = box[s].sent
          /\ box'[s].count = box[s].count
          /\ box'[s].flight = box[s].flight
        <3>1. box' = [box EXCEPT ![s] = [box[s] EXCEPT !.visible = now + w]]
            BY <2>1
        <3>2. box[s] \in Message /\ now + w \in Nat
            BY <1>t, <2>2
        <3>3. [box[s] EXCEPT !.visible = now + w] \in Message
            BY <3>2 DEF Message
        <3>4. box'[s] = [box[s] EXCEPT !.visible = now + w]
            BY <1>t, <3>1
        <3> QED
            BY <1>t, <3>1, <3>2, <3>3, <3>4 DEF Message
    <2>5. box[s].count > 0
        BY <2>1, <2>3 DEF IInv, Good, Sound
    <2>6. /\ Good(box')
          /\ Bodies(box', Live(box')) = Bodies(box, Live(box))
        <3>1. box[s].queue \in steady /\ attrs[box[s].queue].policy.max > 0
              => box'[s].count <= attrs[box[s].queue].policy.max
            BY <2>1, <2>3, <2>4 DEF IInv, Good, Capped
        <3> QED
            BY <1>t, <2>1, <2>3, <2>4, <2>5, <3>1, TouchOne DEF IInv
    <2>7. Good(box)'
        BY <2>1, <2>6, GoodLater
    <2>8. \A t \in Stamps : t >= next => box'[t] = Empty
        BY <2>1, <2>4, EmptyType DEF IInv, TypeOK
    <2>9. TypeOK'
        BY <2>1, <2>4, <2>8, IdleType DEF IInv, TypeOK
    <2>10. Selected' /\ NotToItself'
        BY <2>1, IdleType DEF IInv, Selected, NotToItself
    <2>11. Balance'
        BY <2>1, <2>6 DEF IInv, Balance, Bodies, Live
    <2> QED
        BY <2>7, <2>9, <2>10, <2>11 DEF IInv
<1> QED
    BY <1>1, <1>2 DEF HandleStep

LEMMA TickKept ==
    ASSUME IInv, Tick
    PROVE  IInv'
<1>t. now \in Nat /\ box \in [Stamps -> Message]
    BY TypeParts DEF IInv
<1>p. part' \in BOOLEAN
    BY Zenon DEF Tick
<1>n. now' = now \/ now' = now + 1
    BY Zenon DEF Tick
<1>u. call = Idle /\ UNCHANGED <<attrs, box, next, call, open, steady, doubled>>
    BY Zenon DEF Tick
<1>1. /\ now' \in Nat /\ now' >= now /\ now \in Nat /\ call = Idle
      /\ UNCHANGED <<attrs, box, next, call, open, steady, doubled>>
      /\ box \in [Stamps -> Message]
    BY <1>t, <1>n, <1>u
<1>2. Sound(box)'
    <2>1. \A s \in Live(box) : box[s].sent \in Nat /\ box[s].visible \in Nat
        BY <1>1 DEF Live, Message
    <2> QED
        BY <1>1, <2>1 DEF IInv, Good, Sound, Live
<1>3. (Unique(box, doubled) /\ Ordered(box) /\ Distinct(box) /\ Capped(box))'
    BY <1>1 DEF IInv, Good, Unique, Ordered, Distinct, Capped, Live
<1>4. Good(box)'
    BY <1>1, <1>2, <1>3 DEF Good
<1>5. TypeOK'
    BY <1>1, <1>p DEF IInv, TypeOK
<1>6. Selected'
    BY <1>1, IdleType DEF Selected
<1>7. Balance' /\ NotToItself'
    BY <1>1 DEF IInv, Balance, Bodies, Live, NotToItself
<1> QED
    BY <1>4, <1>5, <1>6, <1>7 DEF IInv

-----------------------------------------------------------------------------
(* The steps of a receive.                                                 *)

LEMMA BeginKept ==
    ASSUME IInv, NEW q \in Queues, NEW n, NEW w \in Waits \cup {Visibility},
           BeginReceive(q, n, w)
    PROVE  IInv'
<1>t. /\ box \in [Stamps -> Message] /\ now \in Nat
    BY TypeParts DEF IInv
<1>1. PICK S : /\ S = FirstOf(Deliverable(Sweep(box, q), q), n)
               /\ call' = [queue |-> q, todo |-> S, out |-> {}, wait |-> w]
    BY DEF BeginReceive
<1>2. /\ box' = Sweep(box, q)
      /\ open' = open \ Bodies(box, Expired(box, q))
      /\ UNCHANGED <<now, part, attrs, next, steady, doubled>>
    BY DEF BeginReceive
<1>3. /\ box' \in [Stamps -> Message]
      /\ Pruned(box, box')
      /\ Expired(box, q) \in SUBSET Live(box)
      /\ \A s \in Live(box) : s \in Expired(box, q) <=> s \notin Live(box')
    BY <1>t, <1>2, SweepPrunes
<1>4. /\ Good(box)' /\ Balance' /\ NotToItself'
      /\ \A s \in Stamps : s >= next => box'[s] = Empty
    BY <1>2, <1>3, DropBase
<1>5. /\ S \subseteq Stamps
      /\ \A s \in S : /\ box'[s].queue = q
                      /\ ~box'[s].flight /\ box'[s].visible <= now
    BY <1>1, <1>2 DEF FirstOf, Deliverable, Waiting, In
<1>6. w \in Nat
    BY NumbersAssumption
<1>7. TypeOK'
    BY <1>1, <1>2, <1>3, <1>4, <1>5, <1>6 DEF IInv, TypeOK, Good
<1>8. Selected'
    <2>1. ASSUME NEW s \in S, NEW t \in Stamps, q \in Fifo, box'[t].queue = q,
                 box'[t].group = box'[s].group, t < s
          PROVE  ~box'[t].flight /\ box'[t].visible > now
        <3>1. ~box'[t].flight /\ ~Waiting(box', t)
            BY <1>1, <1>2, <2>1 DEF FirstOf, Deliverable, In
        <3>2. box'[t].visible \in Nat
            BY <1>3 DEF Message
        <3> QED
            BY <1>t, <3>1, <3>2 DEF Waiting
    <2> QED
        BY <1>1, <1>2, <1>5, <2>1 DEF Selected
<1> QED
    BY <1>4, <1>7, <1>8 DEF IInv

\* Before message s of the receive is handed out nothing older of its group
\* is left.
LEMMA Oldest ==
    ASSUME IInv, NEW s \in call.todo, NEW t \in Live(box),
           box[t].queue = box[s].queue, box[t].queue \in Fifo,
           box[t].queue \in steady, box[t].group = box[s].group, t < s
    PROVE  FALSE
<1>1. /\ s \in Stamps /\ t \in Stamps /\ s \in Live(box)
      /\ box[s].queue = call.queue
      /\ box[s] \in Message /\ box[t] \in Message /\ now \in Nat
    BY TypeParts DEF IInv, Live
<1>2. ~box[t].flight /\ box[t].visible > now /\ box[s].visible <= now
    BY <1>1 DEF IInv, Selected
<1>3. box[s].count = 0 /\ box[t].sent <= box[s].sent
    BY <1>1 DEF IInv, Good, Ordered
<1>4. box[s].visible = box[s].sent + attrs[box[s].queue].delay
    BY <1>1, <1>3 DEF IInv, Good, Sound
<1>5. box[t].count = 0
    BY <1>1, <1>2 DEF IInv, Good, Sound, Message
<1>6. box[t].visible = box[t].sent + attrs[box[s].queue].delay
    BY <1>1, <1>5 DEF IInv, Good, Sound
<1>7. attrs[box[s].queue].delay \in Nat
    BY <1>1, TypeParts DEF IInv, Config, Live, Message
<1> QED
    BY <1>1, <1>2, <1>3, <1>4, <1>6, <1>7 DEF Message

LEMMA DeliverKept ==
    ASSUME IInv, NEW s \in Stamps, Deliver(s)
    PROVE  IInv'
<1>t. /\ box \in [Stamps -> Message] /\ now \in Nat /\ Visibility \in Nat
      /\ Visibility > 0
      /\ call.todo \subseteq Stamps /\ call.out \subseteq Stamps
      /\ \A r \in call.todo \cup call.out : box[r].queue = call.queue
      /\ call \in [queue : Queues \cup {NoQueue}, todo : SUBSET Stamps,
                   out : SUBSET Stamps, wait : Nat]
    BY TypeParts, NumbersAssumption DEF IInv
<1>1. /\ s \in call.todo
      /\ ~OverLimit(call.queue, s)
      /\ call' = [call EXCEPT !.todo = @ \ {s}, !.out = @ \cup {s}]
      /\ UNCHANGED <<now, part, attrs, next, open, steady, doubled>>
    BY DEF Deliver, Reaches
<1>2. /\ box' \in [Stamps -> Message]
      /\ \A t \in Stamps \ {s} : box'[t] = box[t]
      /\ box'[s].queue = box[s].queue
      /\ box'[s].body = box[s].body
      /\ box'[s].group = box[s].group
      /\ box'[s].dedup = box[s].dedup
      /\ box'[s].sent = box[s].sent
      /\ box'[s].count = box[s].count + 1
      /\ box'[s].flight = TRUE
    <2> DEFINE m == [box[s] EXCEPT !.count = @ + 1, !.flight = TRUE,
                                   !.visible = now + Visibility]
    <2>1. box[s] \in Message
        BY <1>t
    <2>2. box' = [box EXCEPT ![s] = m]
        BY <1>t DEF Deliver
    <2>3. /\ m \in Message
          /\ m.queue = box[s].queue /\ m.body = box[s].body
          /\ m.group = box[s].group /\ m.dedup = box[s].dedup
          /\ m.sent = box[s].sent /\ m.count = box[s].count + 1
          /\ m.flight = TRUE
        <3>1. now + Visibility \in Nat /\ box[s].count + 1 \in Nat
            BY <1>t, <2>1 DEF Message
        <3> DEFINE m1 == [box[s] EXCEPT !.count = @ + 1]
                   m2 == [m1 EXCEPT !.flight = TRUE]
                   m3 == [m2 EXCEPT !.visible = now + Visibility]
        <3>2. /\ m1 \in Message
              /\ m1.queue = box[s].queue /\ m1.body = box[s].body
              /\ m1.group = box[s].group /\ m1.dedup = box[s].dedup
              /\ m1.sent = box[s].sent /\ m1.count = box[s].count + 1
            BY <2>1, <3>1 DEF Message
        <3>3. m = m3
            OBVIOUS
        <3> HIDE DEF m1, m
        <3>4. /\ m2 \in Message
              /\ m2.queue = m1.queue /\ m2.body = m1.body
              /\ m2.group = m1.group /\ m2.dedup = m1.dedup
              /\ m2.sent = m1.sent /\ m2.count = m1.count
              /\ m2.flight = TRUE
            BY <3>2 DEF Message
        <3> HIDE DEF m2
        <3>5. /\ m3 \in Message
              /\ m3.queue = m2.queue /\ m3.body = m2.body
              /\ m3.group = m2.group /\ m3.dedup = m2.dedup
              /\ m3.sent = m2.sent /\ m3.count = m2.count
              /\ m3.flight = m2.flight
            BY <3>1, <3>4 DEF Message
        <3> QED
            BY <3>2, <3>3, <3>4, <3>5
    <2> HIDE DEF m
    <2> QED
        BY <1>t, <2>2, <2>3
<1>3. call.queue \in Queues /\ s \in Live(box) /\ box[s].queue = call.queue
    <2>1. call.queue \in Queues
        BY <1>1, IdleType DEF IInv, Selected
    <2> QED
        BY <1>t, <1>1, <2>1, QueuesAssumption DEF Live
<1>4. /\ Good(box')
      /\ Bodies(box', Live(box')) = Bodies(box, Live(box))
    <2>1. box[s].count \in Nat
        BY <1>t DEF Message
    <2>2. attrs[box[s].queue].policy.max > 0
          => box'[s].count <= attrs[box[s].queue].policy.max
        <3>1. attrs[box[s].queue].policy.max \in Nat
            BY <1>3, TypeParts DEF IInv, Config, Policy
        <3> QED
            BY <1>1, <1>2, <1>3, <2>1, <3>1 DEF OverLimit
    <2>3. \A t \in Live(box) :
              ~ /\ box[t].queue = box[s].queue
                /\ box[t].queue \in Fifo
                /\ box[t].queue \in steady
                /\ box[t].group = box[s].group
                /\ t < s
        BY <1>1, Oldest
    <2>4. box'[s].count > 0 /\ box'[s].flight
        BY <1>2, <2>1
    <2>5. Good(box)
        BY DEF IInv
    <2> QED
        BY ONLY <1>t, <1>2, <1>3, <2>2, <2>3, <2>4, <2>5, TouchOne
<1>5. Good(box)'
    BY <1>1, <1>4, GoodLater
<1>6. Balance' /\ NotToItself'
    BY <1>1, <1>4 DEF IInv, Balance, NotToItself, Bodies, Live
<1>7. /\ call'.queue = call.queue /\ call'.todo = call.todo \ {s}
      /\ call'.out = call.out \cup {s} /\ call'.wait = call.wait
      /\ call' \in [queue : Queues \cup {NoQueue}, todo : SUBSET Stamps,
                    out : SUBSET Stamps, wait : Nat]
    BY <1>t, <1>1
<1>8. TypeOK'
    <2>1. \A t \in Stamps : t >= next => box'[t] = Empty
        BY <1>2, <1>3, EmptyType DEF IInv, TypeOK, Live
    <2>2. \A t \in call'.todo \cup call'.out : box'[t].queue = call'.queue
        BY <1>t, <1>2, <1>3, <1>7
    <2> QED
        BY <1>1, <1>2, <1>7, <2>1, <2>2 DEF IInv, TypeOK
<1>9. Selected'
    <2>1. \A r \in call'.todo : box'[r] = box[r] /\ r \in call.todo
        BY <1>t, <1>2, <1>7
    <2>2. \A r \in call'.todo :
              /\ ~box'[r].flight /\ box'[r].visible <= now'
        BY <1>1, <2>1 DEF IInv, Selected
    <2>3. \A r \in call'.out : box'[r].flight
        BY <1>t, <1>2, <1>7 DEF IInv, Selected
    <2>4. ASSUME NEW r \in call'.todo, NEW t \in Stamps, call'.queue \in Fifo,
                 box'[t].queue = call'.queue, box'[t].group = box'[r].group,
                 t < r
          PROVE  ~box'[t].flight /\ box'[t].visible > now'
        <3>1. /\ ~box[t].flight /\ box[t].visible > now
            BY <1>2, <1>7, <2>1, <2>4 DEF IInv, Selected
        <3>2. t # s
            <4>1. box[s].visible <= now /\ box[s].visible \in Nat
                BY <1>t, <1>1 DEF IInv, Selected, Message
            <4> QED
                BY <1>t, <3>1, <4>1
        <3> QED
            BY <1>1, <1>2, <3>1, <3>2
    <2> QED
        BY <1>3, <1>7, <2>2, <2>3, <2>4 DEF Selected
<1> QED
    BY <1>5, <1>6, <1>8, <1>9 DEF IInv

LEMMA DiscardKept ==
    ASSUME IInv, NEW s \in Stamps, Discard(s)
    PROVE  IInv'
<1>t. /\ box \in [Stamps -> Message]
      /\ \A r \in call.todo \cup call.out : box[r].queue = call.queue
    BY TypeParts DEF IInv
<1>1. /\ s \in call.todo
      /\ box' = [box EXCEPT ![s] = Empty]
      /\ call' = [call EXCEPT !.todo = @ \ {s}]
      /\ open' = open \ {box[s].body}
      /\ UNCHANGED <<now, part, attrs, next, steady, doubled>>
    BY DEF Discard, Reaches
<1>2. call.queue \in Queues
    BY <1>1, IdleType DEF IInv, Selected
<1>3. {s} \in SUBSET Live(box)
    BY <1>t, <1>1, <1>2, QueuesAssumption DEF Live
<1>4. /\ box' \in [Stamps -> Message]
      /\ Pruned(box, box')
      /\ \A t \in Live(box) : t \in {s} <=> t \notin Live(box')
    <2>1. box' = [t \in Stamps |-> IF t \in {s} THEN Empty ELSE box[t]]
        BY <1>t, <1>1, DropOne
    <2> QED
        BY <1>t, <1>3, <2>1, DropPrunes
<1>5. /\ Good(box)' /\ Balance' /\ NotToItself'
      /\ \A t \in Stamps : t >= next => box'[t] = Empty
    <2>1. Bodies(box, {s}) = {box[s].body}
        BY DEF Bodies
    <2> QED
        BY <1>1, <1>3, <1>4, <2>1, DropBase
<1>6. /\ call' \in [queue : Queues \cup {NoQueue}, todo : SUBSET Stamps,
                    out : SUBSET Stamps, wait : Nat]
      /\ \A t \in (call.todo \cup call.out)' : box'[t].queue = call'.queue
      /\ Selected'
    <2>1. \A t \in Stamps : t # s => box'[t] = box[t]
        BY <1>t, <1>1
    <2>2. box'[s].queue # call.queue
        BY <1>t, <1>1, <1>2, QueuesAssumption, EmptyType
    <2> QED
        BY <1>1, <2>1, <2>2, TakenOff
<1>7. TypeOK'
    BY <1>1, <1>4, <1>5, <1>6 DEF IInv, TypeOK
<1> QED
    BY <1>5, <1>6, <1>7 DEF IInv

Taken(s) == [Sweep(box, Target) EXCEPT ![s] = Empty]

\* Sweeping the dead-letter queue and taking s off its own.
LEMMA SweepAndDrop ==
    ASSUME IInv, NEW s \in call.todo, HasTarget
    PROVE  /\ Taken(s) \in [Stamps -> Message]
           /\ Good(Taken(s))
           /\ Stamped(Taken(s), next)
           /\ Bodies(Taken(s), Live(Taken(s))) \ doubled
                  = ((open \ Bodies(box, Expired(box, Target)))
                         \ {box[s].body}) \ doubled
           /\ s \in Live(box) /\ Target \in Queues
           /\ Expired(box, Target) \subseteq Live(box) \ {s}
           /\ Taken(s)[s] = Empty
           /\ \A t \in Stamps \ {s} : Taken(s)[t] = Sweep(box, Target)[t]
           /\ \A t \in Stamps : t # s /\ box[t].queue = call.queue => Taken(s)[t] = box[t]
           /\ \A t \in Stamps : Taken(s)[t].queue = call.queue
                                => t # s /\ box[t].queue = call.queue
<1>t. /\ box \in [Stamps -> Message] /\ s \in Stamps
      /\ box[s].queue = call.queue
    BY TypeParts DEF IInv
<1>1. /\ call.queue \in Queues /\ Target \in Queues /\ Target # call.queue
      /\ s \in Live(box)
    <2>1. call.queue \in Queues
        BY IdleType DEF IInv, Selected
    <2>2. Target # call.queue
        BY <2>1 DEF IInv, NotToItself, Target
    <2> QED
        BY <1>t, <2>1, <2>2, QueuesAssumption DEF HasTarget, Live
<1> DEFINE b == Sweep(box, Target)
           S == Expired(box, Target) \cup {s}
           c == Taken(s)
<1>2. /\ b \in [Stamps -> Message]
      /\ Pruned(box, b)
      /\ Expired(box, Target) \subseteq Live(box)
      /\ \A t \in Live(box) : t \in Expired(box, Target) <=> t \notin Live(b)
      /\ \A t \in Stamps : box[t].queue # Target => b[t] = box[t]
    BY <1>t, <1>1, SweepPrunes
<1>3. s \notin Expired(box, Target)
    BY <1>t, <1>1 DEF Expired, In
<1>4. c = [b EXCEPT ![s] = Empty]
    BY DEF Taken
<1> HIDE DEF b, c
<1>5. /\ c \in [Stamps -> Message]
      /\ c[s] = Empty
      /\ \A t \in Stamps \ {s} : c[t] = b[t]
    BY <1>t, <1>2, <1>4, EmptyType
<1>6. /\ Pruned(box, c)
      /\ S \in SUBSET Live(box)
      /\ \A t \in Live(box) : t \in S <=> t \notin Live(c)
    <2>1. Pruned(box, c)
        BY <1>2, <1>5 DEF Pruned
    <2>2. \A t \in Live(box) : t \in S <=> t \notin Live(c)
        BY <1>1, <1>2, <1>5, EmptyType DEF Live
    <2> QED
        BY <1>1, <1>2, <2>1, <2>2
<1>7. /\ Good(c)
      /\ Stamped(c, next)
      /\ Bodies(c, Live(c)) \ doubled = (open \ Bodies(box, S)) \ doubled
    BY <1>5, <1>6, DropTo
<1>8. Bodies(box, S) = Bodies(box, Expired(box, Target)) \cup {box[s].body}
    BY DEF Bodies
<1>9. \A t \in Stamps : t # s /\ box[t].queue = call.queue => c[t] = box[t]
    BY <1>1, <1>2, <1>5
<1>10. \A t \in Stamps : c[t].queue = call.queue
                         => t # s /\ box[t].queue = call.queue
    <2> SUFFICES ASSUME NEW t \in Stamps, c[t].queue = call.queue
                 PROVE  t # s /\ box[t].queue = call.queue
        OBVIOUS
    <2>1. t # s
        BY <1>1, <1>5, EmptyType, QueuesAssumption
    <2>2. t \in Live(c)
        BY <1>1, QueuesAssumption DEF Live
    <2>3. c[t].queue = box[t].queue
        <3>1. Pruned(box, c)
            BY <1>6
        <3>2. Same(c[t], box[t])
            BY ONLY <2>2, <3>1, PrunedLive
        <3> QED
            BY <3>2 DEF Same
    <2> QED
        BY <2>1, <2>3
<1>11. /\ Bodies(c, Live(c)) \ doubled
              = ((open \ Bodies(box, Expired(box, Target)))
                     \ {box[s].body}) \ doubled
       /\ Expired(box, Target) \subseteq Live(box) \ {s}
    BY <1>2, <1>3, <1>7, <1>8
<1>12. \A t \in Stamps \ {s} : c[t] = Sweep(box, Target)[t]
    BY <1>5 DEF b
<1> QED
    BY <1>1, <1>5, <1>7, <1>9, <1>10, <1>11, <1>12 DEF c

LEMMA RedriveDuplicateKept ==
    ASSUME IInv, NEW s \in Stamps, RedriveDuplicate(s)
    PROVE  IInv'
<1>1. /\ s \in call.todo /\ HasTarget
      /\ box' = [Sweep(box, Target) EXCEPT ![s] = Empty]
      /\ open' = (open \ Bodies(box, Expired(box, Target))) \ {box[s].body}
      /\ call' = [call EXCEPT !.todo = @ \ {s}]
      /\ UNCHANGED <<now, part, attrs, next, steady, doubled>>
    BY DEF RedriveDuplicate, Reaches
<1>2. /\ box' \in [Stamps -> Message]
      /\ Good(box')
      /\ Stamped(box', next)
      /\ Bodies(box', Live(box')) \ doubled = open' \ doubled
      /\ \A t \in Stamps : t # s /\ box[t].queue = call.queue
                           => box'[t] = box[t]
      /\ \A t \in Stamps : box'[t].queue = call.queue
                           => t # s /\ box[t].queue = call.queue
    <2>1. box' = Taken(s)
        BY <1>1 DEF Taken
    <2>2. s \in call.todo /\ HasTarget
        BY <1>1
    <2>3. open' = (open \ Bodies(box, Expired(box, Target))) \ {box[s].body}
        BY <1>1
    <2>4. /\ Taken(s) \in [Stamps -> Message]
          /\ Good(Taken(s))
          /\ Stamped(Taken(s), next)
          /\ Bodies(Taken(s), Live(Taken(s))) \ doubled
                 = ((open \ Bodies(box, Expired(box, Target)))
                        \ {box[s].body}) \ doubled
          /\ \A t \in Stamps : t # s /\ box[t].queue = call.queue
                               => Taken(s)[t] = box[t]
          /\ \A t \in Stamps : Taken(s)[t].queue = call.queue
                               => t # s /\ box[t].queue = call.queue
        BY ONLY IInv, <2>2, SweepAndDrop
    <2> QED
        BY ONLY <2>1, <2>3, <2>4
<1>3. /\ call' \in [queue : Queues \cup {NoQueue}, todo : SUBSET Stamps,
                    out : SUBSET Stamps, wait : Nat]
      /\ \A t \in (call.todo \cup call.out)' : box'[t].queue = call'.queue
      /\ Selected' /\ NotToItself'
    BY <1>1, <1>2, TakenOff
<1>4. Good(box)' /\ Balance'
    BY <1>1, <1>2, GoodLater DEF Balance, Bodies, Live
<1>5. TypeOK'
    BY <1>1, <1>2, <1>3 DEF IInv, TypeOK, Stamped
<1> QED
    BY <1>3, <1>4, <1>5 DEF IInv

LEMMA RedriveKept ==
    ASSUME IInv, NEW s \in Stamps, Redrive(s)
    PROVE  IInv'
<1>t. /\ attrs \in [Queues -> Config] /\ box \in [Stamps -> Message]
      /\ now \in Nat /\ next \in 1 .. MaxStamps + 1
      /\ \A r \in call.todo \cup call.out : box[r].queue = call.queue
    BY TypeParts DEF IInv
<1> DEFINE body == box[s].body
           g == box[s].group
           k == box[s].dedup
           X == Expired(box, Target)
<1>1. /\ s \in call.todo /\ HasTarget
      /\ ~Refused(Target, g) /\ Twins(Sweep(box, Target), Target, k) = {}
      /\ next \in Stamps /\ next' = next + 1
      /\ box' = [Sweep(box, Target) EXCEPT ![s] = Empty,
                                           ![next] = Fresh(Target, body, g, k)]
      /\ open' = open \ Bodies(box, X)
      /\ call' = [call EXCEPT !.todo = @ \ {s}]
      /\ UNCHANGED <<now, part, attrs, steady, doubled>>
    BY DEF Redrive, Reaches
<1>2. /\ Taken(s) \in [Stamps -> Message]
      /\ Good(Taken(s))
      /\ Stamped(Taken(s), next)
      /\ Bodies(Taken(s), Live(Taken(s))) \ doubled
             = ((open \ Bodies(box, X)) \ {body}) \ doubled
      /\ s \in Live(box) /\ Target \in Queues
      /\ X \subseteq Live(box) \ {s}
      /\ Taken(s)[s] = Empty
      /\ \A t \in Stamps \ {s} : Taken(s)[t] = Sweep(box, Target)[t]
      /\ \A t \in Stamps : t # s /\ box[t].queue = call.queue
                           => Taken(s)[t] = box[t]
      /\ \A t \in Stamps : Taken(s)[t].queue = call.queue
                           => t # s /\ box[t].queue = call.queue
    <2>1. s \in call.todo /\ HasTarget
        BY <1>1
    <2> QED
        BY ONLY IInv, <2>1, SweepAndDrop
<1>3. box' = Added(Taken(s), Target, body, g, k)
    BY <1>1 DEF Added, Taken
<1>4. /\ body \in 1 .. next
      /\ g \in Groups \cup {NoGroup}
      /\ k \in Dedups \cup {NoDedup}
      /\ s < next
    <2>1. s < next
        BY <1>t, <1>2, EmptyType DEF IInv, TypeOK, Live, Stamps
    <2>2. body \in 1 .. s
        BY <1>2 DEF IInv, Good, Sound
    <2>3. box[s] \in Message
        BY <1>t
    <2> QED
        BY <1>t, <2>1, <2>2, <2>3 DEF Message, Stamps
<1>5. body \notin Bodies(Taken(s), Live(Taken(s))) \/ body \in doubled
    BY <1>2
<1>6. Twins(Taken(s), Target, k) = {}
    <2>1. \A t \in Twins(Taken(s), Target, k) :
              t \in Twins(Sweep(box, Target), Target, k)
        BY <1>2, EmptyType, QueuesAssumption DEF Twins, In
    <2> QED
        BY <1>1, <2>1
<1>7. /\ attrs[Target].exists
      /\ ~Refused(Target, g)
      /\ next \in Stamps
    BY <1>1 DEF HasTarget
<1> HIDE DEF body, g, k, X
<1>8. /\ Good(Added(Taken(s), Target, body, g, k))
      /\ Bodies(Added(Taken(s), Target, body, g, k),
                Live(Added(Taken(s), Target, body, g, k)))
             = Bodies(Taken(s), Live(Taken(s))) \cup {body}
      /\ Stamped(Added(Taken(s), Target, body, g, k), next + 1)
      /\ \A t \in Stamps : t # next
             => Added(Taken(s), Target, body, g, k)[t] = Taken(s)[t]
    BY ONLY <1>t, <1>2, <1>4, <1>5, <1>6, <1>7, AddGood
<1>9. /\ Good(box')
      /\ Bodies(box', Live(box')) = Bodies(Taken(s), Live(Taken(s))) \cup {body}
      /\ Stamped(box', next + 1)
      /\ \A t \in Stamps : t # next => box'[t] = Taken(s)[t]
    BY ONLY <1>3, <1>8
<1>10. Good(box)'
    BY <1>1, <1>9, GoodLater
<1>11. Balance'
    <2>1. body \in open \cup doubled
        BY <1>2 DEF IInv, Balance, Bodies, body
    <2>2. body \notin Bodies(box, X) \/ body \in doubled
        BY <1>2 DEF IInv, Good, Unique, Bodies, body
    <2>3. Bodies(box', Live(box')) \ doubled = open' \ doubled
        <3>1. /\ Bodies(Taken(s), Live(Taken(s))) \ doubled
                     = ((open \ Bodies(box, X)) \ {body}) \ doubled
              /\ Bodies(box', Live(box')) = Bodies(Taken(s), Live(Taken(s))) \cup {body}
            BY <1>2, <1>9
        <3>2. open' = open \ Bodies(box, X)
            BY <1>1
        <3> QED
            BY ONLY <2>1, <2>2, <3>1, <3>2
    <2>4. doubled' = doubled
        BY <1>1
    <2> QED
        BY <2>3, <2>4 DEF Balance, Bodies, Live
<1>12. box'[next].queue = Target /\ box[next] = Empty
    <2>1. Taken(s) \in [Stamps -> Message]
        BY <1>2
    <2>2. box'[next] = Fresh(Target, body, g, k)
        BY <1>3, <1>7, <2>1 DEF Added
    <2> QED
        BY <1>1, <2>2 DEF Fresh, IInv, TypeOK
<1>13. /\ call' \in [queue : Queues \cup {NoQueue}, todo : SUBSET Stamps,
                     out : SUBSET Stamps, wait : Nat]
       /\ \A t \in (call.todo \cup call.out)' : box'[t].queue = call'.queue
       /\ Selected' /\ NotToItself'
    <2>1. call.queue \in Queues /\ Target # call.queue
        <3>1. call.queue \in Queues
            BY <1>1, IdleType DEF IInv, Selected
        <3> QED
            BY <3>1 DEF IInv, NotToItself, Target
    <2>2. box[next].queue # call.queue
        BY <1>12, <2>1, EmptyType, QueuesAssumption
    <2>3. \A t \in Stamps : t # s /\ box[t].queue = call.queue
                            => box'[t] = box[t]
        BY <1>2, <1>9, <2>2
    <2>4. \A t \in Stamps : box'[t].queue = call.queue
                            => t # s /\ box[t].queue = call.queue
        BY <1>2, <1>9, <1>12, <2>1
    <2>5. /\ s \in call.todo
          /\ call' = [call EXCEPT !.todo = @ \ {s}]
          /\ UNCHANGED <<now, attrs, doubled>>
        BY <1>1
    <2> QED
        BY ONLY IInv, <2>3, <2>4, <2>5, TakenOff
<1>14. TypeOK'
    <2>1. box' \in [Stamps -> Message]
        BY <1>9 DEF Good
    <2>2. next' \in 1 .. MaxStamps + 1
        BY <1>1, NumbersAssumption DEF Stamps
    <2>3. doubled' \subseteq {n \in Stamps : n < next'}
        BY <1>t, <1>1 DEF IInv, TypeOK, Stamps
    <2> QED
        BY <1>1, <1>9, <1>13, <2>1, <2>2, <2>3 DEF IInv, TypeOK, Stamped
<1> QED
    BY <1>10, <1>11, <1>13, <1>14 DEF IInv

Counted(s) == [Sweep(box, Target) EXCEPT ![s].count = @ + 1]

\* Sweeping the dead-letter queue and counting s, which stays where it is.
LEMMA SweepAndCount ==
    ASSUME IInv, NEW s \in call.todo, HasTarget
    PROVE  /\ Counted(s) \in [Stamps -> Message]
           /\ Good(Counted(s))
           /\ Stamped(Counted(s), next)
           /\ Bodies(Counted(s), Live(Counted(s))) \ doubled
                  = (open \ Bodies(box, Expired(box, Target))) \ doubled
           /\ s \in Stamps /\ s \in Live(box) /\ Target \in Queues
           /\ Counted(s)[s].queue # Target
           /\ \A t \in Stamps \ {s} : Counted(s)[t] = Sweep(box, Target)[t]
<1>t. /\ box \in [Stamps -> Message] /\ now \in Nat /\ s \in Stamps
      /\ box[s].queue = call.queue
    BY TypeParts DEF IInv
<1> DEFINE b == Sweep(box, Target)
           c == Counted(s)
<1>2. /\ call.queue \in Queues /\ Target \in Queues /\ Target # call.queue
      /\ s \in Live(box)
    <2>1. call.queue \in Queues
        BY IdleType DEF IInv, Selected
    <2>2. Target # call.queue
        BY <2>1 DEF IInv, NotToItself, Target
    <2> QED
        BY <1>t, <2>1, <2>2, QueuesAssumption DEF HasTarget, Live
<1>3. /\ b \in [Stamps -> Message]
      /\ Pruned(box, b)
      /\ Expired(box, Target) \in SUBSET Live(box)
      /\ \A t \in Live(box) : t \in Expired(box, Target) <=> t \notin Live(b)
      /\ b[s] = box[s]
    BY <1>t, <1>2, SweepPrunes
<1>c. c = [b EXCEPT ![s].count = @ + 1]
    BY DEF Counted
<1>e. \A t \in Stamps \ {s} : c[t] = Sweep(box, Target)[t]
    BY <1>3, <1>c
<1> HIDE DEF b, c
<1>4. /\ Good(b)
      /\ Stamped(b, next)
      /\ Bodies(b, Live(b)) \ doubled
             = (open \ Bodies(box, Expired(box, Target))) \ doubled
    BY <1>3, DropTo
<1>5. /\ c \in [Stamps -> Message]
      /\ \A t \in Stamps \ {s} : c[t] = b[t]
      /\ c[s].queue = b[s].queue
      /\ c[s].body = b[s].body
      /\ c[s].group = b[s].group
      /\ c[s].dedup = b[s].dedup
      /\ c[s].sent = b[s].sent
      /\ c[s].visible = b[s].visible
      /\ c[s].count = b[s].count + 1
      /\ c[s].flight = b[s].flight
    <2> DEFINE m == [b[s] EXCEPT !.count = @ + 1]
    <2>1. b[s] \in Message
        BY <1>t, <1>3
    <2>2. b[s].count + 1 \in Nat
        BY <2>1 DEF Message
    <2>3. /\ m \in Message
          /\ m.queue = b[s].queue /\ m.body = b[s].body
          /\ m.group = b[s].group /\ m.dedup = b[s].dedup
          /\ m.sent = b[s].sent /\ m.visible = b[s].visible
          /\ m.count = b[s].count + 1 /\ m.flight = b[s].flight
        BY <2>1, <2>2 DEF Message
    <2>4. c = [b EXCEPT ![s] = m]
        BY <1>c
    <2> HIDE DEF m
    <2> QED
        BY <1>t, <1>3, <2>3, <2>4
<1>6. /\ ~c[s].flight /\ c[s].visible <= now /\ c[s].count > 0
      /\ s \in Live(b)
    <2>1. ~box[s].flight /\ box[s].visible <= now
        BY DEF IInv, Selected
    <2>2. b[s].count \in Nat
        BY <1>t, <1>3 DEF Message
    <2> QED
        BY <1>2, <1>3, <1>5, <2>1, <2>2 DEF Live
<1>7. \A t \in Live(b) : ~ /\ b[t].queue = b[s].queue
                           /\ b[t].queue \in Fifo
                           /\ b[t].queue \in steady
                           /\ b[t].group = b[s].group
                           /\ t < s
    <2> SUFFICES ASSUME NEW t \in Live(b), b[t].queue = b[s].queue,
                        b[t].queue \in Fifo, b[t].queue \in steady,
                        b[t].group = b[s].group, t < s
                 PROVE  FALSE
        OBVIOUS
    <2>1. t \in Live(box) /\ Same(b[t], box[t])
        BY <1>3, PrunedLive
    <2> QED
        BY <1>3, <2>1, Oldest DEF Same
<1>8. Good(c) /\ Live(c) = Live(b) /\ Bodies(c, Live(c)) = Bodies(b, Live(b))
    BY ONLY <1>3, <1>4, <1>5, <1>6, <1>7, TouchOne
<1>9. Stamped(c, next)
    BY <1>4, <1>5, <1>6, EmptyType DEF Stamped, Live
<1>10. c[s].queue # Target
    BY <1>t, <1>2, <1>3, <1>5
<1> QED
    BY <1>t, <1>2, <1>4, <1>5, <1>8, <1>9, <1>10, <1>e DEF c

LEMMA RedriveRaisesKept ==
    ASSUME IInv, NEW s \in Stamps, RedriveRaises(s)
    PROVE  IInv'
<1>1. /\ s \in call.todo /\ HasTarget
      /\ box' = Counted(s)
      /\ open' = open \ Bodies(box, Expired(box, Target))
      /\ call' = Idle
      /\ UNCHANGED <<now, part, attrs, next, steady, doubled>>
    BY DEF RedriveRaises, Reaches, Counted
<1>2. /\ box' \in [Stamps -> Message]
      /\ Good(box')
      /\ Stamped(box', next)
      /\ Bodies(box', Live(box')) \ doubled = open' \ doubled
    <2>1. s \in call.todo /\ HasTarget
        BY <1>1
    <2>2. /\ Counted(s) \in [Stamps -> Message]
          /\ Good(Counted(s))
          /\ Stamped(Counted(s), next)
          /\ Bodies(Counted(s), Live(Counted(s))) \ doubled
                 = (open \ Bodies(box, Expired(box, Target))) \ doubled
        BY ONLY IInv, <2>1, SweepAndCount
    <2> QED
        BY ONLY <1>1, <2>2
<1>3. Good(box)' /\ Balance' /\ NotToItself'
    BY <1>1, <1>2, GoodLater DEF IInv, Balance, Bodies, Live, NotToItself
<1>4. TypeOK'
    BY <1>1, <1>2, IdleType DEF IInv, TypeOK, Stamped
<1>5. Selected'
    BY <1>1, IdleType DEF Selected
<1> QED
    BY <1>3, <1>4, <1>5 DEF IInv

LEMMA RedriveUnsavedKept ==
    ASSUME IInv, NEW s \in Stamps, RedriveUnsaved(s)
    PROVE  IInv'
<1>t. /\ attrs \in [Queues -> Config] /\ box \in [Stamps -> Message]
      /\ now \in Nat /\ next \in 1 .. MaxStamps + 1
    BY TypeParts DEF IInv
<1> DEFINE body == box[s].body
           g == box[s].group
           k == box[s].dedup
           X == Expired(box, Target)
           c == Counted(s)
           D == doubled \cup {body}
<1>1. /\ s \in call.todo /\ HasTarget
      /\ ~Refused(Target, g) /\ Twins(Sweep(box, Target), Target, k) = {}
      /\ next \in Stamps /\ next' = next + 1
      /\ box' = [Sweep(box, Target) EXCEPT ![s].count = @ + 1,
                                           ![next] = Fresh(Target, body, g, k)]
      /\ open' = open \ Bodies(box, X)
      /\ call' = Idle
      /\ doubled' = D
      /\ UNCHANGED <<now, part, attrs, steady>>
    BY DEF RedriveUnsaved, Reaches
<1>2. /\ c \in [Stamps -> Message]
      /\ Good(c)
      /\ Stamped(c, next)
      /\ Bodies(c, Live(c)) \ doubled = (open \ Bodies(box, X)) \ doubled
      /\ s \in Live(box) /\ Target \in Queues
      /\ c[s].queue # Target
      /\ \A t \in Stamps \ {s} : c[t] = Sweep(box, Target)[t]
    <2>1. s \in call.todo /\ HasTarget
        BY <1>1
    <2> QED
        BY ONLY IInv, <2>1, SweepAndCount
<1>3. box' = Added(c, Target, body, g, k)
    BY <1>1 DEF Added, Counted
<1>4. /\ body \in 1 .. next
      /\ body \in Stamps /\ body < next
      /\ g \in Groups \cup {NoGroup}
      /\ k \in Dedups \cup {NoDedup}
    <2>1. s < next
        BY <1>t, <1>2, EmptyType DEF IInv, TypeOK, Live, Stamps
    <2>2. body \in 1 .. s
        BY <1>2 DEF IInv, Good, Sound
    <2>3. box[s] \in Message
        BY <1>t
    <2> QED
        BY <1>t, <2>1, <2>2, <2>3, NumbersAssumption DEF Message, Stamps
<1>5. doubled \subseteq D /\ body \in D
    OBVIOUS
<1>6. Twins(c, Target, k) = {}
    <2>1. \A t \in Twins(c, Target, k) :
              t \in Twins(Sweep(box, Target), Target, k)
        BY <1>2 DEF Twins, In
    <2> QED
        BY <1>1, <2>1
<1>7. attrs[Target].exists /\ ~Refused(Target, g) /\ next \in Stamps
    BY <1>1 DEF HasTarget
<1> HIDE DEF body, g, k, X, c, D
<1>8. /\ box' \in [Stamps -> Message]
      /\ Sound(box') /\ Unique(box', D) /\ Ordered(box') /\ Distinct(box')
      /\ Capped(box')
      /\ Bodies(box', Live(box')) = Bodies(c, Live(c)) \cup {body}
      /\ Stamped(box', next + 1)
    <2>1. body \notin Bodies(c, Live(c)) \/ body \in D
        BY <1>5
    <2>2. /\ Added(c, Target, body, g, k) \in [Stamps -> Message]
          /\ Sound(Added(c, Target, body, g, k))
          /\ Unique(Added(c, Target, body, g, k), D)
          /\ Ordered(Added(c, Target, body, g, k))
          /\ Distinct(Added(c, Target, body, g, k))
          /\ Capped(Added(c, Target, body, g, k))
          /\ Bodies(Added(c, Target, body, g, k),
                    Live(Added(c, Target, body, g, k)))
                 = Bodies(c, Live(c)) \cup {body}
          /\ Stamped(Added(c, Target, body, g, k), next + 1)
        BY ONLY <1>t, <1>2, <1>4, <1>5, <1>6, <1>7, <2>1, AddAny
    <2> QED
        BY ONLY <1>3, <2>2
<1>9. Good(box)'
    <2>1. doubled' = D /\ UNCHANGED <<now, attrs, steady>>
        BY <1>1
    <2>2. Unique(box, doubled)'
        BY <1>8, <2>1 DEF Unique, Live
    <2>3. Sound(box)'
        BY <1>8, <2>1 DEF Sound, Live
    <2>4. Ordered(box)' /\ Distinct(box)' /\ Capped(box)'
        BY <1>8, <2>1 DEF Ordered, Distinct, Capped, Live
    <2> QED
        BY <1>8, <2>2, <2>3, <2>4 DEF Good
<1>10. Balance'
    <2>1. Bodies(box', Live(box')) \ D = open' \ D
        BY <1>1, <1>2, <1>8 DEF D
    <2> QED
        BY <1>1, <2>1 DEF Balance, Bodies, Live
<1>11. TypeOK'
    <2>1. next' \in 1 .. MaxStamps + 1
        BY <1>1, NumbersAssumption DEF Stamps
    <2>2. doubled' \subseteq {n \in Stamps : n < next'}
        BY <1>t, <1>1, <1>4 DEF IInv, TypeOK, D, Stamps
    <2>3. open' \subseteq Stamps
        BY <1>1 DEF IInv, TypeOK
    <2> QED
        BY <1>1, <1>8, <2>1, <2>2, <2>3, IdleType DEF IInv, TypeOK, Stamped
<1>12. Selected' /\ NotToItself'
    BY <1>1, IdleType DEF IInv, Selected, NotToItself
<1> QED
    BY <1>9, <1>10, <1>11, <1>12 DEF IInv

LEMMA EndRaisesKept ==
    ASSUME IInv, ReceiveRaises
    PROVE  IInv'
<1>1. call' = Idle /\ UNCHANGED <<now, part, attrs, box, next, open, steady, doubled>>
    BY DEF ReceiveRaises
<1>2. Good(box)' /\ Balance' /\ NotToItself'
    BY <1>1, GoodLater DEF IInv, Balance, Bodies, Live, NotToItself
<1>3. TypeOK'
    BY <1>1, IdleType DEF IInv, TypeOK
<1>4. Selected'
    BY <1>1, IdleType DEF Selected
<1> QED
    BY <1>2, <1>3, <1>4 DEF IInv

LEMMA EndKept ==
    ASSUME IInv, EndReceive
    PROVE  IInv'
<1>t. /\ box \in [Stamps -> Message] /\ now \in Nat
      /\ call.out \subseteq Stamps /\ call.wait \in Nat
      /\ \A r \in call.todo \cup call.out : box[r].queue = call.queue
    BY TypeParts DEF IInv
<1>1. /\ call # Idle /\ call' = Idle
      /\ UNCHANGED <<now, part, attrs, next, open, steady, doubled>>
      /\ box' = [t \in Stamps |->
                    IF t \in call.out
                    THEN [box[t] EXCEPT !.visible = now + call.wait]
                    ELSE box[t]]
    BY DEF EndReceive
<1>2. \A t \in Stamps \ call.out : box'[t] = box[t]
    BY <1>1
<1>3. ASSUME NEW t \in call.out
      PROVE  /\ box'[t] \in Message
             /\ box'[t].queue = box[t].queue
             /\ box'[t].body = box[t].body
             /\ box'[t].group = box[t].group
             /\ box'[t].dedup = box[t].dedup
             /\ box'[t].sent = box[t].sent
             /\ box'[t].count = box[t].count
             /\ box'[t].flight = box[t].flight
    <2>1. box'[t] = [box[t] EXCEPT !.visible = now + call.wait]
        BY <1>t, <1>1
    <2>2. box[t] \in Message /\ now + call.wait \in Nat
        BY <1>t
    <2> QED
        BY <2>1, <2>2 DEF Message
<1>4. box' \in [Stamps -> Message]
    <2>1. \A t \in Stamps : box'[t] \in Message
        BY <1>t, <1>2, <1>3
    <2>2. box' = [t \in Stamps |-> box'[t]]
        BY <1>1
    <2> QED
        BY <2>1, <2>2
<1>5. call.out \in SUBSET Live(box)
    <2>1. call.queue \in Queues
        BY <1>1 DEF IInv, Selected
    <2> QED
        BY <1>t, <2>1, QueuesAssumption DEF Live
<1>6. \A t \in call.out : box[t].flight /\ box[t].count > 0
    BY <1>5 DEF IInv, Selected, Good, Sound
<1>7. \A t \in call.out :
          /\ box[t].queue \in steady
          /\ attrs[box[t].queue].policy.max > 0
          => box'[t].count <= attrs[box[t].queue].policy.max
    BY <1>3, <1>5, <1>6 DEF IInv, Good, Capped
<1>8. /\ Good(box')
      /\ Bodies(box', Live(box')) = Bodies(box, Live(box))
    <2>1. \A t \in call.out :
              /\ box'[t].queue = box[t].queue
              /\ box'[t].body = box[t].body
              /\ box'[t].group = box[t].group
              /\ box'[t].dedup = box[t].dedup
              /\ box'[t].sent = box[t].sent
              /\ box'[t].count > 0
              /\ box'[t].flight \/ box'[t].visible <= now
              /\ box[t].queue \in steady
                 /\ attrs[box[t].queue].policy.max > 0
                 /\ box'[t].flight
                 => box'[t].count <= attrs[box[t].queue].policy.max
              /\ box[t].count > 0
                 \/ \A r \in Live(box) :
                        ~ /\ box[r].queue = box[t].queue
                          /\ box[r].queue \in Fifo
                          /\ box[r].queue \in steady
                          /\ box[r].group = box[t].group
                          /\ r < t
        BY <1>3, <1>6, <1>7
    <2>2. Good(box)
        BY DEF IInv
    <2> QED
        BY ONLY <1>t, <1>2, <1>4, <1>5, <2>1, <2>2, TouchGood
<1>9. Good(box)' /\ Balance' /\ NotToItself'
    BY <1>1, <1>8, GoodLater DEF IInv, Balance, Bodies, Live, NotToItself
<1>10. \A t \in Stamps : t >= next => box'[t] = Empty
    BY <1>2, <1>5, EmptyType DEF IInv, TypeOK, Live
<1>11. TypeOK'
    BY <1>1, <1>4, <1>10, IdleType DEF IInv, TypeOK
<1>12. Selected'
    BY <1>1, IdleType DEF Selected
<1> QED
    BY <1>9, <1>11, <1>12 DEF IInv

-----------------------------------------------------------------------------
(* The theorems.                                                           *)

LEMMA IInvInvariant == Spec => []IInv
<1>1. IInv /\ [Next]_vars => IInv'
    <2> SUFFICES ASSUME IInv, [Next]_vars PROVE IInv'
        OBVIOUS
    <2>1. CASE QueueStep
        BY <2>1, QueueKept
    <2>2. CASE SendStep
        BY <2>2, SendKept
    <2>3. CASE ReceiveStep
        BY <2>3, BeginKept, DeliverKept, DiscardKept, RedriveKept,
           RedriveUnsavedKept, RedriveDuplicateKept, RedriveRaisesKept, EndKept,
           EndRaisesKept DEF ReceiveStep
    <2>4. CASE HandleStep
        BY <2>4, HandleKept
    <2>5. CASE Tick
        BY <2>5, TickKept
    <2>6. CASE UNCHANGED vars
        BY <2>6, StutterKept
    <2> QED
        BY <2>1, <2>2, <2>3, <2>4, <2>5, <2>6 DEF Next
<1> QED
    BY InitIInv, <1>1, PTL DEF Spec

\* The type invariant of the broker.
THEOREM TypeCorrect == Spec => []TypeOK
<1>1. IInv => TypeOK
    BY DEF IInv
<1> QED
    BY IInvInvariant, <1>1, PTL

\* No accepted message is lost or doubled and none comes back: a live message
\* is one that was accepted and not disposed of, and there is one of each, but
\* for the messages a redrive left twice because saving the copy raised.
THEOREM NothingLost == Spec => []Accounted
<1>1. IInv => Accounted
    BY DEF IInv, Good, Unique, Balance, Accounted
<1> QED
    BY IInvInvariant, <1>1, PTL

\* A FIFO queue hands out a group one message at a time, the oldest first.
THEOREM FifoOrder == Spec => []OneAtATime
<1>1. IInv => OneAtATime
    <2> SUFFICES ASSUME IInv PROVE OneAtATime
        OBVIOUS
    <2>1. \A t \in Live(box) : box[t].count = 0 => ~box[t].flight
        BY DEF IInv, Good, Sound
    <2> QED
        BY <2>1 DEF IInv, Good, Ordered, OneAtATime
<1> QED
    BY IInvInvariant, <1>1, PTL

\* Deduplication holds within the window, sent or redriven.
THEOREM Deduplicated == Spec => []NoDuplicate
<1>1. IInv => NoDuplicate
    BY DEF IInv, Good, Distinct, NoDuplicate
<1> QED
    BY IInvInvariant, <1>1, PTL

\* maxReceiveCount bounds the deliveries of a message.
THEOREM DeliveriesBounded == Spec => []NotOverDelivered
<1>1. IInv => NotOverDelivered
    BY DEF IInv, Good, Capped, NotOverDelivered
<1> QED
    BY IInvInvariant, <1>1, PTL
-----------------------------------------------------------------------------
(***************************************************************************)
(* SQS implements Broker: every step of the queues is, for the messages,   *)
(* an end of some leases and lives, one acceptance, or one lease.          *)
(***************************************************************************)

Held == Bodies(box, Live(box)) \ doubled

\* Every lease there is after the step was there before it.
OldLeases ==
    /\ doubled \subseteq doubled'
    /\ \A s \in Live(box') :
           box'[s].flight => /\ s \in Live(box)
                             /\ box[s].flight
                             /\ box[s].body = box'[s].body
                             /\ box[s].count = box'[s].count

LEMMA LeasesEnd ==
    ASSUME OldLeases
    PROVE  Contract!Ending
<1>1. \A n \in Stamps : Leases(n)' \subseteq Leases(n)
    BY DEF Leases, OldLeases
<1>2. \A n \in Stamps : n \notin Held' => Leases(n)' = {}
    BY DEF Leases, Held, Bodies
<1> QED
    BY <1>1, <1>2 DEF Contract!Ending, Held

\* A step that gives no lease and whose messages were there before.
LEMMA MovesEnd ==
    ASSUME OldLeases,
           \A s \in Live(box') :
               \E t \in Live(box) : box[t].body = box'[s].body,
           next' \in {next, next + 1}
    PROVE  Contract!Next
<1>1. Held' \subseteq Held
    BY DEF Held, Bodies, OldLeases
<1> QED
    BY <1>1, LeasesEnd DEF Contract!Next, Contract!End, Held

\* What is in box' at s is what was in box, but for the end of a lease.
Kept(s) ==
    /\ s \in Live(box)
    /\ box'[s].body = box[s].body
    /\ box'[s].flight => box[s].flight /\ box'[s].count = box[s].count

LEMMA EndStep ==
    ASSUME \A s \in Live(box') : Kept(s), UNCHANGED <<next, doubled>>
    PROVE  Contract!Next
BY MovesEnd DEF OldLeases, Kept

LEMMA SweepEnds ==
    ASSUME NEW b \in [Stamps -> Message], NEW q, NEW s \in Live(Sweep(b, q))
    PROVE  /\ s \in Live(b)
           /\ Sweep(b, q)[s].body = b[s].body
           /\ Sweep(b, q)[s].flight => b[s].flight
           /\ Sweep(b, q)[s].count = b[s].count
<1>1. Sweep(b, q)[s] = [b[s] EXCEPT !.flight = @ /\ s \notin Lapsed(b, q)]
    BY EmptyType DEF Sweep, Live
<1>2. b[s] \in Message
    BY DEF Live
<1> QED
    BY <1>1, <1>2 DEF Live, Message

-----------------------------------------------------------------------------

LEMMA SendAccepts ==
    ASSUME IInv, NEW q \in Queues, NEW g \in Groups \cup {NoGroup},
           NEW k \in Dedups \cup {NoDedup}, Send(q, g, k)
    PROVE  Contract!Next
<1>t. box \in [Stamps -> Message] /\ MaxStamps \in Nat
    BY TypeParts, NumbersAssumption DEF IInv
<1>1. /\ next \in Stamps /\ next' = next + 1 /\ doubled' = doubled
      /\ box' = [Sweep(box, q) EXCEPT ![next] = Fresh(q, next, g, k)]
    BY DEF Send
<1>2. Sweep(box, q) \in [Stamps -> Message] /\ DOMAIN Sweep(box, q) = Stamps
    BY <1>t, SweepPrunes DEF Sweep
<1>3. /\ box'[next] = Fresh(q, next, g, k)
      /\ \A s \in Stamps \ {next} : box'[s] = Sweep(box, q)[s]
    BY <1>1, <1>2
<1>4. \A s \in Live(box') \ {next} : Kept(s)
    BY <1>t, <1>3, SweepEnds DEF Live, Kept
<1>5. next \notin Held
    <2>1. \A s \in Stamps : s >= next => box[s] = Empty
        BY DEF IInv, TypeOK
    <2>2. \A s \in Live(box) : s \in Stamps /\ ~(s >= next)
        BY <2>1, EmptyType DEF Live
    <2>3. \A s \in Live(box) : box[s].body \in 1 .. s
        BY DEF IInv, Good, Sound
    <2>4. \A s \in Live(box) : box[s].body # next
        BY <1>1, <1>t, <2>2, <2>3 DEF Stamps
    <2>5. QED
        BY <2>4 DEF Held, Bodies
<1>6. /\ next \in Live(box') /\ box'[next].body = next /\ ~box'[next].flight
      /\ next \notin doubled
    BY <1>1, <1>3, QueuesAssumption, NumbersAssumption
       DEF Live, Fresh, IInv, TypeOK, Stamps
<1>u. doubled' = doubled
    BY <1>1
<1>7. OldLeases
    BY <1>u, <1>4, <1>6 DEF OldLeases, Kept, Live
<1>8. next \in Held' /\ Held' \ {next} \subseteq Held
    BY <1>u, <1>4, <1>6 DEF Held, Bodies, Kept
<1> QED
    BY <1>1, <1>5, <1>7, <1>8, LeasesEnd DEF Contract!Next, Contract!Accept, Held

LEMMA RedriveMoves ==
    ASSUME IInv, NEW s \in Stamps, Redrive(s)
    PROVE  Contract!Next
<1>t. box \in [Stamps -> Message]
    BY TypeParts DEF IInv
<1>1. /\ next \in Stamps /\ next' = next + 1 /\ doubled' = doubled
      /\ s \in call.todo
      /\ box' = [Sweep(box, Target) EXCEPT
                    ![s] = Empty,
                    ![next] = Fresh(Target, box[s].body, box[s].group,
                                    box[s].dedup)]
    BY DEF Redrive, Reaches
<1>2. DOMAIN Sweep(box, Target) = Stamps
    BY DEF Sweep
<1>3. /\ box'[next] = Fresh(Target, box[s].body, box[s].group, box[s].dedup)
      /\ s # next => box'[s] = Empty
      /\ \A r \in Stamps \ {s, next} : box'[r] = Sweep(box, Target)[r]
    BY <1>1, <1>2
<1>4. s \in Live(box)
    BY <1>1, <1>t, QueuesAssumption, IdleType
       DEF IInv, TypeOK, Selected, Live
<1>5. box'[next].body = box[s].body /\ ~box'[next].flight
    BY <1>3 DEF Fresh
<1>6. \A r \in Live(box') \ {next} : Kept(r)
    BY <1>t, <1>3, SweepEnds, EmptyType DEF Live, Kept
<1> QED
    BY <1>1, <1>4, <1>5, <1>6, MovesEnd DEF OldLeases, Kept

\* What is doubled leaves the contract.
LEMMA DoublingEnds ==
    ASSUME IInv, NEW s \in Stamps, RedriveUnsaved(s)
    PROVE  Contract!Next
<1>t. box \in [Stamps -> Message]
    BY TypeParts DEF IInv
<1>1. /\ next \in Stamps /\ next' = next + 1
      /\ doubled' = doubled \cup {box[s].body}
      /\ s \in call.todo
      /\ box' = [Sweep(box, Target) EXCEPT
                    ![s].count = @ + 1,
                    ![next] = Fresh(Target, box[s].body, box[s].group,
                                    box[s].dedup)]
    BY DEF RedriveUnsaved, Reaches
<1>2. /\ DOMAIN Sweep(box, Target) = Stamps
      /\ s \in Live(box) /\ ~box[s].flight /\ s # next
    BY <1>1, <1>t, QueuesAssumption, IdleType, EmptyType, NumbersAssumption
       DEF Sweep, IInv, TypeOK, Selected, Live, Stamps
<1>3. /\ box'[next] = Fresh(Target, box[s].body, box[s].group, box[s].dedup)
      /\ box'[s] = [Sweep(box, Target)[s] EXCEPT !.count = @ + 1]
      /\ \A r \in Stamps \ {s, next} : box'[r] = Sweep(box, Target)[r]
    BY <1>1, <1>2
<1>4. \A r \in Live(box') \ {s, next} : Kept(r)
    BY <1>t, <1>3, SweepEnds, EmptyType DEF Live, Kept
<1>5. box'[next].body = box[s].body /\ ~box'[next].flight
    BY <1>3 DEF Fresh
<1>6. box'[s].body = box[s].body /\ ~box'[s].flight
    <2>1. call.queue \in Queues /\ Target # call.queue /\ Target \in Queues
        BY <1>1, IdleType
           DEF IInv, Selected, NotToItself, Target, RedriveUnsaved, HasTarget
    <2>2. box[s].queue = call.queue
        BY <1>1, TypeParts DEF IInv
    <2>3. Sweep(box, Target)[s] = box[s]
        BY <1>t, <2>1, <2>2, SweepPrunes
    <2> QED
        BY <1>t, <1>2, <1>3, <2>3 DEF Message
<1>7. OldLeases
    BY <1>1, <1>4, <1>5, <1>6 DEF OldLeases, Kept
<1> QED
    BY <1>1, <1>2, <1>4, <1>5, <1>6, <1>7, MovesEnd DEF Kept

\* A message is handed out only while nobody holds it.
LEMMA DeliverLeases ==
    ASSUME IInv, NEW s \in Stamps, Deliver(s)
    PROVE  Contract!Next
<1>t. box \in [Stamps -> Message] /\ box[s] \in Message
    BY TypeParts DEF IInv
<1>1. /\ s \in call.todo /\ UNCHANGED <<next, doubled>>
      /\ box' = [box EXCEPT ![s].count = @ + 1,
                            ![s].flight = TRUE,
                            ![s].visible = now + Visibility]
    BY DEF Deliver, Reaches
<1>2. s \in Live(box) /\ ~box[s].flight
    BY <1>1, QueuesAssumption, IdleType DEF IInv, TypeOK, Selected, Live
<1>3. /\ \A r \in Stamps \ {s} : box'[r] = box[r]
      /\ box'[s].queue = box[s].queue /\ box'[s].body = box[s].body
      /\ box'[s].flight
    BY <1>t, <1>1 DEF Message
<1>4. Live(box') = Live(box)
    BY <1>3 DEF Live
<1>u. doubled' = doubled /\ next' = next
    BY <1>1
<1>b. \A r \in Live(box) : box'[r].body = box[r].body
    BY <1>3 DEF Live
<1>h. Held' = Held
    <2>1. Bodies(box', Live(box')) = Bodies(box, Live(box))
        BY <1>4, <1>b DEF Bodies
    <2> QED
        BY <1>u, <2>1 DEF Held, Bodies, Live
<1>d. CASE box[s].body \in doubled
    <2>1. Held' = Held
        BY <1>h
    <2>2. ASSUME NEW n \in Stamps
          PROVE  Leases(n)' = Leases(n)
        <3>1. CASE n \in doubled
            BY <1>u, <3>1 DEF Leases
        <3>2. CASE n \notin doubled
            <4>1. \A r \in Live(box) :
                      /\ box'[r].body = box[r].body
                      /\ box[r].body = n => box'[r] = box[r]
                BY <1>3, <1>d, <3>2 DEF Live
            <4> QED
                BY <1>u, <1>4, <4>1 DEF Leases
        <3> QED
            BY <3>1, <3>2
    <2>3. \A n \in Stamps : n \notin Held => Leases(n) = {}
        BY DEF Leases, Held, Bodies
    <2> QED
        BY <1>u, <2>1, <2>2, <2>3
           DEF Contract!Next, Contract!End, Contract!Ending, Held
<1> SUFFICES ASSUME box[s].body \notin doubled
             PROVE  Contract!Next
    BY <1>d
<1>5. \A r \in Live(box) : box[r].body = box[s].body => r = s
    BY <1>2 DEF IInv, Good, Unique
<1>6. box[s].body \in Stamps /\ box[s].body \in Held
    BY <1>2, NumbersAssumption DEF IInv, Good, Sound, Stamps, Held, Bodies
<1>7. Leases(box[s].body) = {}
    BY <1>2, <1>5 DEF Leases
<1>8. Leases(box[s].body)' = {<<s, box'[s].count>>}
    BY <1>u, <1>2, <1>3, <1>4, <1>5 DEF Leases, Live
<1>9. ASSUME NEW n \in Stamps \ {box[s].body}
      PROVE  Leases(n)' = Leases(n)
    <2>1. \A r \in Live(box) : /\ box'[r].body = box[r].body
                               /\ box[r].body = n => box'[r] = box[r]
        BY <1>3 DEF Live
    <2> QED
        BY <1>u, <1>4, <2>1 DEF Leases
<1>10. Held' = Held
    BY <1>h
<1>11. Contract!Lease({box[s].body})
    <2> DEFINE leases == [n \in Stamps |-> Leases(n)]
               h == <<s, box'[s].count>>
    <2>1. leases[box[s].body] = {}
        BY <1>6, <1>7
    <2>2. leases'[box[s].body] = {h}
        BY <1>3, <1>6, <1>8
    <2>3. \A n \in Stamps \ {box[s].body} : leases'[n] = leases[n]
        BY <1>9
    <2>4. \A n \in Stamps \ (Bodies(box, Live(box)) \ doubled)' : leases'[n] = {}
        BY DEF Leases, Bodies
    <2>5. DOMAIN leases' = Stamps
        OBVIOUS
    <2>6. /\ box[s].body \in Bodies(box, Live(box)) \ doubled
          /\ UNCHANGED <<Bodies(box, Live(box)) \ doubled, next>>
        BY <1>1, <1>6, <1>10 DEF Held
    <2> HIDE DEF h
    <2> QED
        BY <2>1, <2>2, <2>3, <2>4, <2>5, <2>6 DEF Contract!Lease, leases
<1> QED
    BY <1>6, <1>11 DEF Contract!Next

\* The steps that only end leases and lives.
LEMMA QueueEnds ==
    ASSUME IInv, QueueStep
    PROVE  Contract!Next
<1>t. box \in [Stamps -> Message]
    BY TypeParts DEF IInv
<1>1. ASSUME NEW q \in Queues, NEW c \in Configs[q],
             CreateQueue(q, c) \/ UpdateQueue(q, c)
      PROVE  Contract!Next
    BY <1>1, EndStep DEF Kept, CreateQueue, UpdateQueue, Live
<1>2. ASSUME NEW q \in Queues, PurgeQueue(q) \/ DeleteQueue(q)
      PROVE  Contract!Next
    <2>1. /\ box' = [s \in Stamps |-> IF s \in In(box, q) THEN Empty ELSE box[s]]
          /\ UNCHANGED <<next, doubled>>
        BY <1>2 DEF PurgeQueue, DeleteQueue
    <2>2. \A s \in Live(box') : s \in Live(box) /\ box'[s] = box[s]
        BY <2>1, EmptyType DEF Live
    <2> QED
        BY <2>1, <2>2, EndStep DEF Kept
<1>3. ASSUME NEW q \in Queues, ViewQueue(q)
      PROVE  Contract!Next
    <2>1. box' = Sweep(box, q) /\ UNCHANGED <<next, doubled>>
        BY <1>3 DEF ViewQueue
    <2> QED
        BY <1>t, <2>1, SweepEnds, EndStep DEF Kept
<1> QED
    BY <1>1, <1>2, <1>3 DEF QueueStep

LEMMA SendRefines ==
    ASSUME IInv, SendStep
    PROVE  Contract!Next
<1>1. ASSUME NEW q \in Queues, ViewQueue(q)
      PROVE  Contract!Next
    BY <1>1, QueueEnds DEF QueueStep
<1> QED
    BY <1>1, SendAccepts DEF SendStep, SendDuplicate

LEMMA ReceiveRefines ==
    ASSUME IInv, ReceiveStep
    PROVE  Contract!Next
<1>t. box \in [Stamps -> Message]
    BY TypeParts DEF IInv
<1>1. ASSUME NEW q \in Queues, NEW n, NEW w, BeginReceive(q, n, w)
      PROVE  Contract!Next
    <2>1. box' = Sweep(box, q) /\ UNCHANGED <<next, doubled>>
        BY <1>1 DEF BeginReceive
    <2> QED
        BY <1>t, <2>1, SweepEnds, EndStep DEF Kept
<1>2. ASSUME NEW s \in Stamps, Discard(s)
      PROVE  Contract!Next
    <2>1. box' = [box EXCEPT ![s] = Empty] /\ UNCHANGED <<next, doubled>>
        BY <1>2 DEF Discard
    <2>2. \A r \in Live(box') : r \in Live(box) /\ box'[r] = box[r]
        BY <1>t, <2>1, EmptyType DEF Live
    <2> QED
        BY <2>1, <2>2, EndStep DEF Kept
<1>3. ASSUME NEW s \in Stamps, RedriveDuplicate(s) \/ RedriveRaises(s)
      PROVE  Contract!Next
    <2>1. /\ UNCHANGED <<next, doubled>> /\ Target \in Queues
          /\ \/ box' = [Sweep(box, Target) EXCEPT ![s] = Empty]
             \/ box' = [Sweep(box, Target) EXCEPT ![s].count = @ + 1]
        BY <1>3 DEF RedriveDuplicate, RedriveRaises, HasTarget
    <2>2. Sweep(box, Target) \in [Stamps -> Message]
        BY <1>t, <2>1, SweepPrunes
    <2>3. ~box[s].flight
        BY <1>3 DEF IInv, Selected, RedriveDuplicate, RedriveRaises, Reaches
    <2>4. \A r \in Live(box') :
              /\ r \in Live(Sweep(box, Target))
              /\ box'[r].body = Sweep(box, Target)[r].body
              /\ box'[r].flight =>
                     /\ Sweep(box, Target)[r].flight
                     /\ box'[r].count = Sweep(box, Target)[r].count
        <3>1. CASE box' = [Sweep(box, Target) EXCEPT ![s] = Empty]
            BY <2>2, <3>1, EmptyType DEF Live
        <3>2. CASE box' = [Sweep(box, Target) EXCEPT ![s].count = @ + 1]
            <4>1. s \in Live(Sweep(box, Target)) => ~Sweep(box, Target)[s].flight
                BY <2>3, <1>t, SweepEnds
            <4> QED
                BY <2>2, <3>2, <4>1 DEF Live, Message
        <3> QED
            BY <2>1, <3>1, <3>2
    <2> QED
        BY <1>t, <2>1, <2>4, SweepEnds, EndStep DEF Kept
<1>4. ASSUME EndReceive
      PROVE  Contract!Next
    <2>1. /\ UNCHANGED <<next, doubled>>
          /\ box' = [s \in Stamps |->
                        IF s \in call.out
                        THEN [box[s] EXCEPT !.visible = now + call.wait]
                        ELSE box[s]]
        BY <1>4 DEF EndReceive
    <2>2. \A r \in Live(box') : /\ r \in Live(box)
                                /\ box'[r].body = box[r].body
                                /\ box'[r].flight = box[r].flight
                                /\ box'[r].count = box[r].count
        BY <1>t, <2>1 DEF Live, Message
    <2> QED
        BY <2>1, <2>2, EndStep DEF Kept
<1>5. ASSUME ReceiveRaises
      PROVE  Contract!Next
    BY <1>5, EndStep DEF Kept, ReceiveRaises, Live
<1> QED
    BY <1>1, <1>2, <1>3, <1>4, <1>5, DeliverLeases, RedriveMoves, DoublingEnds
       DEF ReceiveStep

LEMMA HandleEnds ==
    ASSUME IInv, HandleStep
    PROVE  Contract!Next
<1>t. box \in [Stamps -> Message]
    BY TypeParts DEF IInv
<1>1. ASSUME NEW s \in Stamps, DeleteMessage(s)
      PROVE  Contract!Next
    <2>1. box' = [box EXCEPT ![s] = Empty] /\ UNCHANGED <<next, doubled>>
        BY <1>1 DEF DeleteMessage
    <2>2. \A r \in Live(box') : r \in Live(box) /\ box'[r] = box[r]
        BY <1>t, <2>1, EmptyType DEF Live
    <2> QED
        BY <2>1, <2>2, EndStep DEF Kept
<1>2. ASSUME NEW s \in Stamps, NEW w \in Waits, ChangeVisibility(s, w)
      PROVE  Contract!Next
    <2>1. box' = [box EXCEPT ![s].visible = now + w] /\ UNCHANGED <<next, doubled>>
        BY <1>2 DEF ChangeVisibility
    <2>2. \A r \in Live(box') : /\ r \in Live(box)
                                /\ box'[r].body = box[r].body
                                /\ box'[r].flight = box[r].flight
                                /\ box'[r].count = box[r].count
        BY <1>t, <2>1 DEF Live, Message
    <2> QED
        BY <2>1, <2>2, EndStep DEF Kept
<1> QED
    BY <1>1, <1>2 DEF HandleStep

-----------------------------------------------------------------------------

\* The queues keep the broker's contract for every message that no failed save
\* doubled: it is leased to one consumer at a time wherever it is, and one that
\* is gone is never offered again.
THEOREM Implementation == Spec => KeepsContract
<1>1. Init => Contract!Init
    BY EmptyType DEF Init, Contract!Init, Held, Bodies, Leases, Live
<1>2. IInv /\ [Next]_vars => [Contract!Next]_(Contract!vars)
    <2> SUFFICES ASSUME IInv, [Next]_vars
                 PROVE  Contract!Next \/ UNCHANGED Contract!vars
        OBVIOUS
    <2>1. CASE Tick
        BY <2>1, EndStep DEF Kept, Tick, Live
    <2>2. CASE UNCHANGED vars
        BY <2>2 DEF vars, Contract!vars, Held, Bodies, Leases, Live
    <2> QED
        BY <2>1, <2>2, QueueEnds, SendRefines, ReceiveRefines, HandleEnds
           DEF Next
<1> QED
    BY <1>1, <1>2, IInvInvariant, PTL DEF Spec, KeepsContract, Contract!Spec
=============================================================================
