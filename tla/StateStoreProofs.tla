-------------------------- MODULE StateStoreProofs --------------------------
(***************************************************************************)
(* Proofs about StateStore for any number of request threads, items and    *)
(* keys, with crashes at every point, saves that fail and a file damaged   *)
(* between two runs, as long as the files of the installation can be read  *)
(* and written (ReadableFiles).                                            *)
(*                                                                         *)
(* TypeOK is inductive.  The rest is one inductive invariant in layers:    *)
(* who holds the lock and who is under way (Shape), what memory, file and  *)
(* a walk in progress owe to the acknowledged requests (Owed), and what    *)
(* they may differ in (Apart).                                             *)
(***************************************************************************)
EXTENDS StateStore, TLAPS

\* The row and the install key can be read, and the key can be stored.
ReadableFiles == {"read", "key"} \cap Faults = {}

USE DEF All, Saving, Jobs

----------------------------------------------------------------------------

\* An answered request leaves its thread typed and idle.
LEMMA AnsweredTyped ==
    ASSUME TypeOK, NEW t \in Threads, Answered(t)
    PROVE  /\ pc' \in [All -> {"load", "up", "idle", "wait"} \cup Saving]
           /\ job' \in [All -> Jobs]
           /\ item' \in [All -> Items \cup {NoItem}]
BY DEF TypeOK, Answered

\* So does a thread that goes on to persist.
LEMMA PersistsTyped ==
    ASSUME TypeOK, NEW t \in All, NEW j \in Jobs, Persists(t, j)
    PROVE  /\ pc' \in [All -> {"load", "up", "idle", "wait"} \cup Saving]
           /\ job' \in [All -> Jobs]
BY DEF TypeOK, Persists

\* The end of a save stores a typed row.
LEMMA SaveTyped ==
    ASSUME TypeOK, NEW t \in All,
           pc[t] = "commit" => cached \in Keys,
           Commit(t) \/ Raises(t)
    PROVE  /\ mem' \subseteq Items
           /\ row' \in [items : SUBSET Items,
                        by : Keys \cup {Unsigned, Broken, Absent}]
           /\ pickle' = pickle
           /\ keyfile' = keyfile
           /\ cached' = cached
           /\ lock' \in All \cup {NoOne}
           /\ scan' \in [All -> SUBSET Items]
           /\ todo' \in [All -> SUBSET Items]
           /\ missed' \subseteq Items
           /\ Commit(t) => unsaved' \subseteq Items
<1>1. CASE Commit(t)
    BY <1>1 DEF TypeOK, Commit
<1>2. CASE Raises(t)
    BY <1>2 DEF TypeOK, Raises, Commit
<1>3. QED
    BY <1>1, <1>2

\* What a removal skips are listed items the walk had still to come to.
LEMMA SkipTyped ==
    ASSUME TypeOK, NEW x \in Items, Skips(x) \/ UNCHANGED <<todo, missed>>
    PROVE  /\ todo' \in [All -> SUBSET Items]
           /\ \A u \in All : todo'[u] \subseteq todo[u]
           /\ missed \subseteq missed'
           /\ missed' \subseteq Items
           /\ \A u \in All : todo[u] \ missed' \subseteq todo'[u]
<1>1. CASE UNCHANGED <<todo, missed>>
    BY <1>1 DEF TypeOK
<1>2. CASE Skips(x)
    <2>1. PICK u \in All, y \in Listed :
             /\ y \in (todo[u] \cap mem) \ {x}
             /\ todo' = [todo EXCEPT ![u] = @ \ {y}]
             /\ missed' = missed \cup {y}
        BY <1>2 DEF Skips
    <2>2. QED
        BY <2>1, ItemsAssumption DEF TypeOK
<1>3. QED
    BY <1>1, <1>2

\* A key that was obtained is cached.
LEMMA KeyTyped ==
    ASSUME TypeOK, NEW k \in Keys, GetKey(k)
    PROVE  cached' = k /\ keyfile' \in Keys \cup {NoKey}
BY DEF TypeOK, GetKey

\* Types, that a commit has a key to sign with, and a request its item.
Owns == \A t \in Threads : job[t] \in {"create", "remove"} => item[t] \in Items

Typed ==
    /\ TypeOK
    /\ \A t \in All : pc[t] = "commit" => cached \in Keys
    /\ Owns

LEMMA TypedInvariant == Spec => []Typed
<1>1. Init => Typed
    <2> SUFFICES ASSUME Init PROVE Typed
        OBVIOUS
    <2>1. row \in [items : SUBSET Items, by : Keys \cup {Unsigned, Broken, Absent}]
        BY DEF Init
    <2>2. keyfile \in Keys \cup {NoKey}
        BY DEF Init
    <2>3. row.items \subseteq Items
        BY <2>1
    <2>4. QED
        BY <2>1, <2>2, <2>3 DEF Init, Typed, TypeOK, Owns
<1>2. Typed /\ [Next]_vars => Typed'
    <2> SUFFICES ASSUME Typed, [Next]_vars PROVE Typed'
        OBVIOUS
    <2> USE DEF Typed
    <2> USE ThreadsAssumption
    <2>0. row.items \subseteq Items
        BY DEF TypeOK
    <2>1. CASE LoadAccepts
        <3>1. cached' \in Keys \cup {NoKey} /\ keyfile' \in Keys \cup {NoKey}
            BY <2>1, KeyTyped DEF LoadAccepts, TypeOK
        <3>2. \A t \in All : pc'[t] = "commit" => pc[t] = "commit"
            BY <2>1 DEF LoadAccepts, Persists, TypeOK
        <3>3. cached \in Keys => cached' \in Keys
            BY <2>1, KeyTyped DEF LoadAccepts, TypeOK
        <3>4. Owns'
            BY <2>1 DEF LoadAccepts, Persists, Owns, TypeOK
        <3>5. QED
            BY <2>0, <2>1, <3>1, <3>2, <3>3, <3>4, PersistsTyped
               DEF LoadAccepts, TypeOK, walk, history
    <2>2. CASE LoadFallsBack
        <3>1. \/ UNCHANGED <<cached, keyfile>>
              \/ \E k \in Keys : GetKey(k)
            BY <2>2 DEF LoadFallsBack
        <3>2. cached' \in Keys \cup {NoKey} /\ keyfile' \in Keys \cup {NoKey}
            BY <3>1, KeyTyped DEF TypeOK
        <3>3. \A t \in All : pc'[t] = "commit" => pc[t] = "commit"
            BY <2>2 DEF LoadFallsBack, Persists, TypeOK
        <3>4. cached \in Keys => cached' \in Keys
            BY <3>1, KeyTyped DEF TypeOK
        <3>5. Owns'
            BY <2>2 DEF LoadFallsBack, Persists, Owns, TypeOK
        <3>6. QED
            BY <2>2, <3>2, <3>3, <3>4, <3>5, PersistsTyped
               DEF LoadFallsBack, TypeOK, walk, history
    <2>3. ASSUME NEW t \in Threads, CreateItem(t)
          PROVE Typed'
        <3>1. PICK x \in Items \ used : /\ mem' = mem \cup {x}
                                        /\ used' = used \cup {x}
                                        /\ item' = [item EXCEPT ![t] = x]
            BY <2>3 DEF CreateItem
        <3>2. item' \in [All -> Items \cup {NoItem}]
            BY <3>1 DEF TypeOK
        <3>3. \A u \in All : pc'[u] = "commit" => pc[u] = "commit"
            BY <2>3 DEF CreateItem, Persists, TypeOK
        <3>4. Owns'
            BY <2>3, <3>1 DEF CreateItem, Persists, Owns, TypeOK
        <3>5. QED
            BY <2>3, <3>1, <3>2, <3>3, <3>4, PersistsTyped
               DEF CreateItem, TypeOK, walk
    <2>4. ASSUME NEW t \in Threads, RemoveItem(t)
          PROVE Typed'
        <3>1. PICK x \in mem : /\ mem' = mem \ {x}
                               /\ acked' = acked \ {x}
                               /\ item' = [item EXCEPT ![t] = x]
            BY <2>4 DEF RemoveItem
        <3>2. item' \in [All -> Items \cup {NoItem}]
            BY <3>1 DEF TypeOK
        <3>3. \A u \in All : pc'[u] = "commit" => pc[u] = "commit"
            BY <2>4 DEF RemoveItem, Persists, TypeOK
        <3>4. Owns'
            BY <2>4, <3>1 DEF RemoveItem, Persists, Owns, TypeOK
        <3>5. todo' \in [All -> SUBSET Items] /\ missed' \subseteq Items
            BY <2>4, SkipTyped DEF RemoveItem, TypeOK
        <3>6. QED
            BY <2>4, <3>1, <3>2, <3>3, <3>4, <3>5, PersistsTyped
               DEF RemoveItem, TypeOK
    <2>5. ASSUME NEW t \in All, BeginSave(t)
          PROVE Typed'
        BY <2>5 DEF BeginSave, TypeOK, history, Owns
    <2>6. ASSUME NEW t \in All, WalkItem(t)
          PROVE Typed'
        <3>1. PICK x \in todo[t] :
                 /\ todo' = [todo EXCEPT ![t] = @ \ {x}]
                 /\ scan' = [scan EXCEPT ![t] = @ \cup ({x} \cap mem)]
            BY <2>6 DEF WalkItem
        <3>2. scan' \in [All -> SUBSET Items] /\ todo' \in [All -> SUBSET Items]
            BY <3>1 DEF TypeOK
        <3>3. QED
            BY <2>6, <3>2 DEF WalkItem, TypeOK, history, Owns
    <2>7. ASSUME NEW t \in All, Sign(t)
          PROVE Typed'
        <3>1. PICK k \in Keys : GetKey(k)
            BY <2>7 DEF Sign
        <3>2. cached' = k /\ keyfile' \in Keys \cup {NoKey}
            BY <3>1, KeyTyped
        <3>3. QED
            BY <2>7, <3>2 DEF Sign, TypeOK, walk, history, Owns
    <2>8. ASSUME NEW t \in Threads, Ack(t) \/ SaveFails(t) \/ SaveSwallowed(t)
          PROVE Typed'
        <3>1. Answered(t) /\ (Commit(t) \/ Raises(t)) /\ job[t] \in {"create", "remove"}
            BY <2>8 DEF Ack, SaveFails, SaveSwallowed, Acknowledged
        <3>2. \A u \in All : pc'[u] = "commit" => pc[u] = "commit"
            BY <3>1 DEF Answered, TypeOK
        <3>3. /\ item[t] \in Items
              /\ \A u \in Threads : job'[u] \in {"create", "remove"}
                    => job[u] \in {"create", "remove"} /\ item'[u] = item[u]
            BY <2>8, <3>1 DEF Answered, Owns, TypeOK
        <3>4. Owns'
            BY <3>3 DEF Owns
        <3>5. QED
            BY <2>8, <3>1, <3>2, <3>3, <3>4, AnsweredTyped, SaveTyped
               DEF Ack, SaveFails, SaveSwallowed, Acknowledged, TypeOK
    <2>9. CASE Resaved \/ Booted
        <3>1. /\ Commit(Main) \/ (Raises(Main) /\ UNCHANGED unsaved)
              /\ UNCHANGED <<item, used, acked, gone>>
            BY <2>9 DEF Resaved, Booted
        <3>2. /\ pc' \in [All -> {"load", "up", "idle", "wait"} \cup Saving]
              /\ job' \in [All -> Jobs]
              /\ \A u \in All : pc'[u] = "commit" => pc[u] = "commit"
            BY <2>9 DEF Resaved, Booted, Persists, TypeOK
        <3>3. Owns'
            BY <2>9 DEF Resaved, Booted, Persists, Owns, TypeOK
        <3>4. QED
            BY <3>1, <3>2, <3>3, SaveTyped DEF TypeOK
    <2>10. CASE Crash
        BY <2>10 DEF Crash, TypeOK, Owns
    <2>11. CASE Damage
        BY <2>11 DEF Damage, TypeOK, walk, Owns
    <2>12. CASE UNCHANGED vars
        BY <2>12 DEF vars, TypeOK, Owns
    <2>13. QED
        BY <2>1, <2>2, <2>3, <2>4, <2>5, <2>6, <2>7, <2>8, <2>9, <2>10, <2>11,
           <2>12 DEF Next, Save, Request, Boot
<1>3. QED
    BY <1>1, <1>2, PTL DEF Spec

\* Every variable keeps its type.
THEOREM TypeCorrect == Spec => []TypeOK
<1>1. Typed => TypeOK
    BY DEF Typed
<1>2. QED
    BY <1>1, TypedInvariant, PTL

----------------------------------------------------------------------------

\* Who holds the lock, who is under way, and what was ever created.
Shape == Holder /\ Stages /\ Once

\* Only one thread saves at a time, requests run only when the boot is over,
\* and no item is created twice.
LEMMA ShapeInvariant == Spec => []Shape
<1> USE ThreadsAssumption
<1>1. Init => Shape
    <2> SUFFICES ASSUME Init PROVE Shape
        OBVIOUS
    <2>1. Holder
        BY DEF Init, Holder
    <2>2. Stages
        BY DEF Init, Stages
    <2>3. Once
        BY DEF Init, Once
    <2>4. QED
        BY <2>1, <2>2, <2>3 DEF Shape
<1>2. Typed /\ Shape /\ [Next]_vars => Shape'
    <2> SUFFICES ASSUME Typed, Shape, [Next]_vars PROVE Shape'
        OBVIOUS
    <2> USE DEF Typed, TypeOK, Shape
    <2>1. CASE LoadAccepts \/ LoadFallsBack
        <3>1. /\ pc[Main] = "load"
              /\ Persists(Main, "migrate") \/ Persists(Main, "resave")
              /\ mem' \in {row.items, pickle}
              /\ UNCHANGED <<row, pickle, lock, item, scan, todo, used, gone>>
            BY <2>1 DEF LoadAccepts, LoadFallsBack, walk, history
        <3>2. Holder'
            BY <3>1 DEF Holder, Persists
        <3>3. cached \in Keys => cached' \in Keys
            BY <2>1, KeyTyped DEF LoadAccepts, LoadFallsBack
        <3>4. \A t \in Threads : pc'[t] = pc[t] /\ job'[t] = job[t]
            BY <3>1 DEF Persists
        <3>5. pc'[Main] = "wait" /\ job'[Main] \in {"migrate", "resave"}
            BY <3>1 DEF Persists
        <3>6. Stages'
            BY <3>1, <3>3, <3>4, <3>5 DEF Stages
        <3>7. Once'
            BY <3>1 DEF Once
        <3>8. QED
            BY <3>2, <3>6, <3>7
    <2>2. ASSUME NEW t \in Threads, CreateItem(t) \/ RemoveItem(t)
          PROVE Shape'
        <3>1. PICK x \in Items :
                 /\ mem' \in {mem \cup {x}, mem \ {x}}
                 /\ used' = used \cup {x}
                 /\ item' = [item EXCEPT ![t] = x]
                 /\ Persists(t, "create") \/ Persists(t, "remove")
            BY <2>2 DEF CreateItem, RemoveItem, Once
        <3>2. /\ pc[t] = "idle" /\ pc[Main] = "up"
              /\ UNCHANGED <<row, pickle, lock, cached, scan, gone>>
              /\ \A u \in All : todo'[u] \subseteq todo[u]
            BY <2>2, SkipTyped DEF CreateItem, RemoveItem, walk
        <3>3. Holder'
            BY <3>1, <3>2 DEF Holder, Persists
        <3>4. Stages'
            BY <3>1, <3>2 DEF Stages, Persists
        <3>5. Once'
            BY <3>1, <3>2 DEF Once
        <3>6. QED
            BY <3>3, <3>4, <3>5
    <2>3. ASSUME NEW t \in All, BeginSave(t)
          PROVE Shape'
        <3>1. Holder'
            BY <2>3 DEF BeginSave, Holder
        <3>2. Stages'
            BY <2>3 DEF BeginSave, Stages, history
        <3>3. Once'
            BY <2>3 DEF BeginSave, Once, history
        <3>4. QED
            BY <3>1, <3>2, <3>3
    <2>4. ASSUME NEW t \in All, WalkItem(t)
          PROVE Shape'
        <3>1. UNCHANGED <<mem, row, pickle, cached, lock, pc, job, item, used, gone>>
            BY <2>4 DEF WalkItem, history
        <3>2. \A u \in All : todo[u] = {} => todo'[u] = {}
            BY <2>4 DEF WalkItem
        <3>0. PICK x \in todo[t] : scan' = [scan EXCEPT ![t] = @ \cup ({x} \cap mem)]
            BY <2>4 DEF WalkItem
        <3>3. \A u \in All : scan'[u] \subseteq scan[u] \cup mem
            <4>1. scan'[t] = scan[t] \cup ({x} \cap mem)
                BY <3>0
            <4>2. \A u \in All \ {t} : scan'[u] = scan[u]
                BY <3>0
            <4>3. QED
                BY <4>1, <4>2
        <3>4. Once'
            BY <3>1, <3>3 DEF Once
        <3>5. QED
            BY <3>1, <3>2, <3>4 DEF Holder, Stages
    <2>5. ASSUME NEW t \in All, Sign(t)
          PROVE Shape'
        <3>1. PICK k \in Keys : GetKey(k)
            BY <2>5 DEF Sign
        <3>2. cached' \in Keys
            BY <3>1, KeyTyped
        <3>3. Holder'
            BY <2>5 DEF Sign, Holder
        <3>4. Stages'
            BY <2>5, <3>2 DEF Sign, Stages, walk, history
        <3>5. Once'
            BY <2>5 DEF Sign, Once, walk, history
        <3>6. QED
            BY <3>3, <3>4, <3>5
    <2>6. ASSUME NEW t \in Threads, Ack(t) \/ SaveFails(t) \/ SaveSwallowed(t)
          PROVE Shape'
        <3>1. /\ Answered(t)
              /\ pc[t] \in Saving
              /\ lock' = NoOne
              /\ UNCHANGED <<mem, pickle, cached, used>>
              /\ job[t] \in {"create", "remove"}
            BY <2>6 DEF Ack, SaveFails, SaveSwallowed, Acknowledged, Commit, Raises
        <3>2. /\ \A u \in All : todo[u] = {} => todo'[u] = {}
              /\ \A u \in All : scan'[u] \subseteq scan[u]
              /\ row' = row \/ row'.items = scan[t]
              /\ gone' \subseteq gone \cup {item[t]}
            BY <2>6 DEF Ack, SaveFails, SaveSwallowed, Acknowledged, Commit, Raises
        <3>3. Holder'
            BY <3>1 DEF Holder, Answered
        <3>4. Stages'
            BY <3>1, <3>2 DEF Stages, Answered
        <3>5. scan[t] \subseteq used
            BY DEF Once
        <3>6. Once'
            BY <3>1, <3>2, <3>5 DEF Once, Stages
        <3>7. QED
            BY <3>3, <3>4, <3>6
    <2>7. CASE Resaved \/ Booted
        <3>1. /\ pc[Main] \in Saving
              /\ lock' = NoOne
              /\ UNCHANGED <<mem, pickle, cached, item, used, gone>>
              /\ \/ Persists(Main, "migrate")
                 \/ /\ pc' = [pc EXCEPT ![Main] = "up"]
                    /\ job' = [job EXCEPT ![Main] = "none"]
            BY <2>7 DEF Resaved, Booted, Commit, Raises, history
        <3>2. /\ \A u \in All : todo[u] = {} => todo'[u] = {}
              /\ \A u \in All : scan'[u] \subseteq scan[u]
              /\ row' = row \/ row'.items = scan[Main]
            BY <2>7 DEF Resaved, Booted, Commit, Raises
        <3>3. Holder'
            BY <3>1 DEF Holder, Persists
        <3>4. Stages'
            BY <3>1, <3>2 DEF Stages, Persists
        <3>5. Once'
            BY <3>1, <3>2 DEF Once
        <3>6. QED
            BY <3>3, <3>4, <3>5
    <2>8. CASE Crash
        BY <2>8 DEF Crash, Holder, Stages, Once
    <2>9. CASE Damage
        BY <2>9 DEF Damage, Holder, Stages, Once, walk
    <2>10. CASE UNCHANGED vars
        BY <2>10 DEF vars, Holder, Stages, Once
    <2>11. QED
        BY <2>1, <2>2, <2>3, <2>4, <2>5, <2>6, <2>7, <2>8, <2>9, <2>10
           DEF Next, Save, Request, Boot
<1>3. QED
    BY <1>1, <1>2, TypedInvariant, PTL DEF Spec

----------------------------------------------------------------------------

\* What the file, memory and a walk owe to the acknowledged requests.
Owed == KeyKept /\ Durable /\ MemoryOwes /\ WalkOwes /\ RemovedStays

\* With readable files the key that is obtained is the one on disk.
LEMMA KeyOnDisk ==
    ASSUME ReadableFiles, TypeOK, cached \in {NoKey, keyfile},
           NEW k \in Keys, GetKey(k)
    PROVE  cached' = k /\ keyfile' = k /\ (keyfile # NoKey => k = keyfile)
BY KeysAssumption DEF ReadableFiles, TypeOK, GetKey

\* A finished walk stores what is owed, its own request included.
LEMMA CommitOwes ==
    ASSUME ReadableFiles, Typed, Shape, Owed, NEW t \in All, Commit(t)
    PROVE  /\ row' = [items |-> scan[t], by |-> keyfile]
           /\ keyfile \in Keys
           /\ acked \subseteq scan[t] \cup unsaved'
           /\ gone \cap scan[t] = {}
           /\ job[t] = "create" => {item[t]} \cap mem \subseteq scan[t] \cup unsaved'
           /\ job[t] = "remove" => item[t] \notin scan[t]
<1>1. pc[t] = "commit" /\ todo[t] = {} /\ cached \in Keys
    BY DEF Commit, Shape, Stages
<1>2. cached = keyfile
    BY <1>1, KeysAssumption DEF Owed, KeyKept
<1>3. Due(t) = scan[t]
    BY <1>1 DEF Due
<1>4. QED
    BY <1>1, <1>2, <1>3 DEF Commit, Owed, WalkOwes

LEMMA OwedInvariant == ASSUME ReadableFiles PROVE Spec => []Owed
<1> USE ThreadsAssumption, KeysAssumption
<1>1. Init => Owed
    <2> SUFFICES ASSUME Init PROVE Owed
        OBVIOUS
    <2>1. KeyKept
        BY DEF Init, KeyKept, Verifiable
    <2>2. Durable /\ MemoryOwes
        BY DEF Init, Durable, MemoryOwes
    <2>3. WalkOwes /\ RemovedStays
        BY DEF Init, WalkOwes, RemovedStays
    <2>4. QED
        BY <2>1, <2>2, <2>3 DEF Owed
<1>2. Typed /\ Shape /\ Owed /\ [Next]_vars => Owed'
    <2> SUFFICES ASSUME Typed, Shape, Owed, [Next]_vars PROVE Owed'
        OBVIOUS
    <2> USE DEF Typed, TypeOK
    <2>1. CASE LoadAccepts
        <3>1. /\ pc[Main] = "load" /\ mem' = row.items
              /\ UNCHANGED <<row, item, scan, todo, used, acked, gone, unsaved>>
              /\ Persists(Main, "migrate")
            BY <2>1 DEF LoadAccepts, walk, history
        <3>2. KeyKept'
            <4>1. CASE UNCHANGED <<cached, keyfile>>
                BY <3>1, <4>1 DEF Owed, KeyKept, Verifiable, Persists
            <4>2. CASE row.by \in Keys /\ GetKey(row.by)
                BY <3>1, <4>2, KeyOnDisk DEF Owed, KeyKept, Verifiable, Persists
            <4>3. QED
                BY <2>1, <4>1, <4>2 DEF LoadAccepts
        <3>3. Durable' /\ MemoryOwes'
            BY <3>1 DEF Owed, Durable, MemoryOwes, KeyKept
        <3>4. \A t \in All : pc'[t] \notin Saving
            BY <3>1 DEF Persists, Shape, Stages
        <3>5. \A t \in Threads : pc'[t] = "idle"
            BY <3>1 DEF Persists, Shape, Stages
        <3>6. QED
            BY <3>2, <3>3, <3>4, <3>5 DEF Owed, WalkOwes, RemovedStays
    <2>2. CASE LoadFallsBack
        <3>1. /\ pc[Main] = "load"
              /\ UNCHANGED <<row, item, scan, todo, used, acked, gone, unsaved>>
              /\ Persists(Main, "resave")
            BY <2>2 DEF LoadFallsBack, walk, history
        <3>2. KeyKept' /\ row.by \in {Broken, Absent}
            <4>1. CASE row.by = Absent /\ UNCHANGED <<cached, keyfile>>
                BY <3>1, <4>1 DEF Owed, KeyKept, Verifiable, Persists
            <4>2. CASE row.by \in Keys \cup {Broken} /\ \E k \in Keys \ {row.by} : GetKey(k)
                <5>1. PICK k \in Keys \ {row.by} : GetKey(k)
                    BY <4>2
                <5>2. cached' = k /\ keyfile' = k /\ (keyfile # NoKey => k = keyfile)
                    BY <5>1, KeyOnDisk DEF Owed, KeyKept
                <5>3. row.by \notin Keys
                    BY <5>1, <5>2 DEF Owed, KeyKept, Verifiable, Persists
                <5>4. QED
                    BY <3>1, <4>2, <5>2, <5>3 DEF Owed, KeyKept, Verifiable, Persists
            <4>3. QED
                BY <2>2, <4>1, <4>2 DEF LoadFallsBack, ReadableFiles
        <3>3. acked = {} /\ gone = {}
            BY <3>2 DEF Owed, KeyKept
        <3>4. Durable' /\ MemoryOwes'
            BY <3>1, <3>3 DEF Durable, MemoryOwes
        <3>5. \A t \in All : pc'[t] \notin Saving
            BY <3>1 DEF Persists, Shape, Stages
        <3>6. \A t \in Threads : pc'[t] = "idle"
            BY <3>1 DEF Persists, Shape, Stages
        <3>7. QED
            BY <3>2, <3>4, <3>5, <3>6 DEF Owed, WalkOwes, RemovedStays
    <2>3. ASSUME NEW t \in Threads, CreateItem(t)
          PROVE Owed'
        <3>1. PICK x \in Items \ used : /\ mem' = mem \cup {x}
                                        /\ item' = [item EXCEPT ![t] = x]
            BY <2>3 DEF CreateItem
        <3>2. /\ pc[t] = "idle"
              /\ Persists(t, "create")
              /\ UNCHANGED <<row, keyfile, cached, scan, todo, acked, gone,
                             missed, unsaved>>
              /\ pc[Main] = "up" /\ pc'[Main] = "up"
            BY <2>3, ThreadsAssumption DEF CreateItem, walk, Persists
        <3>3. x \notin gone
            BY <3>1 DEF Shape, Once
        <3>4. KeyKept' /\ Durable'
            BY <3>2 DEF Owed, KeyKept, Verifiable, Durable
        <3>5. MemoryOwes'
            BY <2>3, <3>1, <3>2, <3>3 DEF CreateItem, Owed, MemoryOwes
        <3>6. \A u \in Threads \ {t} : /\ pc'[u] = pc[u]
                                       /\ job'[u] = job[u]
                                       /\ item'[u] = item[u]
                                       /\ pc[u] # "idle" => item[u] # x
            BY <3>1, <3>2 DEF Persists, Shape, Stages
        <3>7. job'[t] = "create" /\ pc'[t] = "wait"
            BY <3>2 DEF Persists
        <3>8. RemovedStays'
            <4>1. \A u \in Threads \ {t} : (pc[u] # "idle" /\ job[u] = "remove")
                     => item[u] \notin mem /\ item[u] # x
                BY <3>6 DEF Owed, RemovedStays
            <4>2. QED
                BY <3>1, <3>6, <3>7, <4>1 DEF RemovedStays
        <3>9. pc'[Main] = "up"
            BY <2>3 DEF CreateItem, Persists
        <3>10. WalkOwes'
            <4> SUFFICES ASSUME NEW u \in All, pc'[u] \in Saving
                         PROVE  /\ acked' \subseteq Due(u)' \cup missed'
                                /\ gone' \cap scan'[u] = {}
                                /\ job'[u] = "create" => {item'[u]} \cap mem' \subseteq Due(u)' \cup missed'
                                /\ job'[u] = "remove" => item'[u] \notin scan'[u]
                BY DEF WalkOwes
            <4>1. u \in Threads \ {t}
                BY <3>7, <3>9
            <4>2. Due(u) \subseteq Due(u)'
                BY <3>1, <3>2 DEF Due
            <4>3. item'[u] # x /\ item'[u] = item[u] /\ pc'[u] = pc[u] /\ job'[u] = job[u]
                BY <3>6, <4>1
            <4>4. /\ acked \subseteq Due(u) \cup missed
                  /\ gone \cap scan[u] = {}
                  /\ job[u] = "create" => {item[u]} \cap mem \subseteq Due(u) \cup missed
                  /\ job[u] = "remove" => item[u] \notin scan[u]
                BY <4>3 DEF Owed, WalkOwes
            <4>5. {item'[u]} \cap mem' = {item[u]} \cap mem
                BY <3>1, <4>3
            <4>6. QED
                BY <3>2, <4>2, <4>3, <4>4, <4>5
        <3>11. QED
            BY <3>4, <3>5, <3>8, <3>10 DEF Owed
    <2>4. ASSUME NEW t \in Threads, RemoveItem(t)
          PROVE Owed'
        <3>1. PICK x \in mem : /\ mem' = mem \ {x}
                               /\ acked' = acked \ {x}
                               /\ item' = [item EXCEPT ![t] = x]
            BY <2>4 DEF RemoveItem
        <3>2. /\ pc[t] = "idle"
              /\ Persists(t, "remove")
              /\ UNCHANGED <<row, keyfile, cached, scan, gone, unsaved>>
              /\ pc[Main] = "up" /\ pc'[Main] = "up"
            BY <2>4, ThreadsAssumption DEF RemoveItem, Persists
        <3>3. /\ missed \subseteq missed'
              /\ \A u \in All : todo[u] \ missed' \subseteq todo'[u]
            BY <2>4, SkipTyped DEF RemoveItem
        <3>4. KeyKept' /\ Durable'
            BY <3>1, <3>2 DEF Owed, KeyKept, Verifiable, Durable
        <3>5. MemoryOwes'
            BY <2>4, <3>1, <3>2 DEF RemoveItem, Owed, MemoryOwes
        <3>6. \A u \in Threads \ {t} : /\ pc'[u] = pc[u]
                                       /\ job'[u] = job[u]
                                       /\ item'[u] = item[u]
            BY <3>1, <3>2 DEF Persists
        <3>7. job'[t] = "remove" /\ pc'[t] = "wait" /\ item'[t] = x
            BY <3>1, <3>2 DEF Persists
        <3>8. RemovedStays'
            BY <3>1, <3>6, <3>7 DEF Owed, RemovedStays
        <3>9. pc'[Main] = "up"
            BY <2>4 DEF RemoveItem, Persists
        <3>10. WalkOwes'
            <4> SUFFICES ASSUME NEW u \in All, pc'[u] \in Saving
                         PROVE  /\ acked' \subseteq Due(u)' \cup missed'
                                /\ gone' \cap scan'[u] = {}
                                /\ job'[u] = "create" => {item'[u]} \cap mem' \subseteq Due(u)' \cup missed'
                                /\ job'[u] = "remove" => item'[u] \notin scan'[u]
                BY DEF WalkOwes
            <4>1. u \in Threads \ {t}
                BY <3>7, <3>9
            <4>2. Due(u) \ {x} \subseteq Due(u)' \cup missed'
                BY <3>1, <3>2, <3>3 DEF Due
            <4>3. item'[u] = item[u] /\ pc'[u] = pc[u] /\ job'[u] = job[u]
                BY <3>6, <4>1
            <4>4. /\ acked \subseteq Due(u) \cup missed
                  /\ gone \cap scan[u] = {}
                  /\ job[u] = "create" => {item[u]} \cap mem \subseteq Due(u) \cup missed
                  /\ job[u] = "remove" => item[u] \notin scan[u]
                BY <4>3 DEF Owed, WalkOwes
            <4>5. QED
                BY <3>1, <3>2, <3>3, <4>2, <4>3, <4>4
        <3>11. QED
            BY <3>4, <3>5, <3>8, <3>10 DEF Owed
    <2>5. ASSUME NEW t \in All, BeginSave(t)
          PROVE Owed'
        <3>1. /\ UNCHANGED <<mem, row, keyfile, cached, job, item, acked, gone,
                             unsaved>>
              /\ pc[t] = "wait"
              /\ pc' = [pc EXCEPT ![t] = "walk"]
            BY <2>5 DEF BeginSave, history
        <3>2. KeyKept' /\ Durable' /\ MemoryOwes' /\ RemovedStays'
            BY <3>1 DEF Owed, KeyKept, Verifiable, Durable, MemoryOwes, RemovedStays
        <3>3. scan'[t] = {} /\ todo'[t] = Items
            BY <2>5 DEF BeginSave
        <3>4. \A u \in All \ {t} : pc'[u] \notin Saving
            BY <2>5 DEF BeginSave, Shape, Holder
        <3>5. WalkOwes'
            <4>1. acked \subseteq mem
                BY <3>1 DEF Owed, MemoryOwes, Shape, Stages
            <4>2. Due(t)' = mem
                BY <3>1, <3>3 DEF Due
            <4>3. QED
                BY <3>1, <3>3, <3>4, <4>1, <4>2 DEF WalkOwes
        <3>6. QED
            BY <3>2, <3>5 DEF Owed
    <2>6. ASSUME NEW t \in All, WalkItem(t)
          PROVE Owed'
        <3>1. UNCHANGED <<mem, row, keyfile, cached, pc, job, item, acked, gone,
                          missed, unsaved>>
            BY <2>6 DEF WalkItem, history
        <3>2. KeyKept' /\ Durable' /\ MemoryOwes' /\ RemovedStays'
            BY <3>1 DEF Owed, KeyKept, Verifiable, Durable, MemoryOwes, RemovedStays
        <3>3. PICK x \in todo[t] :
                 /\ todo' = [todo EXCEPT ![t] = @ \ {x}]
                 /\ scan' = [scan EXCEPT ![t] = @ \cup ({x} \cap mem)]
            BY <2>6 DEF WalkItem
        <3>4. \A u \in All \ {t} : scan'[u] = scan[u] /\ todo'[u] = todo[u]
            BY <3>3
        <3>5. scan'[t] = scan[t] \cup ({x} \cap mem) /\ todo'[t] = todo[t] \ {x}
            BY <3>3
        <3>6. pc[t] = "walk" /\ gone \cap mem = {}
            BY <2>6 DEF WalkItem, Owed, MemoryOwes, Shape, Stages
        <3>7. Due(t)' = Due(t) /\ \A u \in All \ {t} : Due(u)' = Due(u)
            BY <3>1, <3>4, <3>5 DEF Due
        <3>8. job[t] = "remove" => item[t] \notin mem
            BY <3>6 DEF Owed, RemovedStays, Shape, Stages
        <3>9. WalkOwes'
            BY <3>1, <3>4, <3>5, <3>6, <3>7, <3>8 DEF Owed, WalkOwes
        <3>10. QED
            BY <3>2, <3>9 DEF Owed
    <2>7. ASSUME NEW t \in All, Sign(t)
          PROVE Owed'
        <3>1. /\ UNCHANGED <<mem, row, job, item, scan, todo, acked, gone,
                             missed, unsaved>>
              /\ pc[t] = "walk"
              /\ pc' = [pc EXCEPT ![t] = "commit"]
            BY <2>7 DEF Sign, walk, history
        <3>2. PICK k \in Keys : GetKey(k)
            BY <2>7 DEF Sign
        <3>3. cached' = k /\ keyfile' = k /\ (keyfile # NoKey => k = keyfile)
            BY <3>2, KeyOnDisk DEF Owed, KeyKept
        <3>4. KeyKept'
            BY <3>1, <3>3 DEF Owed, KeyKept, Verifiable
        <3>5. Durable' /\ MemoryOwes' /\ RemovedStays'
            BY <3>1 DEF Owed, Durable, MemoryOwes, RemovedStays
        <3>6. WalkOwes'
            BY <3>1 DEF Owed, WalkOwes, Due
        <3>7. QED
            BY <3>4, <3>5, <3>6 DEF Owed
    <2>8. ASSUME NEW t \in Threads, Ack(t)
          PROVE Owed'
        <3>1. Commit(t) /\ Answered(t)
            BY <2>8 DEF Ack, Acknowledged
        <3>2. UNCHANGED <<mem, keyfile, cached, todo>>
            BY <3>1 DEF Commit
        <3>3. \/ /\ job[t] = "create" /\ gone' = gone
                 /\ acked' = acked \cup ({item[t]} \cap mem)
              \/ /\ job[t] = "remove" /\ acked' = acked
                 /\ gone' = gone \cup {item[t]}
            BY <2>8 DEF Ack, Acknowledged
        <3>4. row' = [items |-> scan[t], by |-> keyfile] /\ keyfile \in Keys
            BY <3>1, CommitOwes
        <3>5. pc'[Main] = pc[Main] /\ pc[Main] # "load"
            BY <3>1 DEF Answered, Commit, Shape, Stages
        <3>6. KeyKept'
            BY <3>2, <3>4, <3>5 DEF Owed, KeyKept, Verifiable
        <3>7. Durable'
            BY <3>1, <3>3, <3>4, CommitOwes DEF Durable
        <3>8. job[t] = "remove" => item[t] \notin mem
            BY <3>1 DEF Owed, RemovedStays, Commit
        <3>9. MemoryOwes'
            BY <3>2, <3>3, <3>5, <3>8 DEF Owed, MemoryOwes
        <3>10. \A u \in All : pc'[u] \notin Saving
            BY <3>1 DEF Answered, Commit, Shape, Holder
        <3>11. RemovedStays'
            BY <3>1, <3>2 DEF Owed, RemovedStays, Answered
        <3>12. QED
            BY <3>6, <3>7, <3>9, <3>10, <3>11 DEF Owed, WalkOwes
    <2>9. ASSUME NEW t \in Threads, SaveFails(t) \/ SaveSwallowed(t)
          PROVE Owed'
        <3>1. /\ Raises(t) /\ Answered(t)
              /\ unsaved' = unsaved \cup {item[t]}
              /\ UNCHANGED <<mem, row, keyfile, cached>>
            BY <2>9 DEF SaveFails, SaveSwallowed, Acknowledged, Raises
        <3>2. /\ acked' \subseteq acked \cup ({item[t]} \cap mem)
              /\ gone' = gone \/ (job[t] = "remove" /\ gone' = gone \cup {item[t]})
            BY <2>9 DEF SaveFails, SaveSwallowed, Acknowledged
        <3>3. pc'[Main] = pc[Main] /\ pc[Main] = "up"
            BY <3>1 DEF Answered, Raises, Shape, Stages
        <3>4. row.by \in Keys /\ row.by \notin {Broken, Absent}
            BY <3>3, KeysAssumption DEF Owed, KeyKept
        <3>5. KeyKept'
            BY <3>1, <3>3, <3>4 DEF Owed, KeyKept, Verifiable
        <3>6. Durable'
            BY <3>1, <3>2 DEF Owed, Durable
        <3>7. job[t] = "remove" => item[t] \notin mem
            BY <3>1 DEF Owed, RemovedStays, Raises
        <3>8. MemoryOwes'
            BY <3>1, <3>2, <3>3, <3>7 DEF Owed, MemoryOwes
        <3>9. RemovedStays'
            BY <3>1 DEF Owed, RemovedStays, Answered
        <3>10. \A u \in All : pc'[u] \notin Saving
            BY <3>1 DEF Answered, Raises, Shape, Holder
        <3>11. QED
            BY <3>5, <3>6, <3>8, <3>9, <3>10 DEF Owed, WalkOwes
    <2>10. CASE Resaved \/ Booted
        <3>1. /\ \/ Commit(Main)
                 \/ Raises(Main) /\ UNCHANGED unsaved /\ Persists(Main, "migrate")
              /\ UNCHANGED <<mem, keyfile, cached, item, acked, gone>>
              /\ \/ Persists(Main, "migrate")
                 \/ /\ pc' = [pc EXCEPT ![Main] = "up"]
                    /\ job' = [job EXCEPT ![Main] = "none"]
            BY <2>10 DEF Resaved, Booted, Commit, Raises
        <3>0. pc'[Main] # "load"
            BY <3>1 DEF Persists
        <3>2. KeyKept' /\ Durable'
            <4>1. CASE Commit(Main)
                BY <3>0, <3>1, <4>1, CommitOwes DEF Owed, KeyKept, Verifiable, Durable
            <4>2. CASE Raises(Main) /\ UNCHANGED unsaved /\ Persists(Main, "migrate")
                BY <3>0, <3>1, <4>2
                DEF Raises, Persists, Owed, KeyKept, Verifiable, Durable
            <4>3. QED
                BY <3>1, <4>1, <4>2
        <3>3. pc[Main] \in Saving
            BY <3>1 DEF Commit, Raises
        <3>4. MemoryOwes' /\ RemovedStays'
            BY <3>1, <3>3 DEF Owed, MemoryOwes, RemovedStays, Persists
        <3>5. \A u \in All : pc'[u] \notin Saving
            BY <3>1, <3>3 DEF Persists, Shape, Holder
        <3>6. QED
            BY <3>2, <3>4, <3>5 DEF Owed, WalkOwes
    <2>11. CASE Crash
        BY <2>11 DEF Crash, Owed, KeyKept, Verifiable, Durable, MemoryOwes, WalkOwes, RemovedStays
    <2>12. CASE Damage
        <3>1. /\ row' = [row EXCEPT !.by = Broken] /\ acked' = {} /\ gone' = {}
              /\ UNCHANGED <<mem, keyfile, cached, pc, job, item, scan, todo, missed, unsaved>>
              /\ pc[Main] = "load"
            BY <2>12 DEF Damage, walk
        <3>2. row'.by = Broken
            BY <3>1
        <3>3. \A u \in All : pc'[u] \notin Saving
            BY <3>1 DEF Shape, Stages
        <3>4. QED
            BY <3>1, <3>2, <3>3 DEF Owed, KeyKept, Verifiable, Durable, MemoryOwes,
                                    WalkOwes, RemovedStays
    <2>13. CASE UNCHANGED vars
        BY <2>13 DEF vars, Owed, KeyKept, Verifiable, Durable, MemoryOwes, WalkOwes,
                     RemovedStays, Due
    <2>14. QED
        BY <2>1, <2>2, <2>3, <2>4, <2>5, <2>6, <2>7, <2>8, <2>9, <2>10, <2>11,
           <2>12, <2>13 DEF Next, Save, Request, Boot
<1>3. QED
    BY <1>1, <1>2, TypedInvariant, ShapeInvariant, PTL DEF Spec

\* No crash loses an acknowledged creation or undoes an acknowledged removal,
\* but for those whose save failed, or that a walk skipped, and that no save
\* has stored since.
THEOREM AcknowledgedIsDurable == ASSUME ReadableFiles PROVE Spec => []Durable
<1>1. Owed => Durable
    BY DEF Owed
<1>2. QED
    BY <1>1, OwedInvariant, PTL

\* A row is never signed with a key that the disk does not hold.
THEOREM SignatureVerifies == ASSUME ReadableFiles PROVE Spec => []Verifiable
<1>1. Owed => Verifiable
    BY DEF Owed, KeyKept
<1>2. QED
    BY <1>1, OwedInvariant, PTL

\* Requests see every acknowledged change, but for those that were not saved
\* when the process died.
THEOREM AcknowledgedIsServed == ASSUME ReadableFiles PROVE Spec => []Served
<1>1. Owed => Served
    BY DEF Owed, MemoryOwes, Served
<1>2. QED
    BY <1>1, OwedInvariant, PTL

----------------------------------------------------------------------------

\* What file, memory and a walk in progress may differ in.
Apart == FileDiffers /\ WalkDiffers

\* A walk that has ended leaves a file that differs from memory by what
\* it skipped and by the items of the other requests under way.
LEMMA CommitDiffers ==
    ASSUME Typed, Shape, Apart, NEW t \in All, Commit(t)
    PROVE  \A x \in Differ(row'.items, mem') :
              x \in unsaved' \/ InFlight(x, Threads \ {t})
<1>1. pc[t] = "commit" /\ todo[t] = {}
    BY DEF Commit, Shape, Stages
<1>2. row'.items = scan[t] /\ mem' = mem
    BY DEF Commit
<1>3. Due(t) = scan[t]
    BY <1>1 DEF Due
<1>4. QED
    BY <1>1, <1>2, <1>3 DEF Apart, WalkDiffers, Commit

LEMMA ApartInvariant == Spec => []Apart
<1> USE ThreadsAssumption
<1>1. Init => Apart
    <2> SUFFICES ASSUME Init PROVE Apart
        OBVIOUS
    <2>1. pc[Main] # "up" /\ \A t \in All : pc[t] \notin Saving
        BY DEF Init
    <2>2. QED
        BY <2>1 DEF Apart, FileDiffers, WalkDiffers
<1>2. Typed /\ Shape /\ Apart /\ [Next]_vars => Apart'
    <2> SUFFICES ASSUME Typed, Shape, Apart, [Next]_vars PROVE Apart'
        OBVIOUS
    <2> USE DEF Typed, TypeOK
    <2>1. CASE LoadAccepts \/ LoadFallsBack
        <3>1. pc[Main] = "load" /\ (Persists(Main, "migrate") \/ Persists(Main, "resave"))
            BY <2>1 DEF LoadAccepts, LoadFallsBack
        <3>2. pc'[Main] = "wait" /\ \A t \in Threads : pc'[t] = "idle"
            BY <3>1 DEF Persists, Shape, Stages
        <3>3. QED
            BY <3>2 DEF Apart, FileDiffers, WalkDiffers
    <2>2. ASSUME NEW t \in Threads, CreateItem(t) \/ RemoveItem(t)
          PROVE Apart'
        <3>1. PICK x \in Items :
                 /\ mem' \in {mem \cup {x}, mem \ {x}}
                 /\ item' = [item EXCEPT ![t] = x]
            BY <2>2 DEF CreateItem, RemoveItem
        <3>2. /\ pc[t] = "idle" /\ pc[Main] = "up"
              /\ Persists(t, "create") \/ Persists(t, "remove")
              /\ UNCHANGED <<row, scan, unsaved>>
            BY <2>2 DEF CreateItem, RemoveItem, walk
        <3>0. /\ missed \subseteq missed'
              /\ \A u \in All : /\ todo'[u] \subseteq todo[u]
                               /\ todo[u] \ missed' \subseteq todo'[u]
            BY <2>2, SkipTyped DEF CreateItem, RemoveItem, walk
        <3>3. pc' = [pc EXCEPT ![t] = "wait"]
            BY <3>2 DEF Persists
        <3>4. \A y, S : (S \subseteq Threads /\ InFlight(y, S)) => InFlight(y, S)'
            BY <3>1, <3>2, <3>3 DEF InFlight
        <3>5. \A S : t \in S => InFlight(x, S)'
            BY <3>1, <3>3 DEF InFlight
        <3>6. FileDiffers'
            <4>1. \A y : y \in Differ(row'.items, mem') => y = x \/ y \in Differ(row.items, mem)
                BY <3>1, <3>2 DEF Differ
            <4>2. QED
                BY <3>2, <3>4, <3>5, <4>1 DEF Apart, FileDiffers
        <3>7. WalkDiffers'
            <4> SUFFICES ASSUME NEW u \in All, pc'[u] \in Saving,
                                NEW y \in Differ(Due(u)', mem')
                         PROVE  y \in missed' \/ InFlight(y, Threads \ {u})'
                BY DEF WalkDiffers, Due
            <4>1. u # t /\ pc[u] \in Saving
                BY <3>3
            <4>2. y = x \/ y \in missed' \/ y \in Differ(Due(u), mem)
                BY <3>0, <3>1, <3>2 DEF Due, Differ
            <4>3. CASE y = x
                BY <3>5, <4>1, <4>3
            <4>4. CASE y \in Differ(Due(u), mem)
                BY <3>0, <3>2, <3>4, <4>1, <4>4 DEF Apart, WalkDiffers
            <4>5. QED
                BY <4>2, <4>3, <4>4
        <3>8. QED
            BY <3>6, <3>7 DEF Apart
    <2>3. ASSUME NEW t \in All, BeginSave(t)
          PROVE Apart'
        <3>1. /\ UNCHANGED <<mem, row, item, unsaved>>
              /\ pc[t] = "wait" /\ lock = NoOne
              /\ pc' = [pc EXCEPT ![t] = "walk"]
            BY <2>3 DEF BeginSave, history
        <3>2. \A y, S : (S \subseteq Threads /\ InFlight(y, S)) => InFlight(y, S)'
            BY <3>1 DEF InFlight
        <3>3. FileDiffers'
            BY <3>1, <3>2 DEF Apart, FileDiffers
        <3>4. Due(t)' = mem'
            BY <2>3, <3>1 DEF BeginSave, Due
        <3>5. \A u \in All \ {t} : pc'[u] \notin Saving
            BY <3>1 DEF Shape, Holder
        <3>6. WalkDiffers'
            BY <3>4, <3>5 DEF WalkDiffers, Differ
        <3>7. QED
            BY <3>3, <3>6 DEF Apart
    <2>4. ASSUME NEW t \in All, WalkItem(t)
          PROVE Apart'
        <3>1. UNCHANGED <<mem, row, pc, item, missed, unsaved>>
            BY <2>4 DEF WalkItem, history
        <3>2. PICK x \in todo[t] :
                 /\ todo' = [todo EXCEPT ![t] = @ \ {x}]
                 /\ scan' = [scan EXCEPT ![t] = @ \cup ({x} \cap mem)]
            BY <2>4 DEF WalkItem
        <3>3. scan'[t] = scan[t] \cup ({x} \cap mem) /\ todo'[t] = todo[t] \ {x}
            BY <3>2
        <3>4. \A u \in All \ {t} : scan'[u] = scan[u] /\ todo'[u] = todo[u]
            BY <3>2
        <3>5. \A u \in All : Due(u)' = Due(u)
            BY <3>1, <3>2, <3>3, <3>4 DEF Due
        <3>6. \A y, S : InFlight(y, S) => InFlight(y, S)'
            BY <3>1 DEF InFlight
        <3>7. FileDiffers'
            BY <3>1, <3>6 DEF Apart, FileDiffers
        <3>8. WalkDiffers'
            BY <3>1, <3>5, <3>6 DEF Apart, WalkDiffers
        <3>9. QED
            BY <3>7, <3>8 DEF Apart
    <2>5. ASSUME NEW t \in All, Sign(t)
          PROVE Apart'
        <3>1. /\ UNCHANGED <<mem, row, item, missed, unsaved, scan, todo>>
              /\ pc[t] = "walk"
              /\ pc' = [pc EXCEPT ![t] = "commit"]
            BY <2>5 DEF Sign, walk, history
        <3>2. \A y, S : (S \subseteq Threads /\ InFlight(y, S)) => InFlight(y, S)'
            BY <3>1 DEF InFlight
        <3>3. FileDiffers'
            BY <3>1, <3>2 DEF Apart, FileDiffers
        <3>4. \A u \in All : Due(u)' = Due(u) /\ (pc'[u] \in Saving => pc[u] \in Saving)
            BY <3>1 DEF Due
        <3>5. WalkDiffers'
            BY <3>1, <3>2, <3>4 DEF Apart, WalkDiffers
        <3>6. QED
            BY <3>3, <3>5 DEF Apart
    <2>6. ASSUME NEW t \in Threads, Ack(t)
          PROVE Apart'
        <3>1. Commit(t) /\ Answered(t)
            BY <2>6 DEF Ack, Acknowledged
        <3>2. \A y : InFlight(y, Threads \ {t}) => InFlight(y, Threads)'
            BY <3>1 DEF InFlight, Answered
        <3>3. FileDiffers'
            BY <3>1, <3>2, CommitDiffers DEF FileDiffers
        <3>4. \A u \in All : pc'[u] \notin Saving
            BY <3>1 DEF Answered, Commit, Shape, Holder
        <3>5. QED
            BY <3>3, <3>4 DEF Apart, WalkDiffers
    <2>7. ASSUME NEW t \in Threads, SaveFails(t) \/ SaveSwallowed(t)
          PROVE Apart'
        <3>1. /\ Raises(t) /\ Answered(t)
              /\ unsaved' = unsaved \cup {item[t]}
              /\ UNCHANGED <<mem, row>>
            BY <2>7 DEF SaveFails, SaveSwallowed, Acknowledged, Raises
        <3>2. \A y : InFlight(y, Threads) => y = item[t] \/ InFlight(y, Threads)'
            BY <3>1 DEF InFlight, Answered
        <3>3. pc'[Main] = "up" => pc[Main] = "up"
            BY <3>1 DEF Answered
        <3>4. FileDiffers'
            BY <3>1, <3>2, <3>3 DEF Apart, FileDiffers
        <3>5. \A u \in All : pc'[u] \notin Saving
            BY <3>1 DEF Answered, Raises, Shape, Holder
        <3>6. QED
            BY <3>4, <3>5 DEF Apart, WalkDiffers
    <2>8. CASE Resaved \/ Booted
        <3>1. /\ pc[Main] \in Saving
              /\ pc'[Main] # "up" \/ Commit(Main)
              /\ \A u \in Threads : pc'[u] = pc[u]
              /\ pc'[Main] \notin Saving
              /\ UNCHANGED item
            BY <2>8 DEF Resaved, Booted, Commit, Raises, Persists
        <3>2. \A u \in All : pc'[u] \notin Saving
            BY <3>1 DEF Shape, Holder
        <3>3. \A y : InFlight(y, Threads \ {Main}) => InFlight(y, Threads)'
            BY <3>1 DEF InFlight
        <3>4. FileDiffers'
            BY <3>1, <3>3, CommitDiffers DEF FileDiffers
        <3>5. QED
            BY <3>2, <3>4 DEF Apart, WalkDiffers
    <2>9. CASE Crash
        BY <2>9 DEF Crash, Apart, FileDiffers, WalkDiffers
    <2>10. CASE Damage
        <3>1. pc[Main] = "load" /\ pc' = pc
            BY <2>10 DEF Damage
        <3>2. QED
            BY <3>1 DEF Apart, FileDiffers, WalkDiffers, Shape, Stages
    <2>11. CASE UNCHANGED vars
        BY <2>11 DEF vars, Apart, FileDiffers, WalkDiffers, InFlight, Due
    <2>12. QED
        BY <2>1, <2>2, <2>3, <2>4, <2>5, <2>6, <2>7, <2>8, <2>9, <2>10, <2>11
           DEF Next, Save, Request, Boot
<1>3. QED
    BY <1>1, <1>2, TypedInvariant, ShapeInvariant, PTL DEF Spec

\* Between requests memory and file differ only by the items whose save failed
\* since the last one that succeeded and those that one skipped, whatever may
\* go wrong with the files.
THEOREM QuiescentAgreement == Spec => []Settled
<1>1. Apart => Settled
    BY DEF Apart, FileDiffers, InFlight, Differ, Settled
<1>2. QED
    BY <1>1, ApartInvariant, PTL
=============================================================================
