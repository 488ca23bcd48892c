----------------------------- MODULE StateStore -----------------------------
(***************************************************************************)
(* Persistence: the in-memory STATE, the SQLite file every handler saves   *)
(* it to, its signature and the install key it is signed with              *)
(* (core/cloudlearn_platform.py, SQLiteStateStore and SimulationKernel;    *)
(* core/state_integrity.py; the bootstrap of core/app_context.py).         *)
(*                                                                         *)
(* Handlers change STATE without a lock and then persist the whole of it.  *)
(* The store's lock covers one persist: the walk over STATE, the           *)
(* signature, the commit of both rows in one transaction.  The walk reads  *)
(* a dictionary others are changing, one item at a time.  The process      *)
(* boots on a thread of its own, before any request is served.             *)
(*                                                                         *)
(* STATE is a set of items, each created at most once; that a walk may     *)
(* store an item of a list twice is not told apart.  Left out: the         *)
(* events and snapshots tables (append-only; no route restores one), the   *)
(* encoding of bytes, which loses nothing, and a row that is not JSON,     *)
(* which is treated like one whose signature does not match.               *)
(***************************************************************************)
EXTENDS Naturals, FiniteSets

CONSTANTS
    Threads,   \* request threads
    Main,      \* the thread that imports core.app_context
    NoOne,     \* the store's lock is free
    Items,     \* every item a behaviour may create
    Listed,    \* the items that are elements of one list of STATE
    NoItem,
    Keys,      \* install keys a behaviour may generate
    NoKey,     \* no key file, or none read yet
    Unsigned,  \* state_hmac is "", as an older version left it
    Broken,    \* the signature does not match
    Absent,    \* there is no state_json row
    Faults     \* what may go wrong: "persist", "damage", "read", "key"

ASSUME ThreadsAssumption ==
    Main \notin Threads /\ NoOne \notin Threads \cup {Main}
ASSUME ItemsAssumption == NoItem \notin Items /\ Listed \subseteq Items
ASSUME KeysAssumption ==
    /\ NoKey \notin Keys
    /\ {Unsigned, Broken, Absent} \cap (Keys \cup {NoKey}) = {}
    /\ Unsigned # Broken /\ Unsigned # Absent /\ Broken # Absent
ASSUME FaultsAssumption == Faults \subseteq {"persist", "damage", "read", "key"}

VARIABLES
    mem,      \* STATE
    row,      \* the committed rows: the items, and what signed them
    pickle,   \* the items of the legacy pickle, which nothing deletes
    keyfile,  \* the install key on disk
    cached,   \* state_integrity._cached_key
    lock,     \* who holds the store's lock
    pc,       \* pc[t]: where the request of t, or the boot, is
    job,      \* job[t]: what it persists for
    item,     \* item[t]: the item its request creates or removes
    scan,     \* scan[t]: the items the walk has put into the JSON
    todo,     \* todo[t]: the items the walk has still to come to
    used,     \* history: items that were ever created
    acked,    \* history: items whose creation was acknowledged
    gone,     \* history: items whose removal was acknowledged
    missed,   \* history: items the walk under way has skipped
    unsaved   \* history: items whose save failed, or that the last
              \* successful save skipped

walk == <<scan, todo, missed>>
history == <<used, acked, gone, unsaved>>
vars == <<mem, row, pickle, keyfile, cached, lock, pc, job, item, scan, todo,
          used, acked, gone, missed, unsaved>>

All == Threads \cup {Main}
Saving == {"walk", "commit"}
Jobs == {"none", "create", "remove", "resave", "migrate"}

TypeOK ==
    /\ mem \subseteq Items
    /\ row \in [items : SUBSET Items,
                by : Keys \cup {Unsigned, Broken, Absent}]
    /\ pickle \subseteq Items
    /\ keyfile \in Keys \cup {NoKey}
    /\ cached \in Keys \cup {NoKey}
    /\ lock \in All \cup {NoOne}
    /\ pc \in [All -> {"load", "up", "idle", "wait"} \cup Saving]
    /\ job \in [All -> Jobs]
    /\ item \in [All -> Items \cup {NoItem}]
    /\ scan \in [All -> SUBSET Items]
    /\ todo \in [All -> SUBSET Items]
    /\ used \subseteq Items
    /\ acked \subseteq Items
    /\ gone \subseteq Items
    /\ missed \subseteq Items
    /\ unsaved \subseteq Items

(***************************************************************************)
(* A first start, or a start on what an older or the same version left.    *)
(***************************************************************************)
Init ==
    /\ pickle \in SUBSET Items
    /\ \/ row = [items |-> {}, by |-> Absent] /\ keyfile = NoKey
       \/ row \in [items : SUBSET Items, by : {Unsigned}] /\ keyfile = NoKey
       \/ row \in [items : SUBSET Items, by : Keys] /\ keyfile = row.by
    /\ mem = {}
    /\ cached = NoKey
    /\ lock = NoOne
    /\ pc = [t \in All |-> IF t = Main THEN "load" ELSE "idle"]
    /\ job = [t \in All |-> "none"]
    /\ item = [t \in All |-> NoItem]
    /\ scan = [t \in All |-> {}]
    /\ todo = [t \in All |-> {}]
    /\ used = row.items \cup pickle
    /\ acked = row.items
    /\ gone = {}
    /\ missed = {}
    /\ unsaved = {}

(***************************************************************************)
(* get_or_create_install_key: the cached key, the one on disk, or a new    *)
(* one, which a read-only file system keeps in memory only.  k is the key  *)
(* that is returned.                                                       *)
(***************************************************************************)
GetKey(k) ==
    /\ cached' = k
    /\ \/ cached # NoKey /\ k = cached /\ UNCHANGED keyfile
       \/ /\ cached = NoKey
          /\ keyfile # NoKey
          /\ k = keyfile
          /\ UNCHANGED keyfile
       \/ /\ cached = NoKey
          /\ keyfile = NoKey \/ "key" \in Faults
          /\ k \in Keys \ {keyfile, row.by}
          /\ \/ keyfile' = k
             \/ "key" \in Faults /\ UNCHANGED keyfile

\* Thread t goes on to persist STATE for job j.
Persists(t, j) ==
    /\ pc' = [pc EXCEPT ![t] = "wait"]
    /\ job' = [job EXCEPT ![t] = j]

(***************************************************************************)
(* load_state, when the process starts: the row, if its signature is       *)
(* empty or verifies; else the legacy pickle or the default state, which   *)
(* is saved over the row at once.  A failed read counts as no row.         *)
(***************************************************************************)
\* Wrong on purpose: a legacy pickle is preferred to the row.
Wrong_LoadAccepts ==
    /\ pc[Main] = "load"
    /\ \/ row.by = Unsigned /\ UNCHANGED <<cached, keyfile>>
       \/ row.by \in Keys /\ GetKey(row.by)
    /\ mem' = IF pickle = {} THEN row.items ELSE pickle
    /\ Persists(Main, "migrate")
    /\ UNCHANGED <<row, pickle, lock, item, walk, history>>

LoadAccepts ==
    /\ pc[Main] = "load"
    /\ \/ row.by = Unsigned /\ UNCHANGED <<cached, keyfile>>
       \/ row.by \in Keys /\ GetKey(row.by)
    /\ mem' = row.items
    /\ Persists(Main, "migrate")
    /\ UNCHANGED <<row, pickle, lock, item, walk, history>>

LoadFallsBack ==
    /\ pc[Main] = "load"
    /\ \/ /\ row.by = Absent \/ "read" \in Faults
          /\ UNCHANGED <<cached, keyfile>>
       \/ /\ row.by \in Keys \cup {Broken}
          /\ \E k \in Keys \ {row.by} : GetKey(k)
    /\ mem' = pickle
    /\ Persists(Main, "resave")
    /\ UNCHANGED <<row, pickle, lock, item, walk, history>>

(***************************************************************************)
(* A request changes STATE, then persists it.                              *)
(***************************************************************************)
CreateItem(t) ==
    /\ pc[Main] = "up" /\ pc[t] = "idle"
    /\ \E x \in Items \ used :
          /\ mem' = mem \cup {x}
          /\ used' = used \cup {x}
          /\ item' = [item EXCEPT ![t] = x]
    /\ Persists(t, "create")
    /\ UNCHANGED <<row, pickle, keyfile, cached, lock, walk, acked, gone,
                   unsaved>>

\* Lists are walked by index: when an element the walk has passed leaves the
\* list, the next one takes its place and is skipped.
Skips(x) ==
    \E u \in All, y \in Listed :
       /\ pc[u] = "walk"
       /\ x \in Listed \ todo[u]
       /\ y \in (todo[u] \cap mem) \ {x}
       /\ todo' = [todo EXCEPT ![u] = @ \ {y}]
       /\ missed' = missed \cup {y}

RemoveItem(t) ==
    /\ pc[Main] = "up" /\ pc[t] = "idle"
    /\ \E x \in mem :
          /\ mem' = mem \ {x}
          /\ acked' = acked \ {x}
          /\ item' = [item EXCEPT ![t] = x]
          /\ Skips(x) \/ UNCHANGED <<todo, missed>>
    /\ Persists(t, "remove")
    /\ UNCHANGED <<row, pickle, keyfile, cached, lock, scan, used, gone,
                   unsaved>>

(***************************************************************************)
(* save_state, by request threads and by the boot alike.                   *)
(***************************************************************************)
\* Wrong on purpose: the walk is not under the lock.
Wrong_BeginSave(t) ==
    /\ pc[t] = "wait"
    /\ pc' = [pc EXCEPT ![t] = "walk"]
    /\ scan' = [scan EXCEPT ![t] = {}]
    /\ todo' = [todo EXCEPT ![t] = Items]
    /\ missed' = {}
    /\ UNCHANGED <<mem, row, pickle, keyfile, cached, lock, job, item,
                   history>>

BeginSave(t) ==
    /\ pc[t] = "wait"
    /\ lock = NoOne
    /\ lock' = t
    /\ pc' = [pc EXCEPT ![t] = "walk"]
    /\ scan' = [scan EXCEPT ![t] = {}]
    /\ todo' = [todo EXCEPT ![t] = Items]
    /\ missed' = {}
    /\ UNCHANGED <<mem, row, pickle, keyfile, cached, job, item, history>>

WalkItem(t) ==
    /\ pc[t] = "walk"
    /\ \E x \in todo[t] :
          /\ todo' = [todo EXCEPT ![t] = @ \ {x}]
          /\ scan' = [scan EXCEPT ![t] = @ \cup ({x} \cap mem)]
    /\ UNCHANGED <<mem, row, pickle, keyfile, cached, lock, pc, job, item,
                   missed, history>>

\* Wrong on purpose: the key stays in memory.
Wrong_Sign(t) ==
    /\ pc[t] = "walk"
    /\ todo[t] = {}
    /\ \E k \in Keys : /\ cached # NoKey => k = cached
                       /\ cached' = k
    /\ pc' = [pc EXCEPT ![t] = "commit"]
    /\ UNCHANGED <<mem, row, pickle, keyfile, lock, job, item, walk, history>>

\* The JSON is written into the open transaction and signed.
Sign(t) ==
    /\ pc[t] = "walk"
    /\ todo[t] = {}
    /\ \E k \in Keys : GetKey(k)
    /\ pc' = [pc EXCEPT ![t] = "commit"]
    /\ UNCHANGED <<mem, row, pickle, lock, job, item, walk, history>>

\* Both rows change at once and the lock is given back.  What failed to be
\* saved before is saved now, but for what this walk skipped.
Commit(t) ==
    /\ pc[t] = "commit"
    /\ row' = [items |-> scan[t], by |-> cached]
    /\ lock' = NoOne
    /\ scan' = [scan EXCEPT ![t] = {}]
    /\ missed' = {}
    /\ unsaved' = missed
    /\ UNCHANGED <<mem, pickle, keyfile, cached, todo>>

\* Wrong on purpose: an exception leaves the lock taken.
Wrong_Raises(t) ==
    /\ "persist" \in Faults
    /\ pc[t] \in Saving
    /\ scan' = [scan EXCEPT ![t] = {}]
    /\ todo' = [todo EXCEPT ![t] = {}]
    /\ missed' = {}
    /\ UNCHANGED <<mem, row, pickle, keyfile, cached, lock>>

\* The walk met a changed dictionary, or SQLite raised: nothing is stored.
Raises(t) ==
    /\ "persist" \in Faults
    /\ pc[t] \in Saving
    /\ lock' = NoOne
    /\ scan' = [scan EXCEPT ![t] = {}]
    /\ todo' = [todo EXCEPT ![t] = {}]
    /\ missed' = {}
    /\ UNCHANGED <<mem, row, pickle, keyfile, cached>>

\* The request is answered and the thread keeps nothing of it.
Answered(t) ==
    /\ pc' = [pc EXCEPT ![t] = "idle"]
    /\ job' = [job EXCEPT ![t] = "none"]
    /\ item' = [item EXCEPT ![t] = NoItem]

\* An item somebody removed before its creation was answered is not owed.
Acknowledged(t) ==
    /\ Answered(t)
    /\ \/ /\ job[t] = "create"
          /\ acked' = acked \cup ({item[t]} \cap mem)
          /\ UNCHANGED gone
       \/ /\ job[t] = "remove"
          /\ gone' = gone \cup {item[t]}
          /\ UNCHANGED acked

Ack(t) ==
    /\ Acknowledged(t)
    /\ Commit(t)
    /\ UNCHANGED used

\* The handler's own save fails, and the request with it; the change stays.
SaveFails(t) ==
    /\ job[t] \in {"create", "remove"}
    /\ Raises(t)
    /\ Answered(t)
    /\ unsaved' = unsaved \cup {item[t]}
    /\ UNCHANGED <<used, acked, gone>>

\* The save of _capability_middleware fails, which it swallows: the request
\* is answered as a success.
SaveSwallowed(t) ==
    /\ Acknowledged(t)
    /\ Raises(t)
    /\ unsaved' = unsaved \cup {item[t]}
    /\ UNCHANGED used

\* The first save of a fallback; that it failed is swallowed.
Resaved ==
    /\ job[Main] = "resave"
    /\ \/ Commit(Main)
       \/ Raises(Main) /\ UNCHANGED unsaved
    /\ Persists(Main, "migrate")
    /\ UNCHANGED <<item, used, acked, gone>>

\* The migrated state is saved and requests are served.
Booted ==
    /\ job[Main] = "migrate"
    /\ Commit(Main)
    /\ pc' = [pc EXCEPT ![Main] = "up"]
    /\ job' = [job EXCEPT ![Main] = "none"]
    /\ UNCHANGED <<item, used, acked, gone>>

(***************************************************************************)
(* The process dies at any point, an exception of the boot's second save   *)
(* included, and starts again; an open transaction is rolled back.  What   *)
(* was acknowledged and not saved is lost with it.                         *)
(***************************************************************************)
Crash ==
    /\ pc[Main] # "load"
    /\ mem' = {}
    /\ cached' = NoKey
    /\ lock' = NoOne
    /\ pc' = [t \in All |-> IF t = Main THEN "load" ELSE "idle"]
    /\ job' = [t \in All |-> "none"]
    /\ item' = [t \in All |-> NoItem]
    /\ scan' = [t \in All |-> {}]
    /\ todo' = [t \in All |-> {}]
    /\ missed' = {}
    /\ unsaved' = {}
    /\ acked' = acked \ unsaved
    /\ gone' = gone \ unsaved
    /\ UNCHANGED <<row, pickle, keyfile, used>>

\* The file is changed or damaged while no process runs: from then on
\* nothing that was stored in it is owed to anybody.
Damage ==
    /\ "damage" \in Faults
    /\ pc[Main] = "load"
    /\ row.by \in Keys
    /\ row' = [row EXCEPT !.by = Broken]
    /\ acked' = {}
    /\ gone' = {}
    /\ UNCHANGED <<mem, pickle, keyfile, cached, lock, pc, job, item, walk,
                   used, unsaved>>

Save(t) == BeginSave(t) \/ WalkItem(t) \/ Sign(t)

Request(t) ==
    \/ CreateItem(t) \/ RemoveItem(t)
    \/ Ack(t) \/ SaveFails(t) \/ SaveSwallowed(t)

Boot == LoadAccepts \/ LoadFallsBack \/ Resaved \/ Booted

Next ==
    \/ \E t \in All : Save(t)
    \/ \E t \in Threads : Request(t)
    \/ Boot
    \/ Crash
    \/ Damage

Spec == Init /\ [][Next]_vars

\* A thread inside the store's lock goes on.
FairSpec ==
    /\ Spec
    /\ \A t \in All : WF_vars(WalkItem(t) \/ Sign(t))
    /\ \A t \in Threads : WF_vars(Ack(t))
    /\ WF_vars(Resaved \/ Booted)

(***************************************************************************)
(* Properties.                                                             *)
(***************************************************************************)
\* What was acknowledged is in the file, but for the items whose save failed
\* and was swallowed and those a walk skipped: a crash at any point loses no
\* other acknowledged creation and brings no other acknowledged removal back,
\* and the next save that succeeds makes up for them, although concurrent
\* requests persist one shared dictionary they change unlocked.
Durable ==
    /\ acked \ unsaved \subseteq row.items
    /\ (gone \ unsaved) \cap row.items = {}

\* The next start will find the signature valid: no interleaving of crashes
\* and saves leaves a row signed with a key the disk does not hold.
Verifiable == row.by \in Keys => keyfile = row.by

\* When no request is under way, memory and file differ by nothing but the
\* items whose save failed after the last one that succeeded, and those that
\* one skipped.
Settled ==
    (pc[Main] = "up" /\ \A t \in Threads : pc[t] = "idle")
       => (mem \ row.items) \cup (row.items \ mem) \subseteq unsaved

\* A request sees every acknowledged creation and no acknowledged removal,
\* after a restart too, but for the changes that were not saved when the
\* process died.
Served == pc[Main] = "up" => acked \subseteq mem /\ gone \cap mem = {}

\* What keeps them.  The lock's holder is who walks or commits; the boot is
\* alone; a request under way owns its item.
Holder == \A t \in All : pc[t] \in Saving <=> lock = t

Stages ==
    /\ pc[Main] \in {"load", "wait", "walk", "commit", "up"}
    /\ job[Main] \notin {"create", "remove"}
    /\ \A t \in Threads :
          /\ pc[t] \in {"idle", "wait", "walk", "commit"}
          /\ pc[Main] # "up" => pc[t] = "idle"
          /\ pc[t] # "idle" => item[t] \in used /\ job[t] \in {"create", "remove"}
    /\ \A t \in All : pc[t] = "commit" => todo[t] = {} /\ cached \in Keys

\* Nothing is ever created twice.
Once ==
    /\ mem \cup row.items \cup pickle \cup gone \subseteq used
    /\ \A t \in All : scan[t] \subseteq used

\* The key in use is the one on disk; a row that will not be accepted owes
\* nothing to anybody.
KeyKept ==
    /\ Verifiable
    /\ cached \in {NoKey, keyfile}
    /\ row.by \in {Broken, Absent} => acked = {} /\ gone = {}
    /\ pc[Main] = "up" => row.by \in Keys
    /\ pc[Main] = "load" => unsaved = {}

\* From the load on, memory owes what the file does.
MemoryOwes == pc[Main] # "load" => acked \subseteq mem /\ gone \cap mem = {}

\* What a walk will have stored when it ends, were nobody to interfere.
Due(t) == scan[t] \cup (todo[t] \cap mem)

\* A walk misses nothing that is owed, and nothing of its own request, but
\* for what it skipped.
WalkOwes ==
    \A t \in All : pc[t] \in Saving =>
       /\ acked \subseteq Due(t) \cup missed
       /\ gone \cap scan[t] = {}
       /\ job[t] = "create" => {item[t]} \cap mem \subseteq Due(t) \cup missed
       /\ job[t] = "remove" => item[t] \notin scan[t]

\* A request that removes an item has removed it for good.
RemovedStays ==
    \A t \in Threads :
       (pc[t] # "idle" /\ job[t] = "remove") => item[t] \notin mem

InFlight(x, S) == \E u \in S : pc[u] # "idle" /\ item[u] = x

\* Whatever the file, or the file as a walk will leave it, does not share
\* with memory belongs to somebody else's request, or was not saved.
Differ(S, T) == (S \ T) \cup (T \ S)

FileDiffers ==
    pc[Main] = "up" =>
       \A x \in Differ(row.items, mem) :
          x \in unsaved \/ InFlight(x, Threads)

WalkDiffers ==
    \A t \in All : pc[t] \in Saving =>
       \A x \in Differ(Due(t), mem) :
          x \in missed \/ InFlight(x, Threads \ {t})

\* The store's lock comes back on every path, errors and crashes included.
LockReturns == \A t \in All : lock = t ~> lock # t
=============================================================================
