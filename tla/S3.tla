--------------------------------- MODULE S3 ---------------------------------
(***************************************************************************)
(* The S3 service (routes/aws_s3.py) as one space sees it: buckets, object *)
(* versions, multipart uploads, paged listings and the messages its        *)
(* notifications put in a queue.                                           *)
(*                                                                         *)
(* Every handler is a coroutine of one event loop and gives way in one     *)
(* place, await request.body().  A handler that reads a body is therefore  *)
(* two steps: Begin checks the bucket (and the upload) and waits, the      *)
(* second step does the rest on what it then finds.  The other handlers    *)
(* are one step.                                                           *)
(*                                                                         *)
(* A key's version list, newest first, is the set of its versions ordered  *)
(* by slot: insert(0) takes a new slot above all others, replacing a       *)
(* version takes over its slot.  A stamp stands for what one request       *)
(* wrote; a version whose id is not "null" is named, and its id is new     *)
(* with the stamp.  The number of bytes stands for the data.               *)
(* Left out: the other bucket settings, ACLs and tags, which no operation  *)
(* below reads; the events of removals and the record of the last 200      *)
(* deliveries; a listing's prefix and delimiter; the write-through to      *)
(* MinIO, from which nothing is read back.                                 *)
(***************************************************************************)
EXTENDS Integers, FiniteSets, FiniteSetsExt

CONSTANTS
    Buckets, NoBucket,
    Keys,        \* object names, numbers in the order of the names
    Uploads,     \* multipart upload ids
    Parts,       \* part numbers
    Requests,    \* requests that may be waiting for their body
    Pages,       \* max-keys a listing asks for
    Sizes,       \* bytes of a body
    Cap,         \* storage_bytes_cap of the tier
    Quota,       \* the tier's buckets per space
    Loads,       \* bound: what the clients of one behaviour use
    MaxStamps    \* bound: writes

ASSUME S3Assumption ==
    /\ NoBucket \notin Buckets
    /\ Keys \subseteq Nat \ {0}
    /\ Pages \subseteq Nat \ {0}
    /\ Sizes \subseteq Nat
    /\ {Cap, Quota, MaxStamps} \subseteq Nat
    /\ Loads \subseteq [buckets : SUBSET Buckets, keys : SUBSET Keys,
                       uploads : SUBSET Uploads, pages : SUBSET Pages]
    /\ IsFiniteSet(Buckets) /\ IsFiniteSet(Keys) /\ IsFiniteSet(Parts)

VARIABLES
    load,      \* the buckets, keys, uploads and max-keys in use
    status,    \* status[b]: "absent", or the versioning of bucket b
    rule,      \* rule[b]: b has a queue configuration, and its queue exists
    objects,   \* objects[b][k]: the versions of key k, {} when there is no entry
    uploads,   \* uploads[u]: [state, parts] of multiparts[u]
    waiting,   \* waiting[r]: what request r will do with its body
    listing,   \* a client's walk through the pages of a listing
    next,      \* the stamp of the next write
    queue,     \* the ObjectCreated messages put in the queue
    kept,      \* history: versions acknowledged and not deleted by their id
    wiped,     \* history: buckets a second CreateBucket went through for
    answered   \* history: answered[u], the CompleteMultipartUploads answered 200

vars == <<load, status, rule, objects, uploads, waiting, listing, next, queue,
          kept, wiped, answered>>

Stamps == 1 .. MaxStamps
Versioning == {"Disabled", "Enabled", "Suspended"}
Version == [slot : Stamps, stamp : Stamps, named : BOOLEAN, marker : BOOLEAN,
            size : Nat]
Idle == [op |-> "idle", bucket |-> NoBucket, upload |-> {}]
NoListing == [bucket |-> NoBucket, after |-> 0, seen |-> {}, steady |-> {}]

TypeOK ==
    /\ load \in Loads
    /\ status \in [Buckets -> Versioning \cup {"absent"}]
    /\ rule \in [Buckets -> BOOLEAN]
    /\ objects \in [Buckets -> [Keys -> SUBSET Version]]
    /\ uploads \in [Uploads -> [state : {"new", "open", "gone"},
                                parts : SUBSET Parts]]
    /\ waiting \in [Requests ->
         [op : {"idle", "create", "versioning", "notification", "put", "part",
                "batch", "complete"},
          bucket : Buckets \cup {NoBucket}, upload : SUBSET Uploads]]
    /\ listing \in [bucket : Buckets \cup {NoBucket}, after : Keys \cup {0},
                    seen : SUBSET Keys, steady : SUBSET Keys]
    /\ next \in 1 .. MaxStamps + 1
    /\ queue \subseteq [wrote : Stamps, says : Stamps, named : BOOLEAN]
    /\ kept \subseteq [bucket : Buckets, key : Keys, stamp : Stamps]
    /\ wiped \subseteq Buckets
    /\ answered \in [Uploads -> Nat]

Init ==
    /\ load \in Loads
    /\ status = [b \in Buckets |-> "absent"]
    /\ rule = [b \in Buckets |-> FALSE]
    /\ objects = [b \in Buckets |-> [k \in Keys |-> {}]]
    /\ uploads = [u \in Uploads |-> [state |-> "new", parts |-> {}]]
    /\ waiting = [r \in Requests |-> Idle]
    /\ listing = NoListing
    /\ next = 1
    /\ queue = {} /\ kept = {} /\ wiped = {}
    /\ answered = [u \in Uploads |-> 0]

-----------------------------------------------------------------------------
Exists(b) == status[b] # "absent"
\* A bucket that is gone reads as one without versioning.
VersioningStatus(b) == IF Exists(b) THEN status[b] ELSE "Disabled"

\* versions[0]
Front(list) == CHOOSE v \in list : \A w \in list : w.slot <= v.slot
Nulls(list) == {v \in list : ~v.named}
Shown(list) == list # {} /\ ~Front(list).marker
Visible(b) == {k \in Keys : Shown(objects[b][k])}

\* Every byte that is stored, by the version it belongs to and its place in it.
StoredBytes ==
    LET bytes(b, k) == UNION {{<<b, k, v, i>> : i \in 1 .. v.size} : v \in objects[b][k]}
    IN  UNION {bytes(b, k) : b \in Buckets, k \in Keys}
TotalBytes == Cardinality(StoredBytes)

\* Wrong on purpose: a suspended bucket gives new ids as well.
Wrong_NewVersion(b, size) ==
    [slot |-> next, stamp |-> next, named |-> VersioningStatus(b) # "Disabled",
     marker |-> FALSE, size |-> size]

NewVersion(b, size) ==
    [slot |-> next, stamp |-> next, named |-> VersioningStatus(b) = "Enabled",
     marker |-> FALSE, size |-> size]

\* The list after a new version: it is alone, takes the place of the first
\* null version, or goes to the front.
Placed(list, v, versioning) ==
    CASE versioning = "Disabled" -> {v}
      [] versioning = "Suspended" /\ Nulls(list) # {} ->
            LET old == Front(Nulls(list))
            IN  (list \ {old}) \cup {[v EXCEPT !.slot = old.slot]}
      [] OTHER -> list \cup {v}

\* Wrong on purpose: a suspended bucket replaces whatever is first.
Wrong_Marked(list, b) ==
    LET rest == IF VersioningStatus(b) = "Suspended" /\ list # {}
                THEN list \ {Front(list)} ELSE list
    IN  rest \cup {[NewVersion(b, 0) EXCEPT !.marker = TRUE]}

\* A delete marker replaces a null version only if that is the first.
Marked(list, b) ==
    LET rest == IF /\ VersioningStatus(b) = "Suspended" /\ list # {}
                   /\ ~Front(list).named
                THEN list \ {Front(list)} ELSE list
    IN  rest \cup {[NewVersion(b, 0) EXCEPT !.marker = TRUE]}

\* Wrong on purpose: names the last of the list.
Wrong_Announce(b, k) ==
    LET v == CHOOSE v \in objects'[b][k] :
                 \A w \in objects'[b][k] : w.slot >= v.slot
    IN  queue' = IF rule[b]
                 THEN queue \cup {[wrote |-> next, says |-> v.stamp,
                                   named |-> VersioningStatus(b) = "Enabled"]}
                 ELSE queue

\* The event of a creation names the version in front.
Announce(b, k) ==
    LET v == Front(objects'[b][k])
    IN  queue' = IF rule[b]
                 THEN queue \cup {[wrote |-> next, says |-> v.stamp,
                                   named |-> VersioningStatus(b) = "Enabled"]}
                 ELSE queue

\* _s3_write_object_version of a version that is no delete marker.
\* Wrong on purpose: compares the bytes stored so far.
Wrong_Fits(size) == TotalBytes <= Cap

Fits(size) == TotalBytes + size <= Cap
Named(b, ks) ==
    IF VersioningStatus(b) = "Enabled"
    THEN [bucket : {b}, key : ks, stamp : {next}] ELSE {}
Write(b, k, list) ==
    /\ next \in Stamps
    /\ objects' = [objects EXCEPT ![b][k] = list]
    /\ next' = next + 1
    /\ Announce(b, k)
    /\ kept' = kept \cup Named(b, {k})
WriteObject(b, k, size) ==
    LET v == NewVersion(b, size)
    IN  Fits(size) /\ Write(b, k, Placed(objects[b][k], v, VersioningStatus(b)))

\* Delete markers in front of the keys ks.
Mark(b, ks) ==
    /\ next \in Stamps
    /\ objects' = [objects EXCEPT ![b] =
         [k \in Keys |-> IF k \in ks THEN Marked(@[k], b) ELSE @[k]]]
    /\ next' = next + 1
    /\ kept' = kept \cup Named(b, ks)
    /\ UNCHANGED queue

\* What the walk through a listing may count on: keys shown since it began.
Watch == listing' = [listing EXCEPT !.steady =
                        {k \in @ : Shown(objects'[listing.bucket][k])}]
Stored == <<objects, next, queue, kept>>
Configured == <<status, rule, wiped>>
Multiparts == <<uploads, answered>>

-----------------------------------------------------------------------------
(* Requests that read a body. Begin is what precedes the await; the key,   *)
(* which it does not look at, is chosen when it is used.                   *)
Begin(r, op, b, us) ==
    /\ waiting[r] = Idle
    /\ waiting' = [waiting EXCEPT ![r] =
                     [op |-> op, bucket |-> b, upload |-> us]]
    /\ UNCHANGED <<Stored, Configured, Multiparts>>

BeginBucket(r, b) ==
    \/ ~Exists(b) /\ Begin(r, "create", b, {})
    \/ /\ Exists(b)
       /\ \E op \in {"versioning", "notification", "batch", "put"} :
             Begin(r, op, b, {})

\* The upload's own bucket and key are not compared with the request's.
BeginUpload(r, b, u) ==
    /\ Exists(b) /\ uploads[u].state = "open"
    /\ \/ Begin(r, "part", NoBucket, {u})
       \/ Begin(r, "complete", b, {u})

\* The body has arrived: the request runs to its end.
Finish(r, op) ==
    /\ waiting[r].op = op
    /\ waiting' = [waiting EXCEPT ![r] = Idle]
Bucket(r) == waiting[r].bucket
Upload(r) == CHOOSE u \in waiting[r].upload : TRUE

\* Wrong on purpose: keeps the objects that are there under the name.
WrongToo_CreateBucket(r) ==
    LET b == Bucket(r)
    IN  /\ Finish(r, "create")
        /\ Cardinality({c \in Buckets : Exists(c)}) < Quota
        /\ status' = [status EXCEPT ![b] = "Disabled"]
        /\ rule' = [rule EXCEPT ![b] = FALSE]
        /\ UNCHANGED <<wiped, Stored, Multiparts>>

\* The name is not looked up again: what a bucket created meanwhile holds is
\* gone. Objects left over from a bucket deleted under a PutObject are, too.
CreateBucket(r) ==
    LET b == Bucket(r)
    IN  /\ Finish(r, "create")
        /\ UNCHANGED <<next, queue, kept, Multiparts>>
        /\ IF Cardinality({c \in Buckets : Exists(c)}) < Quota
           THEN /\ status' = [status EXCEPT ![b] = "Disabled"]
                /\ rule' = [rule EXCEPT ![b] = FALSE]
                /\ objects' = [objects EXCEPT ![b] = [k \in Keys |-> {}]]
                /\ wiped' = IF Exists(b) THEN wiped \cup {b} ELSE wiped
           ELSE UNCHANGED <<Configured, objects>>

\* A bucket that is gone by now makes the lookup raise, and nothing changes.
PutVersioning(r) ==
    LET b == Bucket(r)
    IN  /\ Finish(r, "versioning")
        /\ \E v \in {"Enabled", "Suspended"} :
              status' = IF Exists(b) THEN [status EXCEPT ![b] = v] ELSE status
        /\ UNCHANGED <<rule, wiped, Stored, Multiparts>>

PutNotification(r) ==
    LET b == Bucket(r)
    IN  /\ Finish(r, "notification")
        /\ \E on \in BOOLEAN :
              rule' = IF Exists(b) THEN [rule EXCEPT ![b] = on] ELSE rule
        /\ UNCHANGED <<status, wiped, Stored, Multiparts>>

\* The bucket is not looked up again: if it is gone the object is stored all
\* the same, without versioning.
PutObject(r) ==
    /\ Finish(r, "put")
    /\ \E k \in load.keys, size \in Sizes :
          \/ WriteObject(Bucket(r), k, size)
          \/ ~Fits(size) /\ UNCHANGED Stored
    /\ UNCHANGED <<Configured, Multiparts>>

\* The lookup raises when the upload was completed or aborted meanwhile.
UploadPart(r) ==
    LET u == Upload(r)
    IN  /\ Finish(r, "part")
        /\ \E p \in Parts :
              uploads' = IF uploads[u].state = "open"
                         THEN [uploads EXCEPT ![u].parts = @ \cup {p}]
                         ELSE uploads
        /\ UNCHANGED <<answered, Stored, Configured>>

\* Wrong on purpose: removing an upload that is gone does not raise.
Wrong_CompleteMultipartUpload(r) ==
    LET u == Upload(r)
    IN  /\ Finish(r, "complete")
        /\ \E k \in load.keys :
              /\ WriteObject(Bucket(r), k, Cardinality(uploads[u].parts))
              /\ uploads' = [uploads EXCEPT ![u].state = "gone"]
              /\ answered' = [answered EXCEPT ![u] = @ + 1]
        /\ UNCHANGED Configured

\* The parts are those of the record found before the await. The version is
\* stored before the upload is removed, which raises if it is gone.
CompleteMultipartUpload(r) ==
    LET u == Upload(r)
        size(named) == Cardinality(IF named \cap uploads[u].parts = {}
                                   THEN uploads[u].parts
                                   ELSE named \cap uploads[u].parts)
    IN  /\ Finish(r, "complete")
        /\ \E k \in load.keys, named \in SUBSET Parts :
              \/ /\ WriteObject(Bucket(r), k, size(named))
                 /\ uploads' = [uploads EXCEPT ![u].state = "gone"]
                 /\ answered' = IF uploads[u].state = "open"
                                THEN [answered EXCEPT ![u] = @ + 1]
                                ELSE answered
              \/ ~Fits(size(named)) /\ UNCHANGED <<Stored, Multiparts>>
        /\ UNCHANGED Configured

\* Every key the body names is deleted, or marked, with its event.
DeleteObjects(r) ==
    LET b == Bucket(r)
    IN  /\ Finish(r, "batch")
        /\ \E named \in SUBSET load.keys :
             LET ks == {k \in named : objects[b][k] # {}}
             IN  IF VersioningStatus(b) = "Disabled" \/ ks = {}
                 THEN /\ objects' = [objects EXCEPT ![b] =
                            [k \in Keys |-> IF k \in ks THEN {} ELSE @[k]]]
                      /\ UNCHANGED <<next, queue, kept>>
                 ELSE Mark(b, ks)
        /\ UNCHANGED <<Configured, Multiparts>>

-----------------------------------------------------------------------------
(* Requests that are one step. *)
DeleteBucket(b) ==
    /\ Exists(b) /\ \A k \in Keys : objects[b][k] = {}
    /\ status' = [status EXCEPT ![b] = "absent"]
    /\ rule' = [rule EXCEPT ![b] = FALSE]
    /\ UNCHANGED <<wiped, waiting, Stored, Multiparts>>

DeleteObject(b, k) ==
    /\ Exists(b)
    /\ \/ /\ status[b] = "Disabled"
          /\ objects' = [objects EXCEPT ![b][k] = {}]
          /\ UNCHANGED <<next, queue, kept>>
       \/ status[b] # "Disabled" /\ Mark(b, {k})
    /\ UNCHANGED <<waiting, Configured, Multiparts>>

\* Every version with the id goes; of several null versions, all.
DeleteVersion(b, k) ==
    /\ Exists(b)
    /\ \E v \in objects[b][k] :
         LET gone == IF v.named THEN {v} ELSE Nulls(objects[b][k])
         IN  /\ objects' = [objects EXCEPT ![b][k] = @ \ gone]
             /\ kept' = IF v.named
                        THEN kept \ [bucket : {b}, key : {k}, stamp : {v.stamp}]
                        ELSE kept
    /\ UNCHANGED <<next, queue, waiting, Configured, Multiparts>>

CopyObject(b, k, from, key) ==
    /\ Exists(b) /\ Exists(from)
    /\ \E v \in objects[from][key] : ~v.marker /\ WriteObject(b, k, v.size)
    /\ UNCHANGED <<waiting, Configured, Multiparts>>

CreateMultipartUpload(b, u) ==
    /\ Exists(b) /\ uploads[u].state = "new"
    /\ uploads' = [uploads EXCEPT ![u].state = "open"]
    /\ UNCHANGED <<answered, waiting, Stored, Configured>>

AbortMultipartUpload(b, u) ==
    /\ Exists(b) /\ uploads[u].state = "open"
    /\ uploads' = [uploads EXCEPT ![u].state = "gone"]
    /\ UNCHANGED <<answered, waiting, Stored, Configured>>

\* A client lists a bucket page by page. A page is the first max-keys of the
\* shown keys after the marker, and the last of them is the next marker.
StartListing(b) ==
    /\ Exists(b) /\ listing.bucket = NoBucket /\ load.pages # {}
    /\ listing' = [NoListing EXCEPT !.bucket = b, !.steady = Visible(b)]
    /\ UNCHANGED <<waiting, Stored, Configured, Multiparts>>

Page(b, after, n) ==
    LET keys == {k \in Visible(b) : k > after}
    IN  {k \in keys : Cardinality({j \in keys : j < k}) < n}
Truncated(b, after, n) == Cardinality({k \in Visible(b) : k > after}) > n

\* Wrong on purpose: the next page begins after the first key it has to show.
Wrong_ListPage(n) ==
    LET b == listing.bucket
        page == Page(b, listing.after, n)
    IN  /\ b # NoBucket /\ Exists(b)
        /\ Truncated(b, listing.after, n)
        /\ listing' = [listing EXCEPT !.after = Max(page) + 1, !.seen = @ \cup page]
        /\ UNCHANGED <<waiting, Stored, Configured, Multiparts>>

ListPage(n) ==
    LET b == listing.bucket
        page == Page(b, listing.after, n)
    IN  /\ b # NoBucket /\ Exists(b)
        /\ Truncated(b, listing.after, n)
        /\ listing' = [listing EXCEPT !.after = Max(page), !.seen = @ \cup page]
        /\ UNCHANGED <<waiting, Stored, Configured, Multiparts>>

\* The last page, or NoSuchBucket, ends the walk.
EndListing(n) ==
    /\ listing.bucket # NoBucket
    /\ Exists(listing.bucket) => ~Truncated(listing.bucket, listing.after, n)
    /\ listing' = NoListing
    /\ UNCHANGED <<waiting, Stored, Configured, Multiparts>>

-----------------------------------------------------------------------------
Reading(r) ==
    \/ CreateBucket(r) \/ PutVersioning(r) \/ PutNotification(r)
    \/ PutObject(r) \/ UploadPart(r) \/ CompleteMultipartUpload(r)
    \/ DeleteObjects(r)
    \/ \E b \in load.buckets :
         \/ BeginBucket(r, b)
         \/ \E u \in load.uploads : BeginUpload(r, b, u)

AtOnce(b) ==
    \/ DeleteBucket(b)
    \/ \E k \in load.keys : DeleteObject(b, k) \/ DeleteVersion(b, k)
    \/ \E from \in load.buckets, k, key \in load.keys : CopyObject(b, k, from, key)
    \/ \E u \in load.uploads :
         CreateMultipartUpload(b, u) \/ AbortMultipartUpload(b, u)

Listing ==
    \/ \E b \in load.buckets : StartListing(b)
    \/ \E n \in load.pages : ListPage(n) \/ EndListing(n)

Next ==
    /\ \/ (\E r \in Requests : Reading(r)) /\ Watch
       \/ (\E b \in load.buckets : AtOnce(b)) /\ Watch
       \/ Listing
    /\ UNCHANGED load

Spec == Init /\ [][Next]_vars

-----------------------------------------------------------------------------
\* A version with an id of its own stays until it is deleted by that id,
\* whatever else happens to its key: overwriting, delete markers, suspending
\* the versioning, completing an upload.  Only a CreateBucket that waited while
\* another created the bucket takes it away.
VersionsKept ==
    \A x \in kept : x.bucket \notin wiped =>
        \E v \in objects[x.bucket][x.key] : v.named /\ v.stamp = x.stamp

\* What a GET without a version id returns (versions[0]) is the version written
\* last of those that are left, however versions were removed by their ids and the
\* versioning was switched.  Only a null version can be newer than what is
\* returned: it takes the place of the one it replaces.
CurrentIsNewest ==
    \A b \in Buckets, k \in Keys : \A v \in objects[b][k] :
        v.stamp > Front(objects[b][k]).stamp => ~v.named

\* The tier's storage cap holds at all times, for requests that waited for
\* their body, copies, assembled uploads and the objects a deleted bucket
\* left behind.
WithinCap == TotalBytes <= Cap

\* No more buckets than the tier allows, though each CreateBucket waits for
\* its body after it looked the name up.
WithinQuota == Cardinality({b \in Buckets : Exists(b)}) <= Quota

\* An upload is completed once: of several CompleteMultipartUploads at most one
\* is answered 200, and none when the upload was aborted meanwhile.
CompletedOnce ==
    \A u \in Uploads : answered[u] <= 1 /\ (answered[u] = 1 => uploads[u].state = "gone")

\* The message of a named version's creation names that version.
NamedAnnounced == \A m \in queue : m.named => m.says = m.wrote

\* A bucket starts empty, whatever a request that outlived the previous bucket
\* of that name left in its place.
StartsEmpty ==
    [][\A b \in Buckets : ~Exists(b) /\ Exists(b)' =>
            \A k \in Keys : objects'[b][k] = {}]_vars

\* A listing that ends has shown every key that was there all along, however
\* the bucket changed between its pages.
ListingComplete ==
    [][listing.bucket # NoBucket /\ listing'.bucket = NoBucket /\ Exists(listing.bucket)
         => \E n \in Pages : listing.steady \subseteq
                listing.seen \cup Page(listing.bucket, listing.after, n)]_vars
=============================================================================
