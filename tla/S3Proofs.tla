------------------------------ MODULE S3Proofs ------------------------------
(***************************************************************************)
(* Proofs about S3 for any buckets, keys, uploads, requests and quotas.    *)
(*                                                                         *)
(* Whatever the request, the stored versions change in one of a few ways   *)
(* (Effect), and the invariants about them are proved once for each way:   *)
(* a write and a delete marker add one version with the newest stamp, all  *)
(* else only removes versions.  For the cap, the stored bytes are a set: a *)
(* write makes it larger by the bytes of the one version it checked.       *)
(***************************************************************************)
EXTENDS S3, FiniteSetTheorems, WellFoundedInduction, TLAPS

\* A request under way is about a bucket, and about one of its uploads.
Asked ==
    \A r \in Requests :
        /\ waiting[r].op \notin {"idle", "part"} => waiting[r].bucket \in Buckets
        /\ waiting[r].op \in {"part", "complete"} => waiting[r].upload # {}

\* A version never has a slot newer than itself, and its own when it is named.
Slots ==
    \A b \in Buckets, k \in Keys : \A v \in objects[b][k] :
        v.slot <= v.stamp /\ v.stamp < next /\ (v.named => v.slot = v.stamp)

\* Named versions are only owed by buckets that had versioning put on.
KeptVersioned ==
    \A x \in kept : x.bucket \notin wiped =>
        status[x.bucket] \in {"Enabled", "Suspended"}

\* An upload that was answered is gone.
AnsweredIsGone ==
    \A u \in Uploads : answered[u] <= 1 /\ (uploads[u].state # "gone" => answered[u] = 0)

\* What a walk may count on is there, and was shown once its key was passed.
Walked ==
    /\ listing.bucket = NoBucket => listing = NoListing
    /\ \A k \in listing.steady :
          /\ k \in Visible(listing.bucket)
          /\ k <= listing.after => k \in listing.seen

\* The stored bytes can be counted, which the cap needs.
Sized == IsFiniteSet(StoredBytes) /\ WithinCap

Typed == TypeOK /\ Asked
IInv ==
    /\ Typed
    /\ Slots
    /\ KeptVersioned
    /\ VersionsKept
    /\ AnsweredIsGone
    /\ NamedAnnounced
    /\ WithinQuota
    /\ Walked
    /\ Sized

----------------------------------------------------------------------------
(* What the helpers return. *)

Lists == SUBSET Version

\* A set of numbers has a least one.
LEMMA LeastNumber ==
    ASSUME NEW T \in SUBSET Nat, T # {}
    PROVE  \E d \in T : \A e \in T : d <= e
<1>1. PICK d \in T : \A e \in T : ~ (<<e, d>> \in OpToRel(<, Nat))
    BY NatLessThanWellFounded, WFMin, Zenon
<1>2. \A e \in T : ~(e < d)
    BY <1>1 DEF OpToRel
<1>3. QED
    BY <1>2

\* A list that is not empty has a front.
LEMMA FrontIsFirst ==
    ASSUME NEW list \in Lists, list # {}
    PROVE  /\ Front(list) \in list /\ Front(list) \in Version
           /\ \A w \in list : w.slot <= Front(list).slot
<1> DEFINE depths == {MaxStamps - v.slot : v \in list}
<1>1. \A v \in list : v.slot \in Nat /\ MaxStamps - v.slot \in Nat
    BY S3Assumption DEF Lists, Version, Stamps
<1>2. depths \in SUBSET Nat /\ depths # {}
    BY <1>1
<1>3. PICK d \in depths : \A e \in depths : d <= e
    BY <1>2, LeastNumber, Zenon
<1>4. PICK v \in list : d = MaxStamps - v.slot
    BY <1>3
<1>5. \A w \in list : w.slot <= v.slot
    BY <1>1, <1>3, <1>4, S3Assumption
<1>6. QED
    BY <1>4, <1>5 DEF Front, Lists

LEMMA NewTyped ==
    ASSUME NEW b \in Buckets, NEW size \in Nat, next \in Stamps
    PROVE  /\ NewVersion(b, size) \in Version
           /\ NewVersion(b, size).slot = next /\ NewVersion(b, size).stamp = next
           /\ NewVersion(b, size).named <=> VersioningStatus(b) = "Enabled"
           /\ NewVersion(b, size).size = size
BY DEF NewVersion, Version

\* The list after a write keeps the named versions that are owed, gets the new
\* one, and nothing but its slot comes from the version it replaces.
LEMMA PlacedEffect ==
    ASSUME NEW list \in Lists, NEW v \in Version, NEW versioning \in Versioning
    PROVE  /\ Placed(list, v, versioning) \in Lists
           /\ versioning # "Disabled" => {w \in list : w.named} \subseteq Placed(list, v, versioning)
           /\ \E n \in Placed(list, v, versioning) :
                 /\ n.stamp = v.stamp /\ n.named = v.named /\ n.size = v.size
                 /\ \/ n = v
                    \/ versioning = "Suspended" /\ \E o \in list : n.slot = o.slot
                 /\ \A w \in Placed(list, v, versioning) \ {n} : w \in list
<1>1. CASE versioning = "Disabled"
    BY <1>1 DEF Placed, Lists
<1>2. CASE versioning = "Suspended" /\ Nulls(list) # {}
    <2>1. Nulls(list) \in Lists
        BY DEF Nulls, Lists
    <2>2. Front(Nulls(list)) \in Nulls(list)
        BY <1>2, <2>1, FrontIsFirst
    <2>3. PICK old \in list : ~old.named /\ old = Front(Nulls(list))
        BY <2>2 DEF Nulls
    <2>4. Placed(list, v, versioning) = (list \ {old}) \cup {[v EXCEPT !.slot = old.slot]}
        BY <1>2, <2>3 DEF Placed
    <2>5. [v EXCEPT !.slot = old.slot] \in Version
        BY DEF Lists, Version
    <2> DEFINE n == [v EXCEPT !.slot = old.slot]
    <2>6. n.stamp = v.stamp /\ n.named = v.named /\ n.slot = old.slot /\ n.size = v.size
        BY DEF Version
    <2>7. QED
        BY <1>2, <2>3, <2>4, <2>5, <2>6 DEF Lists
<1>3. CASE versioning # "Disabled" /\ ~(versioning = "Suspended" /\ Nulls(list) # {})
    <2>1. Placed(list, v, versioning) = list \cup {v}
        BY <1>3 DEF Placed
    <2>2. QED
        BY <1>3, <2>1 DEF Lists
<1>4. QED
    BY <1>1, <1>2, <1>3

\* A delete marker replaces a null version at most.
LEMMA MarkedEffect ==
    ASSUME NEW list \in Lists, NEW b \in Buckets, next \in Stamps
    PROVE  /\ Marked(list, b) \in Lists
           /\ \E n \in Marked(list, b) :
                 /\ n.stamp = next /\ (n.named <=> VersioningStatus(b) = "Enabled")
                 /\ n.slot = next /\ n.size = 0
                 /\ \A w \in Marked(list, b) \ {n} : w \in list
                 /\ {w \in list : w.named} \subseteq Marked(list, b)
<1> DEFINE m == [NewVersion(b, 0) EXCEPT !.marker = TRUE]
<1>1. /\ m \in Version /\ m.slot = next /\ m.stamp = next /\ m.size = 0
      /\ m.named <=> VersioningStatus(b) = "Enabled"
    BY DEF NewVersion, Version
<1>2. \/ Marked(list, b) = list \cup {m}
      \/ ~Front(list).named /\ Marked(list, b) = (list \ {Front(list)}) \cup {m}
    BY DEF Marked
<1>3. QED
    BY <1>1, <1>2 DEF Lists

----------------------------------------------------------------------------
(* Types. *)

Messages == [wrote : Stamps, says : Stamps, named : BOOLEAN]
KeptOnes == [bucket : Buckets, key : Keys, stamp : Stamps]
StoredTyped ==
    /\ objects \in [Buckets -> [Keys -> Lists]]
    /\ next \in 1 .. MaxStamps + 1
    /\ queue \subseteq Messages
    /\ kept \subseteq KeptOnes
Multi == [state : {"new", "open", "gone"}, parts : SUBSET Parts]
Request == [op : {"idle", "create", "versioning", "notification", "put", "part",
                  "batch", "complete"},
            bucket : Buckets \cup {NoBucket}, upload : SUBSET Uploads]
Walk == [bucket : Buckets \cup {NoBucket}, after : Keys \cup {0},
         seen : SUBSET Keys, steady : SUBSET Keys]
RestTyped ==
    /\ status \in [Buckets -> Versioning \cup {"absent"}]
    /\ rule \in [Buckets -> BOOLEAN]
    /\ uploads \in [Uploads -> Multi]
    /\ waiting \in [Requests -> Request]
    /\ wiped \subseteq Buckets
    /\ answered \in [Uploads -> Nat]

LEMMA TypeParts ==
    /\ TypeOK <=> load \in Loads /\ StoredTyped /\ RestTyped /\ listing \in Walk
    /\ TypeOK' <=> load' \in Loads /\ StoredTyped' /\ RestTyped' /\ listing' \in Walk
BY DEF TypeOK, StoredTyped, RestTyped, Walk, Lists, Messages, KeptOnes, Multi, Request

LEMMA StatusTyped ==
    ASSUME RestTyped, NEW b \in Buckets
    PROVE  VersioningStatus(b) \in Versioning
BY DEF RestTyped, VersioningStatus, Exists, Versioning

LEMMA NamedTyped ==
    ASSUME NEW b \in Buckets, NEW ks \in SUBSET Keys, next \in Stamps
    PROVE  Named(b, ks) \subseteq KeptOnes
BY DEF Named, KeptOnes

\* One or more keys of a bucket get a version with the newest stamp: an object
\* that fits, or markers.
Added(b, ks) ==
    /\ next \in Stamps /\ next' = next + 1
    /\ \A c \in Buckets, j \in Keys : c # b \/ j \notin ks => objects'[c][j] = objects[c][j]
    /\ \A k \in ks : \E n \in objects'[b][k] :
          /\ n.stamp = next /\ (n.named <=> VersioningStatus(b) = "Enabled")
          /\ n.slot = next \/ (~n.named /\ \E o \in objects[b][k] : n.slot = o.slot)
          /\ n.size = 0 \/ (ks = {k} /\ Fits(n.size))
          /\ \A w \in objects'[b][k] \ {n} : w \in objects[b][k]
          /\ VersioningStatus(b) # "Disabled" =>
                {w \in objects[b][k] : w.named} \subseteq objects'[b][k]
    /\ kept' = kept \cup Named(b, ks)
    /\ queue' = queue \/ \E k \in ks :
          queue' = queue \cup {[wrote |-> next, says |-> Front(objects'[b][k]).stamp,
                                named |-> VersioningStatus(b) = "Enabled"]}

LEMMA WriteAdds ==
    ASSUME StoredTyped, RestTyped, NEW b \in Buckets, NEW k \in Keys, NEW size \in Nat,
           WriteObject(b, k, size)
    PROVE  StoredTyped' /\ Added(b, {k})
<1> DEFINE list == Placed(objects[b][k], NewVersion(b, size), VersioningStatus(b))
<1>1. /\ next \in Stamps /\ next' = next + 1 /\ Announce(b, k) /\ Fits(size)
      /\ kept' = kept \cup Named(b, {k})
      /\ objects' = [objects EXCEPT ![b] = [objects[b] EXCEPT ![k] = list]]
    BY DEF WriteObject, Write, StoredTyped
<1>2. objects[b][k] \in Lists /\ NewVersion(b, size) \in Version
      /\ VersioningStatus(b) \in Versioning
    BY <1>1, NewTyped, StatusTyped DEF StoredTyped
<1>3. /\ list \in Lists
      /\ VersioningStatus(b) # "Disabled" => {w \in objects[b][k] : w.named} \subseteq list
      /\ \E n \in list :
            /\ n.stamp = next /\ (n.named <=> VersioningStatus(b) = "Enabled")
            /\ n.slot = next \/ (~n.named /\ \E o \in objects[b][k] : n.slot = o.slot)
            /\ n.size = size
            /\ \A w \in list \ {n} : w \in objects[b][k]
    BY <1>1, <1>2, PlacedEffect, NewTyped
<1>4. /\ objects' \in [Buckets -> [Keys -> Lists]] /\ objects'[b][k] = list
      /\ \A c \in Buckets, j \in Keys : c # b \/ j \notin {k} => objects'[c][j] = objects[c][j]
    BY <1>1, <1>3 DEF StoredTyped
<1>5. Front(list).stamp \in Stamps
    BY <1>3, FrontIsFirst DEF Version
<1>6. queue' = queue \/ queue' = queue \cup {[wrote |-> next, says |-> Front(objects'[b][k]).stamp,
                                              named |-> VersioningStatus(b) = "Enabled"]}
    BY <1>1 DEF Announce
<1>7. queue' \subseteq Messages
    <2> DEFINE enabled == VersioningStatus(b) = "Enabled"
               msg == [wrote |-> next, says |-> Front(list).stamp, named |-> enabled]
    <2>1. enabled \in BOOLEAN
        OBVIOUS
    <2>2. msg \in Messages
        <3> HIDE DEF enabled
        <3>1. QED
            BY <1>1, <1>5, <2>1 DEF Messages
    <2>3. queue' = queue \/ queue' = queue \cup {msg}
        BY <1>4, <1>6
    <2>4. queue \subseteq Messages
        BY DEF StoredTyped
    <2>5. QED
        <3> HIDE DEF msg
        <3>1. QED
            BY <2>2, <2>3, <2>4
<1>8. StoredTyped'
    BY <1>1, <1>4, <1>7, NamedTyped, S3Assumption DEF StoredTyped, Stamps
<1>9. QED
    BY <1>1, <1>3, <1>4, <1>6, <1>8 DEF Added

LEMMA MarkAdds ==
    ASSUME StoredTyped, RestTyped, NEW b \in Buckets, NEW ks \in SUBSET Keys, Mark(b, ks)
    PROVE  StoredTyped' /\ Added(b, ks)
<1>1. /\ next \in Stamps /\ next' = next + 1 /\ queue' = queue
      /\ kept' = kept \cup Named(b, ks)
      /\ objects' = [objects EXCEPT ![b] =
            [k \in Keys |-> IF k \in ks THEN Marked(objects[b][k], b) ELSE objects[b][k]]]
    BY DEF Mark, StoredTyped
<1>2. ASSUME NEW k \in Keys
      PROVE  /\ Marked(objects[b][k], b) \in Lists
             /\ \E n \in Marked(objects[b][k], b) :
                  /\ n.stamp = next /\ (n.named <=> VersioningStatus(b) = "Enabled")
                  /\ n.slot = next /\ n.size = 0
                  /\ \A w \in Marked(objects[b][k], b) \ {n} : w \in objects[b][k]
                  /\ {w \in objects[b][k] : w.named} \subseteq Marked(objects[b][k], b)
    <2>1. objects[b][k] \in Lists
        BY DEF StoredTyped
    <2>2. QED
        BY <1>1, <2>1, MarkedEffect
<1>3. /\ objects' \in [Buckets -> [Keys -> Lists]]
      /\ \A k \in ks : objects'[b][k] = Marked(objects[b][k], b)
      /\ \A c \in Buckets, j \in Keys : c # b \/ j \notin ks => objects'[c][j] = objects[c][j]
    BY <1>1, <1>2 DEF StoredTyped
<1>4. StoredTyped'
    BY <1>1, <1>3, NamedTyped, S3Assumption DEF StoredTyped, Stamps
<1>5. QED
    BY <1>1, <1>2, <1>3, <1>4 DEF Added

----------------------------------------------------------------------------
(* What a step does to the stored versions. *)

\* Versions go, and no named one that is still owed.
Removed ==
    /\ \A c \in Buckets, j \in Keys : objects'[c][j] \subseteq objects[c][j]
    /\ UNCHANGED <<next, queue>>
    /\ kept' \subseteq kept /\ wiped \subseteq wiped'
    /\ \A x \in kept' : x.bucket \notin wiped' =>
          /\ status'[x.bucket] \in {"Enabled", "Suspended"}
          /\ \A v \in objects[x.bucket][x.key] :
                v.named /\ v.stamp = x.stamp => v \in objects'[x.bucket][x.key]

Effect ==
    /\ StoredTyped' /\ RestTyped' /\ Asked'
    /\ \/ Removed
       \/ \E b \in Buckets, ks \in SUBSET Keys : Added(b, ks) /\ UNCHANGED <<status, wiped>>

Owed == KeptVersioned /\ VersionsKept

LEMMA LoadTyped ==
    ASSUME load \in Loads
    PROVE  /\ load.buckets \subseteq Buckets /\ load.keys \subseteq Keys
           /\ load.uploads \subseteq Uploads /\ load.pages \subseteq Pages
BY S3Assumption

LEMMA FinishTyped ==
    ASSUME RestTyped, Asked, NEW r \in Requests, NEW op, Finish(r, op)
    PROVE  waiting' \in [Requests -> Request] /\ Asked'
BY DEF Finish, RestTyped, Request, Idle, Asked

LEMMA KeptRest ==
    ASSUME StoredTyped, Owed, UNCHANGED <<Stored, status, wiped>>
    PROVE  StoredTyped' /\ Removed
BY DEF StoredTyped, Stored, Removed, Owed, KeptVersioned

LEMMA BeginEffect ==
    ASSUME StoredTyped, RestTyped, Asked, Owed, NEW r \in Requests,
           NEW b \in Buckets \cup {NoBucket}, NEW us \in SUBSET Uploads,
           NEW op \in {"create", "versioning", "notification", "put", "part",
                       "batch", "complete"},
           op # "part" => b \in Buckets,
           op \in {"part", "complete"} => us # {},
           Begin(r, op, b, us)
    PROVE  Effect
<1>1. waiting' = [waiting EXCEPT ![r] = [op |-> op, bucket |-> b, upload |-> us]]
    BY DEF Begin
<1>2. [op |-> op, bucket |-> b, upload |-> us] \in Request
    BY DEF Request
<1>3. waiting' \in [Requests -> Request] /\ Asked'
    BY <1>1, <1>2 DEF RestTyped, Asked
<1>4. UNCHANGED <<Stored, status, rule, wiped, uploads, answered>>
    BY DEF Begin, Configured, Multiparts
<1>5. QED
    BY <1>3, <1>4, KeptRest DEF Effect, RestTyped

LEMMA CreateBucketEffect ==
    ASSUME StoredTyped, RestTyped, Asked, Owed, NEW r \in Requests, CreateBucket(r)
    PROVE  Effect
<1> DEFINE b == Bucket(r)
<1>1. /\ waiting[r].op = "create" /\ b \in Buckets
      /\ waiting' \in [Requests -> Request] /\ Asked'
      /\ UNCHANGED <<next, queue, kept, uploads, answered>>
    BY FinishTyped DEF CreateBucket, Finish, Bucket, Asked, Multiparts
<1>2. CASE UNCHANGED <<Configured, objects>>
    BY <1>1, <1>2, KeptRest DEF Effect, RestTyped, Configured, Stored
<1>3. PICK c \in Buckets : c = Bucket(r)
    BY <1>1
<1>4. CASE /\ status' = [status EXCEPT ![c] = "Disabled"]
           /\ rule' = [rule EXCEPT ![c] = FALSE]
           /\ objects' = [objects EXCEPT ![c] = [k \in Keys |-> {}]]
           /\ wiped' = IF Exists(c) THEN wiped \cup {c} ELSE wiped
    <2>1. StoredTyped'
        BY <1>1, <1>4 DEF StoredTyped, Lists
    <2>2. RestTyped'
        BY <1>1, <1>4 DEF RestTyped, Versioning
    <2>3. \A x \in kept : x.bucket \notin wiped' => x.bucket # c
        BY <1>4 DEF Owed, KeptVersioned, Exists
    <2>4. \A x \in kept : x.bucket \in Buckets /\ x.key \in Keys
        BY DEF StoredTyped, KeptOnes
    <2>5. \A d \in Buckets : d # c => status'[d] = status[d] /\ objects'[d] = objects[d]
        BY <1>4 DEF RestTyped, StoredTyped
    <2>6. objects'[c] = [k \in Keys |-> {}] /\ wiped \subseteq wiped'
        BY <1>4 DEF StoredTyped
    <2>7. Removed
        BY <1>1, <2>3, <2>4, <2>5, <2>6 DEF Removed, Owed, KeptVersioned
    <2>8. QED
        BY <1>1, <2>1, <2>2, <2>7 DEF Effect
<1>5. QED
    BY <1>2, <1>3, <1>4 DEF CreateBucket

LEMMA PutVersioningEffect ==
    ASSUME StoredTyped, RestTyped, Asked, Owed, NEW r \in Requests,
           PutVersioning(r) \/ PutNotification(r)
    PROVE  Effect
<1>1. /\ waiting' \in [Requests -> Request] /\ Asked' /\ Bucket(r) \in Buckets
      /\ UNCHANGED <<Stored, wiped, uploads, answered>>
    BY FinishTyped DEF PutVersioning, PutNotification, Finish, Bucket, Asked, Multiparts
<1>2. PICK b \in Buckets : b = Bucket(r)
    BY <1>1
<1>3. /\ \/ UNCHANGED status
         \/ \E v \in {"Enabled", "Suspended"} : status' = [status EXCEPT ![b] = v]
      /\ UNCHANGED rule \/ \E on \in BOOLEAN : rule' = [rule EXCEPT ![b] = on]
    BY <1>2 DEF PutVersioning, PutNotification
<1>4. RestTyped'
    BY <1>1, <1>3 DEF RestTyped, Versioning
<1>5. StoredTyped' /\ \A x \in kept : x.bucket \in Buckets
    BY <1>1 DEF StoredTyped, Stored, KeptOnes
<1>6. \A c \in Buckets : status'[c] = status[c] \/ status'[c] \in {"Enabled", "Suspended"}
    BY <1>3 DEF RestTyped
<1>7. Removed
    BY <1>1, <1>5, <1>6 DEF Removed, Stored, Owed, KeptVersioned
<1>8. QED
    BY <1>1, <1>4, <1>5, <1>7 DEF Effect

LEMMA PutObjectEffect ==
    ASSUME StoredTyped, RestTyped, Asked, Owed, load \in Loads, NEW r \in Requests,
           PutObject(r)
    PROVE  Effect
<1>1. /\ waiting' \in [Requests -> Request] /\ Asked' /\ Bucket(r) \in Buckets
      /\ UNCHANGED <<Configured, Multiparts>>
    BY FinishTyped DEF PutObject, Finish, Bucket, Asked
<1>2. RestTyped' /\ UNCHANGED <<status, wiped>>
    BY <1>1 DEF RestTyped, Configured, Multiparts
<1>3. CASE UNCHANGED Stored
    BY <1>1, <1>2, <1>3, KeptRest DEF Effect
<1>4. ASSUME NEW k \in load.keys, NEW size \in Sizes, WriteObject(Bucket(r), k, size)
      PROVE  Effect
    <2>1. k \in Keys /\ size \in Nat
        BY LoadTyped, S3Assumption
    <2>2. StoredTyped' /\ Added(Bucket(r), {k})
        BY <1>1, <1>4, <2>1, WriteAdds
    <2>3. QED
        BY <1>1, <1>2, <2>1, <2>2 DEF Effect
<1>5. QED
    BY <1>3, <1>4 DEF PutObject

LEMMA UploadPartEffect ==
    ASSUME StoredTyped, RestTyped, Asked, Owed, NEW r \in Requests, UploadPart(r)
    PROVE  Effect
<1>1. /\ waiting' \in [Requests -> Request] /\ Asked' /\ Upload(r) \in Uploads
      /\ UNCHANGED <<Configured, Stored, answered>>
    BY FinishTyped DEF UploadPart, Finish, Upload, Asked, RestTyped, Request
<1>2. PICK u \in Uploads : u = Upload(r)
    BY <1>1
<1>3. PICK p \in Parts : \/ uploads' = uploads
                          \/ uploads' = [uploads EXCEPT ![u].parts = @ \cup {p}]
    BY <1>2 DEF UploadPart
<1>4. uploads[u] \in Multi
    BY DEF RestTyped
<1>5. [uploads[u] EXCEPT !.parts = @ \cup {p}] \in Multi
    BY <1>4 DEF Multi
<1>6. uploads' \in [Uploads -> Multi]
    BY <1>3, <1>5 DEF RestTyped
<1>7. RestTyped'
    BY <1>1, <1>6 DEF RestTyped, Configured
<1>8. QED
    BY <1>1, <1>7, KeptRest DEF Effect, Configured

\* What every request that writes one version has in common.
LEMMA WriteEffect ==
    ASSUME StoredTyped, RestTyped, RestTyped', Asked', UNCHANGED <<status, wiped>>,
           NEW b \in Buckets, NEW k \in Keys, NEW size \in Nat, WriteObject(b, k, size)
    PROVE  Effect
<1>1. StoredTyped' /\ Added(b, {k})
    BY WriteAdds
<1>2. QED
    BY <1>1 DEF Effect

LEMMA CompleteEffect ==
    ASSUME StoredTyped, RestTyped, Asked, Owed, load \in Loads, NEW r \in Requests,
           CompleteMultipartUpload(r)
    PROVE  Effect
<1>1. /\ waiting' \in [Requests -> Request] /\ Asked' /\ UNCHANGED Configured
      /\ Upload(r) \in Uploads /\ Bucket(r) \in Buckets
    BY FinishTyped DEF CompleteMultipartUpload, Finish, Upload, Bucket, Asked, RestTyped,
                       Request
<1>2. PICK u \in Uploads : u = Upload(r)
    BY <1>1
<1>3. uploads[u] \in Multi
    BY DEF RestTyped
<1>4. PICK k \in load.keys, named \in SUBSET Parts :
        LET size == Cardinality(IF named \cap uploads[u].parts = {} THEN uploads[u].parts
                                ELSE named \cap uploads[u].parts)
        IN  \/ /\ WriteObject(Bucket(r), k, size)
               /\ uploads' = [uploads EXCEPT ![u].state = "gone"]
               /\ answered' = IF uploads[u].state = "open"
                              THEN [answered EXCEPT ![u] = @ + 1] ELSE answered
            \/ UNCHANGED <<Stored, Multiparts>>
    BY <1>2 DEF CompleteMultipartUpload
<1>5. CASE UNCHANGED <<Stored, Multiparts>>
    BY <1>1, <1>5, KeptRest DEF Effect, RestTyped, Configured, Multiparts
<1>6. ASSUME NEW parts \in SUBSET Parts, WriteObject(Bucket(r), k, Cardinality(parts)),
             uploads' = [uploads EXCEPT ![u].state = "gone"],
             answered' = IF uploads[u].state = "open"
                         THEN [answered EXCEPT ![u] = @ + 1] ELSE answered
      PROVE  Effect
    <2>1. k \in Keys /\ Cardinality(parts) \in Nat
        BY <1>4, LoadTyped, FS_Subset, FS_CardinalityType, S3Assumption
    <2>2. uploads' \in [Uploads -> Multi]
        BY <1>3, <1>6 DEF RestTyped, Multi
    <2>3. answered' \in [Uploads -> Nat]
        BY <1>6 DEF RestTyped
    <2>4. RestTyped'
        BY <1>1, <2>2, <2>3 DEF RestTyped, Configured
    <2>5. QED
        BY <1>1, <1>6, <2>1, <2>4, WriteEffect DEF Configured
<1>7. QED
    BY <1>3, <1>4, <1>5, <1>6 DEF Multi

LEMMA DeleteObjectsEffect ==
    ASSUME StoredTyped, RestTyped, Asked, Owed, load \in Loads, NEW r \in Requests,
           DeleteObjects(r)
    PROVE  Effect
<1>1. /\ waiting' \in [Requests -> Request] /\ Asked' /\ Bucket(r) \in Buckets
      /\ UNCHANGED <<Configured, Multiparts>>
    BY FinishTyped DEF DeleteObjects, Finish, Bucket, Asked
<1>2. RestTyped' /\ UNCHANGED <<status, wiped>>
    BY <1>1 DEF RestTyped, Configured, Multiparts
<1>3. PICK b \in Buckets : b = Bucket(r)
    BY <1>1
<1>4. PICK ks \in SUBSET Keys :
        \/ /\ VersioningStatus(b) = "Disabled" \/ ks = {}
           /\ objects' = [objects EXCEPT ![b] =
                            [k \in Keys |-> IF k \in ks THEN {} ELSE @[k]]]
           /\ UNCHANGED <<next, queue, kept>>
        \/ Mark(b, ks)
    BY <1>3, LoadTyped DEF DeleteObjects
<1>5. CASE Mark(b, ks)
    BY <1>1, <1>2, <1>5, MarkAdds DEF Effect
<1>6. CASE /\ VersioningStatus(b) = "Disabled" \/ ks = {}
           /\ objects' = [objects EXCEPT ![b] =
                            [k \in Keys |-> IF k \in ks THEN {} ELSE @[k]]]
           /\ UNCHANGED <<next, queue, kept>>
    <2>1. StoredTyped'
        BY <1>6 DEF StoredTyped, Lists
    <2>2. \A c \in Buckets, j \in Keys : objects'[c][j] \subseteq objects[c][j]
        BY <1>6 DEF StoredTyped
    <2>3. \A x \in kept : x.bucket \in Buckets /\ x.key \in Keys
        BY DEF StoredTyped, KeptOnes
    <2>4. \A x \in kept : x.bucket \notin wiped =>
             objects'[x.bucket][x.key] = objects[x.bucket][x.key]
        <3>1. SUFFICES ASSUME NEW x \in kept, x.bucket \notin wiped
                       PROVE  objects'[x.bucket][x.key] = objects[x.bucket][x.key]
            OBVIOUS
        <3>2. x.bucket = b => ks = {}
            BY <1>6, <3>1 DEF Owed, KeptVersioned, VersioningStatus, Exists
        <3>3. QED
            BY <1>6, <2>3, <3>1, <3>2 DEF StoredTyped
    <2>5. Removed
        BY <1>2, <1>6, <2>2, <2>3, <2>4 DEF Removed, Owed, KeptVersioned
    <2>6. QED
        BY <1>1, <1>2, <2>1, <2>5 DEF Effect
<1>7. QED
    BY <1>4, <1>5, <1>6

----------------------------------------------------------------------------
(* Requests of one step leave those that wait alone. *)

LEMMA StillAsked ==
    ASSUME Asked, waiting' = waiting
    PROVE  Asked'
BY DEF Asked

LEMMA DeleteBucketEffect ==
    ASSUME StoredTyped, RestTyped, Asked, Owed, NEW b \in Buckets, DeleteBucket(b)
    PROVE  Effect
<1>1. /\ status' = [status EXCEPT ![b] = "absent"] /\ rule' = [rule EXCEPT ![b] = FALSE]
      /\ UNCHANGED <<wiped, waiting, objects, next, queue, kept, uploads, answered>>
      /\ \A k \in Keys : objects[b][k] = {}
    BY DEF DeleteBucket, Stored, Multiparts
<1>2. RestTyped' /\ StoredTyped' /\ Asked'
    BY <1>1, StillAsked DEF RestTyped, StoredTyped
<1>3. \A x \in kept : x.bucket \notin wiped => x.bucket # b
    BY <1>1 DEF Owed, VersionsKept, StoredTyped, KeptOnes
<1>4. Removed
    BY <1>1, <1>3 DEF Removed, Owed, KeptVersioned, StoredTyped, KeptOnes, RestTyped
<1>5. QED
    BY <1>2, <1>4 DEF Effect

LEMMA DeleteObjectEffect ==
    ASSUME StoredTyped, RestTyped, Asked, Owed, NEW b \in Buckets, NEW k \in Keys,
           DeleteObject(b, k)
    PROVE  Effect
<1>1. UNCHANGED <<waiting, status, rule, wiped, uploads, answered>>
    BY DEF DeleteObject, Configured, Multiparts
<1>2. RestTyped' /\ Asked'
    BY <1>1, StillAsked DEF RestTyped
<1>3. CASE Mark(b, {k})
    BY <1>1, <1>2, <1>3, MarkAdds DEF Effect
<1>4. CASE /\ status[b] = "Disabled"
           /\ objects' = [objects EXCEPT ![b][k] = {}]
           /\ UNCHANGED <<next, queue, kept>>
    <2>1. StoredTyped'
        BY <1>4 DEF StoredTyped, Lists
    <2>2. \A x \in kept : x.bucket \notin wiped => x.bucket # b
        BY <1>4 DEF Owed, KeptVersioned
    <2>3. \A c \in Buckets, j \in Keys :
             /\ objects'[c][j] \subseteq objects[c][j]
             /\ c # b => objects'[c][j] = objects[c][j]
        BY <1>4 DEF StoredTyped
    <2>4. Removed
        BY <1>1, <1>4, <2>2, <2>3 DEF Removed, Owed, KeptVersioned, StoredTyped, KeptOnes
    <2>5. QED
        BY <1>2, <2>1, <2>4 DEF Effect
<1>5. QED
    BY <1>3, <1>4 DEF DeleteObject

LEMMA DeleteVersionEffect ==
    ASSUME StoredTyped, RestTyped, Asked, Owed, NEW b \in Buckets, NEW k \in Keys,
           DeleteVersion(b, k)
    PROVE  Effect
<1>1. UNCHANGED <<waiting, status, rule, wiped, uploads, answered, next, queue>>
    BY DEF DeleteVersion, Configured, Multiparts
<1>2. RestTyped' /\ Asked'
    BY <1>1, StillAsked DEF RestTyped
<1>3. PICK v \in objects[b][k] :
        /\ objects' = [objects EXCEPT ![b][k] =
                         @ \ (IF v.named THEN {v} ELSE Nulls(objects[b][k]))]
        /\ kept' = IF v.named
                   THEN kept \ [bucket : {b}, key : {k}, stamp : {v.stamp}]
                   ELSE kept
    BY DEF DeleteVersion
<1> DEFINE gone == IF v.named THEN {v} ELSE Nulls(objects[b][k])
<1>4. StoredTyped'
    BY <1>1, <1>3 DEF StoredTyped, Lists
<1>5. \A c \in Buckets, j \in Keys :
         /\ objects'[c][j] \subseteq objects[c][j]
         /\ c # b \/ j # k => objects'[c][j] = objects[c][j]
         /\ \A w \in objects[c][j] : w \notin objects'[c][j] => c = b /\ j = k /\ w \in gone
    BY <1>3 DEF StoredTyped
<1>6. ASSUME NEW x \in kept', x.bucket \notin wiped, NEW w \in objects[x.bucket][x.key],
             w.named, w.stamp = x.stamp
      PROVE  w \in objects'[x.bucket][x.key]
    <2>1. x \in kept /\ x \in KeptOnes
        BY <1>3 DEF StoredTyped
    <2>2. SUFFICES ASSUME w \notin objects'[x.bucket][x.key] PROVE FALSE
        OBVIOUS
    <2>3. x.bucket = b /\ x.key = k /\ w \in gone
        BY <1>5, <1>6, <2>1, <2>2 DEF KeptOnes
    <2>4. v.named /\ w = v
        BY <1>3, <1>6, <2>3 DEF Nulls
    <2>5. x \in [bucket : {b}, key : {k}, stamp : {v.stamp}]
        BY <1>6, <2>1, <2>3, <2>4 DEF KeptOnes
    <2>6. QED
        BY <1>3, <2>4, <2>5
<1>7. kept' \subseteq kept
    BY <1>3
<1>8. Removed
    BY <1>1, <1>5, <1>6, <1>7 DEF Removed, Owed, KeptVersioned, StoredTyped, KeptOnes
<1>9. QED
    BY <1>2, <1>4, <1>8 DEF Effect

LEMMA CopyObjectEffect ==
    ASSUME StoredTyped, RestTyped, Asked, Owed, NEW b \in Buckets, NEW k \in Keys,
           NEW from \in Buckets, NEW key \in Keys, CopyObject(b, k, from, key)
    PROVE  Effect
<1>1. UNCHANGED <<waiting, status, rule, wiped, uploads, answered>>
    BY DEF CopyObject, Configured, Multiparts
<1>2. RestTyped' /\ Asked'
    BY <1>1, StillAsked DEF RestTyped
<1>3. PICK v \in objects[from][key] : WriteObject(b, k, v.size)
    BY DEF CopyObject
<1>4. v.size \in Nat
    BY DEF StoredTyped, Lists, Version
<1>5. QED
    BY <1>1, <1>2, <1>3, <1>4, WriteEffect

LEMMA UploadsEffect ==
    ASSUME StoredTyped, RestTyped, Asked, Owed, NEW b \in Buckets, NEW u \in Uploads,
           CreateMultipartUpload(b, u) \/ AbortMultipartUpload(b, u)
    PROVE  Effect
<1>1. UNCHANGED <<waiting, status, rule, wiped, answered, Stored>>
    BY DEF CreateMultipartUpload, AbortMultipartUpload, Configured
<1>2. uploads' \in [Uploads -> Multi]
    BY DEF CreateMultipartUpload, AbortMultipartUpload, RestTyped, Multi
<1>3. RestTyped' /\ Asked'
    BY <1>1, <1>2, StillAsked DEF RestTyped
<1>4. QED
    BY <1>1, <1>3, KeptRest DEF Effect

LEMMA ListingEffect ==
    ASSUME StoredTyped, RestTyped, Asked, Owed,
           UNCHANGED <<waiting, Stored, Configured, Multiparts>>
    PROVE  Effect
<1>1. RestTyped' /\ Asked' /\ UNCHANGED <<Stored, status, wiped>>
    BY StillAsked DEF RestTyped, Configured, Multiparts
<1>2. QED
    BY <1>1, KeptRest DEF Effect

LEMMA ReadingEffect ==
    ASSUME StoredTyped, RestTyped, Asked, Owed, load \in Loads, NEW r \in Requests,
           Reading(r)
    PROVE  Effect
<1>1. CASE CreateBucket(r)
    BY <1>1, CreateBucketEffect
<1>2. CASE PutVersioning(r) \/ PutNotification(r)
    BY <1>2, PutVersioningEffect
<1>3. CASE PutObject(r)
    BY <1>3, PutObjectEffect
<1>4. CASE UploadPart(r)
    BY <1>4, UploadPartEffect
<1>5. CASE CompleteMultipartUpload(r)
    BY <1>5, CompleteEffect
<1>6. CASE DeleteObjects(r)
    BY <1>6, DeleteObjectsEffect
<1>7. ASSUME NEW b \in load.buckets, BeginBucket(r, b)
      PROVE  Effect
    <2>1. b \in Buckets
        BY LoadTyped
    <2>2. PICK op \in {"create", "versioning", "notification", "put", "batch"} :
             Begin(r, op, b, {})
        BY <1>7 DEF BeginBucket
    <2>3. QED
        BY <2>1, <2>2, BeginEffect
<1>8. ASSUME NEW b \in load.buckets, NEW u \in load.uploads, BeginUpload(r, b, u)
      PROVE  Effect
    <2>1. b \in Buckets /\ {u} \in SUBSET Uploads /\ {u} # {}
        BY LoadTyped
    <2>2. CASE Begin(r, "part", NoBucket, {u})
        BY <2>1, <2>2, BeginEffect
    <2>3. CASE Begin(r, "complete", b, {u})
        BY <2>1, <2>3, BeginEffect
    <2>4. QED
        BY <1>8, <2>2, <2>3 DEF BeginUpload
<1>9. QED
    BY <1>1, <1>2, <1>3, <1>4, <1>5, <1>6, <1>7, <1>8 DEF Reading

LEMMA AtOnceEffect ==
    ASSUME StoredTyped, RestTyped, Asked, Owed, load \in Loads, NEW b \in load.buckets,
           AtOnce(b)
    PROVE  Effect
<1>1. b \in Buckets
    BY LoadTyped
<1>2. CASE DeleteBucket(b)
    BY <1>1, <1>2, DeleteBucketEffect
<1>3. ASSUME NEW k \in load.keys, DeleteObject(b, k) \/ DeleteVersion(b, k)
      PROVE  Effect
    BY <1>1, <1>3, LoadTyped, DeleteObjectEffect, DeleteVersionEffect
<1>4. ASSUME NEW from \in load.buckets, NEW k \in load.keys, NEW key \in load.keys,
             CopyObject(b, k, from, key)
      PROVE  Effect
    BY <1>1, <1>4, LoadTyped, CopyObjectEffect
<1>5. ASSUME NEW u \in load.uploads,
             CreateMultipartUpload(b, u) \/ AbortMultipartUpload(b, u)
      PROVE  Effect
    BY <1>1, <1>5, LoadTyped, UploadsEffect
<1>6. QED
    BY <1>2, <1>3, <1>4, <1>5 DEF AtOnce

\* Every step, and no step, has one of the effects.
LEMMA StepEffect ==
    ASSUME Typed, Owed, [Next]_vars
    PROVE  Effect
<1>1. load \in Loads /\ StoredTyped /\ RestTyped /\ Asked
    BY TypeParts DEF Typed
<1>2. CASE \E r \in Requests : Reading(r)
    BY <1>1, <1>2, ReadingEffect
<1>3. CASE \E b \in load.buckets : AtOnce(b)
    BY <1>1, <1>3, AtOnceEffect
<1>4. CASE Listing
    BY <1>1, <1>4, ListingEffect DEF Listing, StartListing, ListPage, EndListing
<1>5. CASE UNCHANGED vars
    BY <1>1, <1>5, ListingEffect DEF vars, Stored, Configured, Multiparts
<1>6. QED
    BY <1>2, <1>3, <1>4, <1>5 DEF Next

----------------------------------------------------------------------------
(* The invariants about versions, from the effects. *)

LEMMA AddedKeeps ==
    ASSUME StoredTyped, RestTyped, StoredTyped', Slots, Owed, NamedAnnounced,
           NEW b \in Buckets, NEW ks \in SUBSET Keys, Added(b, ks),
           UNCHANGED <<status, wiped>>
    PROVE  Slots' /\ Owed' /\ NamedAnnounced'
<1>1. /\ next \in Nat /\ next' = next + 1 /\ kept' = kept \cup Named(b, ks)
      /\ \A c \in Buckets, j \in Keys : c # b \/ j \notin ks => objects'[c][j] = objects[c][j]
    BY S3Assumption DEF Added, Stamps
<1>2. \A c \in Buckets, k \in Keys : \A v \in objects[c][k] :
         v.slot \in Nat /\ v.stamp \in Nat /\ v.slot <= v.stamp /\ v.stamp < next
         /\ (v.named => v.slot = v.stamp)
    BY S3Assumption DEF Slots, StoredTyped, Lists, Version, Stamps
<1>3. ASSUME NEW k \in ks
      PROVE  \E n \in objects'[b][k] :
               /\ n.stamp = next /\ (n.named <=> VersioningStatus(b) = "Enabled")
               /\ n.slot <= next /\ (n.named => n.slot = next)
               /\ \A w \in objects'[b][k] \ {n} : w \in objects[b][k]
               /\ VersioningStatus(b) # "Disabled" =>
                     {w \in objects[b][k] : w.named} \subseteq objects'[b][k]
    <2>1. k \in Keys
        OBVIOUS
    <2>2. PICK n \in objects'[b][k] :
             /\ n.stamp = next /\ (n.named <=> VersioningStatus(b) = "Enabled")
             /\ n.slot = next \/ (~n.named /\ \E o \in objects[b][k] : n.slot = o.slot)
             /\ \A w \in objects'[b][k] \ {n} : w \in objects[b][k]
             /\ VersioningStatus(b) # "Disabled" =>
                   {w \in objects[b][k] : w.named} \subseteq objects'[b][k]
        BY DEF Added
    <2>3. n.slot <= next /\ (n.named => n.slot = next)
        BY <1>1, <1>2, <2>1, <2>2
    <2>4. QED
        BY <2>2, <2>3
<1>4. Slots'
    <2>1. SUFFICES ASSUME NEW c \in Buckets, NEW k \in Keys, NEW v \in objects'[c][k]
                   PROVE  v.slot <= v.stamp /\ v.stamp < next' /\ (v.named => v.slot = v.stamp)
        BY DEF Slots
    <2>2. CASE v \in objects[c][k]
        BY <1>1, <1>2, <2>2
    <2>3. CASE c = b /\ k \in ks
        BY <1>1, <1>2, <1>3, <2>1, <2>2, <2>3
    <2>4. QED
        BY <1>1, <2>1, <2>2, <2>3
<1>5. KeptVersioned'
    BY <1>1 DEF Owed, KeptVersioned, Named, VersioningStatus, Exists
<1>6. VersionsKept'
    <2>1. SUFFICES ASSUME NEW x \in kept', x.bucket \notin wiped
                   PROVE  \E v \in objects'[x.bucket][x.key] : v.named /\ v.stamp = x.stamp
        BY DEF VersionsKept
    <2>2. x \in KeptOnes
        BY DEF StoredTyped
    <2>3. CASE x \in kept
        <3>1. PICK v \in objects[x.bucket][x.key] : v.named /\ v.stamp = x.stamp
            BY <2>1, <2>3 DEF Owed, VersionsKept
        <3>2. x.bucket = b => VersioningStatus(b) # "Disabled"
            BY <2>1, <2>3 DEF Owed, KeptVersioned, VersioningStatus, Exists
        <3>3. v \in objects'[x.bucket][x.key]
            BY <1>1, <1>3, <2>2, <3>1, <3>2 DEF KeptOnes
        <3>4. QED
            BY <3>1, <3>3
    <2>4. CASE x \in Named(b, ks)
        BY <1>3, <2>4 DEF Named
    <2>5. QED
        BY <1>1, <2>3, <2>4
<1>7. NamedAnnounced'
    <2>1. CASE queue' = queue
        BY <2>1 DEF NamedAnnounced
    <2>2. ASSUME NEW k \in ks,
                 queue' = queue \cup {[wrote |-> next, says |-> Front(objects'[b][k]).stamp,
                                       named |-> VersioningStatus(b) = "Enabled"]}
          PROVE  NamedAnnounced'
        <3>1. k \in Keys /\ objects'[b][k] \in Lists
            BY DEF StoredTyped
        <3>2. ASSUME VersioningStatus(b) = "Enabled"
              PROVE  Front(objects'[b][k]).stamp = next
            <4>1. PICK n \in objects'[b][k] :
                     /\ n.stamp = next /\ n.slot = next
                     /\ \A w \in objects'[b][k] \ {n} : w \in objects[b][k]
                BY <1>3, <3>2
            <4>2. /\ Front(objects'[b][k]) \in objects'[b][k]
                  /\ \A w \in objects'[b][k] : w.slot <= Front(objects'[b][k]).slot
                BY <3>1, <4>1, FrontIsFirst
            <4>3. \A w \in objects[b][k] : w.slot < next
                BY <1>1, <1>2, <3>1
            <4>4. PICK f \in objects'[b][k] : f = Front(objects'[b][k])
                BY <4>2
            <4>5. f \notin objects[b][k]
                BY <1>1, <1>2, <3>1, <4>1, <4>2, <4>3, <4>4
            <4>6. QED
                BY <4>1, <4>4, <4>5
        <3>3. SUFFICES ASSUME NEW m \in queue', m \notin queue, m.named
                       PROVE  m.says = m.wrote
            BY DEF NamedAnnounced
        <3> DEFINE enabled == VersioningStatus(b) = "Enabled"
                   msg == [wrote |-> next, says |-> Front(objects'[b][k]).stamp,
                           named |-> enabled]
        <3>4. m.wrote = next /\ m.says = Front(objects'[b][k]).stamp /\ m.named = enabled
            <4>1. queue' = queue \cup {msg}
                BY <2>2
            <4>2. m = msg
                <5> HIDE DEF msg
                <5>1. QED
                    BY <3>3, <4>1
            <4>3. /\ msg.wrote = next /\ msg.says = Front(objects'[b][k]).stamp
                  /\ msg.named = enabled
                <5> HIDE DEF enabled
                <5>1. QED
                    OBVIOUS
            <4>4. QED
                BY <4>2, <4>3
        <3>5. QED
            BY <3>2, <3>3, <3>4
    <2>3. QED
        BY <2>1, <2>2 DEF Added
<1>8. QED
    BY <1>4, <1>5, <1>6 , <1>7 DEF Owed

LEMMA VersionsStep ==
    ASSUME Typed, Slots, Owed, NamedAnnounced, [Next]_vars
    PROVE  Slots' /\ Owed' /\ NamedAnnounced'
<1>1. Effect /\ StoredTyped /\ RestTyped
    BY StepEffect, TypeParts DEF Typed
<1>2. CASE Removed
    <2>1. Slots' /\ NamedAnnounced'
        BY <1>2 DEF Removed, Slots, NamedAnnounced
    <2>2. KeptVersioned'
        BY <1>2 DEF Removed, KeptVersioned
    <2>3. VersionsKept'
        BY <1>2 DEF Removed, VersionsKept, Owed
    <2>4. QED
        BY <2>1, <2>2, <2>3 DEF Owed
<1>3. CASE \E b \in Buckets, ks \in SUBSET Keys : Added(b, ks) /\ UNCHANGED <<status, wiped>>
    BY <1>1, <1>3, AddedKeeps DEF Effect
<1>4. QED
    BY <1>1, <1>2, <1>3 DEF Effect

----------------------------------------------------------------------------
(* The stored bytes. *)

LEMMA InBytes ==
    \A y : y \in StoredBytes <=>
        \E b \in Buckets, k \in Keys : \E v \in objects[b][k] : \E i \in 1 .. v.size :
            y = <<b, k, v, i>>
<1> DEFINE bytes(b, k) == UNION {{<<b, k, v, i>> : i \in 1 .. v.size} : v \in objects[b][k]}
<1>1. \A y : \A b \in Buckets, k \in Keys :
        y \in bytes(b, k) <=>
            \E v \in objects[b][k] : \E i \in 1 .. v.size : y = <<b, k, v, i>>
    OBVIOUS
<1>2. StoredBytes = UNION {bytes(b, k) : b \in Buckets, k \in Keys}
    BY DEF StoredBytes
<1>3. QED
    <2> HIDE DEF bytes
    <2>1. QED
        BY <1>1, <1>2

LEMMA InBytesPrime ==
    \A y : y \in StoredBytes' <=>
        \E b \in Buckets, k \in Keys : \E v \in objects'[b][k] : \E i \in 1 .. v.size :
            y = <<b, k, v, i>>
<1> DEFINE bytes(b, k) == UNION {{<<b, k, v, i>> : i \in 1 .. v.size} : v \in objects'[b][k]}
<1>1. \A y : \A b \in Buckets, k \in Keys :
        y \in bytes(b, k) <=>
            \E v \in objects'[b][k] : \E i \in 1 .. v.size : y = <<b, k, v, i>>
    OBVIOUS
<1>2. StoredBytes' = UNION {bytes(b, k) : b \in Buckets, k \in Keys}
    BY DEF StoredBytes
<1>3. QED
    <2> HIDE DEF bytes
    <2>1. QED
        BY <1>1, <1>2

\* The bytes of one version.
LEMMA BytesOfOne ==
    ASSUME NEW b, NEW k, NEW v, v.size \in Nat
    PROVE  LET own == {<<b, k, v, i>> : i \in 1 .. v.size}
           IN  IsFiniteSet(own) /\ Cardinality(own) \in Nat /\ Cardinality(own) <= v.size
<1> DEFINE own == {<<b, k, v, i>> : i \in 1 .. v.size}
           f == [i \in 1 .. v.size |-> <<b, k, v, i>>]
<1>1. IsFiniteSet(1 .. v.size) /\ Cardinality(1 .. v.size) = v.size
    <2>1. IsFiniteSet(1 .. v.size)
          /\ Cardinality(1 .. v.size) = IF 1 > v.size THEN 0 ELSE v.size - 1 + 1
        BY FS_Interval
    <2>2. QED
        BY <2>1
<1>2. f \in Surjection(1 .. v.size, own)
    BY DEF Surjection
<1>3. IsFiniteSet(own) /\ Cardinality(own) <= Cardinality(1 .. v.size)
    <2> HIDE DEF f, own
    <2>1. QED
        BY <1>1, <1>2, FS_Surjection
<1>4. QED
    BY <1>1, <1>3, FS_CardinalityType

\* Two finite sets have together no more members than one and the other.
LEMMA UnionBound ==
    ASSUME NEW S, NEW T, IsFiniteSet(S), IsFiniteSet(T)
    PROVE  /\ IsFiniteSet(S \cup T)
           /\ Cardinality(S \cup T) <= Cardinality(S) + Cardinality(T)
<1>1. IsFiniteSet(S \cap T) /\ Cardinality(S \cap T) \in Nat
    BY FS_Subset, FS_CardinalityType
<1>2. Cardinality(S) \in Nat /\ Cardinality(T) \in Nat
    BY FS_CardinalityType
<1>3. /\ IsFiniteSet(S \cup T)
      /\ Cardinality(S \cup T) =
            Cardinality(S) + Cardinality(T) - Cardinality(S \cap T)
    BY FS_Union
<1>4. QED
    BY <1>1, <1>2, <1>3

\* Without a new version that has bytes, the bytes are among those before.
LEMMA NoneBought ==
    ASSUME Sized, \A b \in Buckets, k \in Keys : \A v \in objects'[b][k] :
                     v.size = 0 \/ v \in objects[b][k]
    PROVE  Sized'
<1>1. StoredBytes' \in SUBSET StoredBytes
    <2>1. SUFFICES ASSUME NEW y \in StoredBytes' PROVE y \in StoredBytes
        OBVIOUS
    <2>2. PICK b \in Buckets, k \in Keys : \E v \in objects'[b][k] : \E i \in 1 .. v.size :
                y = <<b, k, v, i>>
        BY <2>1, InBytesPrime
    <2>3. PICK v \in objects'[b][k] : \E i \in 1 .. v.size : y = <<b, k, v, i>>
        BY <2>2
    <2>4. v.size # 0
        BY <2>3
    <2>5. v \in objects[b][k]
        BY <2>4
    <2>6. QED
        BY <2>3, <2>5, InBytes
<1>2. /\ IsFiniteSet(StoredBytes') /\ Cardinality(StoredBytes') <= Cardinality(StoredBytes)
      /\ Cardinality(StoredBytes') \in Nat /\ Cardinality(StoredBytes) \in Nat
    BY <1>1, FS_Subset, FS_CardinalityType DEF Sized
<1>3. QED
    BY <1>2, S3Assumption DEF Sized, WithinCap, TotalBytes

\* One new version that fits leaves the bytes within the cap, whatever it
\* replaces.
LEMMA OneBought ==
    ASSUME Sized, NEW b \in Buckets, NEW k \in Keys, NEW n \in objects'[b][k],
           n.size \in Nat, Fits(n.size),
           \A c \in Buckets, j \in Keys : \A v \in objects'[c][j] :
               v \in objects[c][j] \/ (c = b /\ j = k /\ v = n)
    PROVE  Sized'
<1> DEFINE own == {<<b, k, n, i>> : i \in 1 .. n.size}
<1>1. IsFiniteSet(own) /\ Cardinality(own) \in Nat /\ Cardinality(own) <= n.size
    BY BytesOfOne
<1>2. StoredBytes' \in SUBSET (StoredBytes \cup own)
    <2>1. SUFFICES ASSUME NEW y \in StoredBytes' PROVE y \in StoredBytes \cup own
        OBVIOUS
    <2>2. PICK c \in Buckets, j \in Keys : \E v \in objects'[c][j] : \E i \in 1 .. v.size :
                y = <<c, j, v, i>>
        BY <2>1, InBytesPrime
    <2>3. PICK v \in objects'[c][j] : \E i \in 1 .. v.size : y = <<c, j, v, i>>
        BY <2>2
    <2>4. CASE v \in objects[c][j]
        BY <2>3, <2>4, InBytes
    <2>5. CASE c = b /\ j = k /\ v = n
        BY <2>3, <2>5
    <2>6. QED
        BY <2>4, <2>5
<1> HIDE DEF own
<1>3. /\ IsFiniteSet(StoredBytes \cup own)
      /\ Cardinality(StoredBytes \cup own) <= Cardinality(StoredBytes) + Cardinality(own)
    BY <1>1, UnionBound DEF Sized
<1>4. /\ IsFiniteSet(StoredBytes')
      /\ Cardinality(StoredBytes') <= Cardinality(StoredBytes \cup own)
    BY <1>2, <1>3, FS_Subset
<1>5. /\ Cardinality(StoredBytes') \in Nat /\ Cardinality(StoredBytes) \in Nat
      /\ Cardinality(StoredBytes \cup own) \in Nat
    BY <1>3, <1>4, FS_CardinalityType DEF Sized
<1>6. Cardinality(StoredBytes) + n.size <= Cap
    BY DEF Fits, TotalBytes
<1>7. QED
    BY <1>1, <1>3, <1>4, <1>5, <1>6, S3Assumption DEF Sized, WithinCap, TotalBytes

LEMMA SizedInit == Init => Sized
<1> SUFFICES ASSUME Init PROVE Sized
    OBVIOUS
<1>1. \A b \in Buckets, k \in Keys : objects[b][k] = {}
    BY DEF Init
<1>2. StoredBytes = {}
    BY <1>1, InBytes
<1>3. QED
    BY <1>2, FS_EmptySet, S3Assumption DEF Sized, WithinCap, TotalBytes

LEMMA SizedStep ==
    ASSUME Typed, Owed, Sized, [Next]_vars
    PROVE  Sized'
<1>1. Effect /\ StoredTyped'
    BY StepEffect DEF Effect
<1>2. CASE Removed
    BY <1>2, NoneBought DEF Removed
<1>3. ASSUME NEW b \in Buckets, NEW ks \in SUBSET Keys, Added(b, ks)
      PROVE  Sized'
    <2>1. \A c \in Buckets, j \in Keys : c # b \/ j \notin ks => objects'[c][j] = objects[c][j]
        BY <1>3 DEF Added
    <2>2. ASSUME NEW k \in ks
          PROVE  \E n \in objects'[b][k] :
                    /\ n.size = 0 \/ (ks = {k} /\ Fits(n.size))
                    /\ \A w \in objects'[b][k] \ {n} : w \in objects[b][k]
        BY <1>3, <2>2 DEF Added
    <2>3. CASE \E k \in ks : \E n \in objects'[b][k] :
                  /\ ks = {k} /\ Fits(n.size)
                  /\ \A w \in objects'[b][k] \ {n} : w \in objects[b][k]
        <3>0. PICK k \in ks : \E n \in objects'[b][k] :
                  /\ ks = {k} /\ Fits(n.size)
                  /\ \A w \in objects'[b][k] \ {n} : w \in objects[b][k]
            BY <2>3
        <3>1. PICK n \in objects'[b][k] :
                  /\ ks = {k} /\ Fits(n.size)
                  /\ \A w \in objects'[b][k] \ {n} : w \in objects[b][k]
            BY <3>0
        <3>2. n.size \in Nat
            BY <1>1, <3>1 DEF StoredTyped, Lists, Version
        <3>3. \A c \in Buckets, j \in Keys : \A v \in objects'[c][j] :
                 v \in objects[c][j] \/ (c = b /\ j = k /\ v = n)
            BY <2>1, <3>1
        <3>4. k \in Keys /\ Fits(n.size)
            BY <3>1
        <3>5. QED
            BY <3>2, <3>3, <3>4, OneBought
    <2>4. CASE \A k \in ks : \E n \in objects'[b][k] :
                  n.size = 0 /\ \A w \in objects'[b][k] \ {n} : w \in objects[b][k]
        <3>1. \A c \in Buckets, j \in Keys : \A v \in objects'[c][j] :
                 v.size = 0 \/ v \in objects[c][j]
            BY <2>1, <2>4
        <3>2. QED
            BY <3>1, NoneBought
    <2>5. QED
        BY <2>2, <2>3, <2>4
<1>4. QED
    BY <1>1, <1>2, <1>3 DEF Effect

----------------------------------------------------------------------------
(* Which buckets exist. *)

\* A bucket comes into being empty and within the quota, and its versioning
\* is only set while it exists.
StatusChange ==
    \/ status' = status
    \/ \E c \in Buckets :
          /\ Cardinality({b \in Buckets : Exists(b)}) < Quota
          /\ status' = [status EXCEPT ![c] = "Disabled"]
          /\ objects' = [objects EXCEPT ![c] = [k \in Keys |-> {}]]
    \/ \E c \in Buckets, v \in {"Enabled", "Suspended", "absent"} :
          Exists(c) /\ status' = [status EXCEPT ![c] = v]

LEMMA StatusStep ==
    ASSUME Typed, [Next]_vars
    PROVE  StatusChange
<1>1. load \in Loads /\ RestTyped /\ Asked
    BY TypeParts DEF Typed
<1>2. ASSUME NEW r \in Requests, CreateBucket(r)
      PROVE  StatusChange
    BY <1>1, <1>2 DEF CreateBucket, StatusChange, Asked, Finish, Bucket, Configured
<1>3. ASSUME NEW r \in Requests, PutVersioning(r)
      PROVE  StatusChange
    <2>1. Bucket(r) \in Buckets
        BY <1>1, <1>3 DEF PutVersioning, Asked, Finish, Bucket
    <2>2. PICK v \in {"Enabled", "Suspended"} :
            status' = IF Exists(Bucket(r)) THEN [status EXCEPT ![Bucket(r)] = v] ELSE status
        BY <1>3 DEF PutVersioning
    <2>3. QED
        BY <2>1, <2>2 DEF StatusChange
<1>4. ASSUME NEW b \in load.buckets, DeleteBucket(b)
      PROVE  StatusChange
    BY <1>1, <1>4, LoadTyped DEF DeleteBucket, StatusChange
<1>5. ASSUME NEW r \in Requests, Reading(r), ~CreateBucket(r), ~PutVersioning(r)
      PROVE  StatusChange
    BY <1>5 DEF Reading, PutNotification, PutObject, UploadPart, CompleteMultipartUpload,
                DeleteObjects, BeginBucket, BeginUpload, Begin, Configured, StatusChange
<1>6. ASSUME NEW b \in load.buckets, AtOnce(b), ~DeleteBucket(b)
      PROVE  StatusChange
    BY <1>6 DEF AtOnce, DeleteObject, DeleteVersion, CopyObject, CreateMultipartUpload,
                AbortMultipartUpload, Configured, StatusChange
<1>7. CASE Listing \/ UNCHANGED vars
    BY <1>7 DEF Listing, StartListing, ListPage, EndListing, Configured, StatusChange, vars
<1>8. QED
    BY <1>2, <1>3, <1>4, <1>5, <1>6, <1>7 DEF Next

LEMMA QuotaStep ==
    ASSUME Typed, WithinQuota, [Next]_vars
    PROVE  WithinQuota'
<1> DEFINE those == {b \in Buckets : Exists(b)}
<1>1. StatusChange /\ RestTyped
    BY StatusStep, TypeParts DEF Typed
<1>2. IsFiniteSet(those) /\ Cardinality(those) \in Nat
    BY FS_Subset, FS_CardinalityType, S3Assumption
<1>3. CASE those' \subseteq those
    <2>1. Cardinality(those') <= Cardinality(those) /\ Cardinality(those') \in Nat
        BY <1>2, <1>3, FS_Subset, FS_CardinalityType
    <2>2. QED
        BY <1>2, <2>1, S3Assumption DEF WithinQuota
<1>4. ASSUME NEW c \in Buckets, Cardinality(those) < Quota, those' = those \cup {c}
      PROVE  WithinQuota'
    <2>1. /\ IsFiniteSet(those \cup {c})
          /\ Cardinality(those \cup {c}) <= Cardinality(those) + 1
          /\ Cardinality(those \cup {c}) \in Nat
        <3> HIDE DEF those
        <3>1. QED
            BY <1>2, FS_AddElement, FS_CardinalityType
    <2>2. Cardinality(those') <= Quota
        <3> HIDE DEF those
        <3>1. QED
            BY <1>2, <1>4, <2>1, S3Assumption
    <2>3. QED
        BY <2>2 DEF WithinQuota
<1>5. CASE status' = status
    BY <1>3, <1>5 DEF Exists
<1>6. CASE \E c \in Buckets : /\ Cardinality(those) < Quota
                              /\ status' = [status EXCEPT ![c] = "Disabled"]
    BY <1>1, <1>4, <1>6 DEF Exists, RestTyped
<1>7. CASE \E c \in Buckets, v \in {"Enabled", "Suspended", "absent"} :
             Exists(c) /\ status' = [status EXCEPT ![c] = v]
    BY <1>1, <1>3, <1>7 DEF Exists, RestTyped
<1>8. QED
    BY <1>1, <1>5, <1>6, <1>7 DEF StatusChange

LEMMA AnsweredStep ==
    ASSUME Typed, AnsweredIsGone, [Next]_vars
    PROVE  AnsweredIsGone'
<1>1. load \in Loads /\ RestTyped /\ Asked
    BY TypeParts DEF Typed
<1>2. CASE UNCHANGED Multiparts
    BY <1>2 DEF AnsweredIsGone, Multiparts
<1>3. ASSUME NEW r \in Requests, UploadPart(r)
      PROVE  AnsweredIsGone'
    <2>1. \A u \in Uploads : uploads'[u].state = uploads[u].state
        BY <1>1, <1>3 DEF UploadPart, RestTyped, Multi
    <2>2. QED
        BY <1>3, <2>1 DEF UploadPart, AnsweredIsGone
<1>4. ASSUME NEW r \in Requests, CompleteMultipartUpload(r), ~UNCHANGED Multiparts
      PROVE  AnsweredIsGone'
    <2>1. Upload(r) \in Uploads
        BY <1>1, <1>4 DEF CompleteMultipartUpload, Finish, Upload, Asked, RestTyped, Request
    <2>2. PICK u \in Uploads : u = Upload(r)
        BY <2>1
    <2>3. /\ uploads' = [uploads EXCEPT ![u].state = "gone"]
          /\ answered' = IF uploads[u].state = "open"
                         THEN [answered EXCEPT ![u] = @ + 1] ELSE answered
        BY <1>4, <2>2 DEF CompleteMultipartUpload
    <2>4. uploads'[u].state = "gone"
        BY <1>1, <2>3 DEF RestTyped, Multi
    <2>5. \A w \in Uploads : w # u => uploads'[w] = uploads[w] /\ answered'[w] = answered[w]
        BY <1>1, <2>3 DEF RestTyped
    <2>6. answered'[u] <= 1
        BY <1>1, <2>3 DEF AnsweredIsGone, RestTyped
    <2>7. QED
        BY <2>4, <2>5, <2>6 DEF AnsweredIsGone
<1>5. ASSUME NEW b \in load.buckets, NEW u \in load.uploads,
             CreateMultipartUpload(b, u) \/ AbortMultipartUpload(b, u)
      PROVE  AnsweredIsGone'
    <2>1. u \in Uploads /\ answered' = answered /\ uploads[u].state # "gone"
        BY <1>1, <1>5, LoadTyped DEF CreateMultipartUpload, AbortMultipartUpload
    <2>2. \A w \in Uploads : w # u => uploads'[w] = uploads[w]
        BY <1>1, <1>5 DEF CreateMultipartUpload, AbortMultipartUpload, RestTyped
    <2>3. QED
        BY <2>1, <2>2 DEF AnsweredIsGone
<1>6. ASSUME NEW r \in Requests, Reading(r), ~UploadPart(r), ~CompleteMultipartUpload(r)
      PROVE  UNCHANGED Multiparts
    BY <1>6 DEF Reading, CreateBucket, PutVersioning, PutNotification, PutObject,
                DeleteObjects, BeginBucket, BeginUpload, Begin, Multiparts
<1>7. ASSUME NEW b \in load.buckets, AtOnce(b),
             \A u \in load.uploads : ~CreateMultipartUpload(b, u) /\ ~AbortMultipartUpload(b, u)
      PROVE  UNCHANGED Multiparts
    BY <1>7 DEF AtOnce, DeleteBucket, DeleteObject, DeleteVersion, CopyObject, Multiparts
<1>8. CASE Listing \/ UNCHANGED vars
    BY <1>2, <1>8 DEF Listing, StartListing, ListPage, EndListing, Multiparts, vars
<1>9. QED
    BY <1>2, <1>3, <1>4, <1>5, <1>6, <1>7, <1>8 DEF Next

----------------------------------------------------------------------------
(* The walk through a listing. *)

\* A finite set of numbers has a greatest one: a smallest subset without one
\* would lose an element and then have one.
LEMMA GreatestNumber ==
    ASSUME NEW S \in SUBSET Nat, IsFiniteSet(S), S # {}
    PROVE  Max(S) \in S /\ \A y \in S : y <= Max(S)
<1> DEFINE without == {A \in SUBSET S : A # {} /\ \A x \in A : \E y \in A : x < y}
           sizes == {Cardinality(A) : A \in without}
<1>1. \A A \in SUBSET S : IsFiniteSet(A) /\ Cardinality(A) \in Nat
    BY FS_Subset, FS_CardinalityType
<1>2. without = {}
    <2>1. SUFFICES ASSUME without # {} PROVE FALSE
        OBVIOUS
    <2>2. sizes \in SUBSET Nat /\ sizes # {}
        BY <1>1, <2>1
    <2>3. PICK d \in sizes : \A e \in sizes : d <= e
        BY <2>2, LeastNumber, Zenon
    <2>4. PICK A \in without : Cardinality(A) = d
        BY <2>3
    <2>5. PICK x \in A : TRUE
        BY <2>4
    <2>6. Cardinality(A \ {x}) < d /\ A \ {x} \in SUBSET S
        BY <1>1, <2>4, <2>5, FS_RemoveElement
    <2>7. A \ {x} \notin without
        <3>1. SUFFICES ASSUME A \ {x} \in without PROVE FALSE
            OBVIOUS
        <3>2. Cardinality(A \ {x}) \in sizes /\ sizes \in SUBSET Nat
            BY <2>2, <3>1
        <3>3. d \in Nat /\ Cardinality(A \ {x}) \in Nat /\ d <= Cardinality(A \ {x})
            BY <2>3, <3>2
        <3>4. QED
            BY <2>6, <3>3
    <2>8. PICK y \in A : x < y
        BY <2>4, <2>5
    <2>9. PICK m \in A \ {x} : \A z \in A \ {x} : ~(m < z)
        BY <2>5, <2>6, <2>7, <2>8
    <2>10. PICK z \in A : m < z
        BY <2>4, <2>9
    <2>11. QED
        BY <2>4, <2>5, <2>8, <2>9, <2>10
<1>3. PICK x \in S : \A y \in S : ~(x < y)
    BY <1>2
<1>4. \E m \in S : \A y \in S : m >= y
    BY <1>3
<1>5. QED
    BY <1>4 DEF Max

\* A page that is not the last shows keys after the marker, and leaves out no
\* key before its last.
LEMMA PageFull ==
    ASSUME NEW b \in Buckets, NEW after \in Nat, NEW n \in Pages, Truncated(b, after, n)
    PROVE  /\ Page(b, after, n) \subseteq Keys
           /\ Max(Page(b, after, n)) \in Page(b, after, n)
           /\ \A k \in Visible(b) : k > after /\ k <= Max(Page(b, after, n))
                  => k \in Page(b, after, n)
<1> DEFINE keys == {k \in Visible(b) : k > after}
           page == Page(b, after, n)
           below(k) == {j \in keys : j < k}
<1>1. keys \subseteq Keys /\ keys \in SUBSET Nat /\ n \in Nat \ {0}
    BY S3Assumption DEF Visible
<1>2. IsFiniteSet(keys)
    BY <1>1, FS_Subset, S3Assumption
<1>3. \A k : IsFiniteSet(below(k)) /\ Cardinality(below(k)) \in Nat
    BY <1>2, FS_Subset, FS_CardinalityType
<1>4. page = {k \in keys : Cardinality(below(k)) < n}
    BY DEF Page
<1>5. keys # {}
    BY <1>1, FS_EmptySet DEF Truncated
<1>6. PICK d \in keys : \A e \in keys : d <= e
    BY <1>1, <1>5, LeastNumber, Zenon
<1>7. below(d) = {}
    BY <1>1, <1>6
<1>8. d \in page
    BY <1>1, <1>4, <1>6, <1>7, FS_EmptySet
<1>9. page \in SUBSET Nat /\ IsFiniteSet(page)
    BY <1>1, <1>2, <1>4, FS_Subset
<1>10. Max(page) \in page /\ \A y \in page : y <= Max(page)
    <2> HIDE DEF page
    <2>1. QED
        BY <1>8, <1>9, GreatestNumber
<1>11. ASSUME NEW k \in keys, k <= Max(page)
       PROVE  k \in page
    <2>1. Max(page) \in Nat /\ Max(page) \in keys /\ Cardinality(below(Max(page))) < n
        BY <1>1, <1>4, <1>10
    <2> DEFINE m == Max(page)
    <2>2. m \in Nat /\ Cardinality(below(m)) < n /\ k <= m
        BY <1>11, <2>1
    <2> HIDE DEF m
    <2>3. below(k) \in SUBSET below(m)
        BY <1>1, <2>2
    <2>4. Cardinality(below(k)) <= Cardinality(below(m))
        <3> HIDE DEF below
        <3>1. QED
            BY <1>3, <2>3, FS_Subset
    <2>5. Cardinality(below(k)) < n
        BY <1>1, <1>3, <2>2, <2>4
    <2>6. QED
        BY <1>4, <2>5
<1>12. QED
    BY <1>1, <1>4, <1>10, <1>11

\* The last page shows every key after the marker.
LEMMA LastPage ==
    ASSUME NEW b \in Buckets, NEW after \in Nat, NEW n \in Pages, ~Truncated(b, after, n)
    PROVE  \A k \in Visible(b) : k > after => k \in Page(b, after, n)
<1> DEFINE keys == {k \in Visible(b) : k > after}
           below(k) == {j \in keys : j < k}
<1>1. keys \subseteq Keys /\ keys \in SUBSET Nat /\ n \in Nat
    BY S3Assumption DEF Visible
<1>2. IsFiniteSet(keys) /\ Cardinality(keys) \in Nat
    BY <1>1, FS_Subset, FS_CardinalityType, S3Assumption
<1>3. Cardinality(keys) <= n
    BY <1>1, <1>2 DEF Truncated
<1>4. ASSUME NEW k \in keys
      PROVE  Cardinality(below(k)) < n
    <2>1. below(k) \in SUBSET keys /\ below(k) # keys
        BY <1>1
    <2>2. /\ Cardinality(below(k)) <= Cardinality(keys)
          /\ Cardinality(below(k)) \in Nat /\ Cardinality(below(k)) # Cardinality(keys)
        <3> HIDE DEF below, keys
        <3>1. QED
            BY <1>2, <2>1, FS_Subset, FS_CardinalityType
    <2>3. QED
        BY <1>1, <1>2, <1>3, <2>2
<1>5. QED
    BY <1>4 DEF Page

LEMMA WatchStep ==
    ASSUME listing \in Walk, Walked, Watch
    PROVE  /\ listing' \in Walk /\ Walked' /\ listing'.bucket = listing.bucket
<1>1. PICK steady \in SUBSET Keys :
        /\ steady = {k \in listing.steady : Shown(objects'[listing.bucket][k])}
        /\ listing' = [listing EXCEPT !.steady = steady]
    BY DEF Watch, Walk
<1>2. /\ listing' \in Walk /\ listing'.bucket = listing.bucket
      /\ listing'.after = listing.after /\ listing'.seen = listing.seen
      /\ listing'.steady = steady
    BY <1>1 DEF Walk
<1>3. listing.bucket = NoBucket => listing' = listing
    BY <1>1 DEF Walked, NoListing
<1>4. \A k \in steady : k \in Visible(listing.bucket)' /\ (k <= listing.after => k \in listing.seen)
    BY <1>1 DEF Walked, Visible
<1>5. QED
    BY <1>2, <1>3, <1>4 DEF Walked

LEMMA ListPageStep ==
    ASSUME Typed, Walked, NEW n \in load.pages, ListPage(n)
    PROVE  /\ listing' \in Walk /\ Walked' /\ listing'.bucket # NoBucket
<1>1. listing \in Walk /\ n \in Pages /\ objects' = objects
    BY TypeParts, LoadTyped DEF Typed, ListPage, Stored
<1>2. PICK b \in Buckets, after \in Nat :
        b = listing.bucket /\ after = listing.after /\ Truncated(b, after, n)
    BY <1>1, S3Assumption DEF ListPage, Walk
<1> DEFINE page == Page(b, after, n)
<1>3. /\ page \subseteq Keys /\ Max(page) \in page
      /\ \A k \in Visible(b) : k > after /\ k <= Max(page) => k \in page
    BY <1>1, <1>2, PageFull
<1>4. listing' = [listing EXCEPT !.after = Max(page), !.seen = @ \cup page]
    BY <1>2 DEF ListPage
<1>5. Visible(b)' = Visible(b) /\ b # NoBucket
    BY <1>1, <1>2 DEF Visible, ListPage
<1> HIDE DEF page
<1>6. /\ listing' \in Walk /\ listing'.bucket = b /\ listing'.after = Max(page)
      /\ listing'.seen = listing.seen \cup page /\ listing'.steady = listing.steady
    BY <1>1, <1>2, <1>3, <1>4 DEF Walk
<1>7. \A k \in listing.steady : k \in Visible(b) /\ k \in Nat /\ (k <= after => k \in listing.seen)
    BY <1>1, <1>2, S3Assumption DEF Walked, Walk
<1>8. \A k \in listing.steady : k <= Max(page) => k \in listing.seen \cup page
    BY <1>3, <1>7
<1>9. QED
    BY <1>2, <1>5, <1>6, <1>7, <1>8 DEF Walked

LEMMA ListingStep ==
    ASSUME Typed, Walked, [Next]_vars
    PROVE  listing' \in Walk /\ Walked'
<1>1. listing \in Walk /\ load \in Loads
    BY TypeParts DEF Typed
<1>2. CASE Watch
    BY <1>1, <1>2, WatchStep
<1>3. ASSUME NEW b \in load.buckets, StartListing(b)
      PROVE  listing' \in Walk /\ Walked'
    <2>1. /\ b \in Buckets /\ b # NoBucket /\ objects' = objects
          /\ listing' = [NoListing EXCEPT !.bucket = b, !.steady = Visible(b)]
        BY <1>1, <1>3, LoadTyped, S3Assumption DEF StartListing, Stored
    <2>2. Visible(b)' = Visible(b) /\ Visible(b) \subseteq Keys
        BY <2>1 DEF Visible
    <2>3. /\ listing'.bucket = b /\ listing'.after = 0 /\ listing'.seen = {}
          /\ listing'.steady = Visible(b) /\ listing' \in Walk
        BY <2>1, <2>2 DEF NoListing, Walk
    <2>4. \A k \in Visible(b) : ~(k <= 0)
        <3>1. Visible(b) \subseteq Nat \ {0}
            BY <2>2, S3Assumption
        <3>2. QED
            BY <3>1
    <2>5. QED
        BY <2>1, <2>2, <2>3, <2>4 DEF Walked
<1>4. ASSUME NEW n \in load.pages, ListPage(n)
      PROVE  listing' \in Walk /\ Walked'
    BY <1>4, ListPageStep
<1>5. ASSUME NEW n \in load.pages, EndListing(n)
      PROVE  listing' \in Walk /\ Walked'
    BY <1>5 DEF EndListing, NoListing, Walk, Walked
<1>6. CASE UNCHANGED vars
    BY <1>1, <1>6 DEF vars, Walked, Visible
<1>7. QED
    BY <1>2, <1>3, <1>4, <1>5, <1>6 DEF Next, Listing

\* A walk only ends with its last page.
LEMMA EndStep ==
    ASSUME Typed, Walked, [Next]_vars, listing.bucket # NoBucket,
           listing'.bucket = NoBucket, Exists(listing.bucket)
    PROVE  \E n \in Pages : listing.steady \subseteq
               listing.seen \cup Page(listing.bucket, listing.after, n)
<1>1. listing \in Walk /\ load \in Loads /\ listing.bucket \in Buckets
    BY TypeParts DEF Typed, Walk
<1>2. ~Watch
    BY <1>1, WatchStep
<1>3. \A n \in load.pages : ~ListPage(n)
    BY ListPageStep
<1>4. \A b \in load.buckets : ~StartListing(b)
    BY DEF StartListing
<1>5. PICK n \in load.pages : EndListing(n)
    BY <1>2, <1>3, <1>4 DEF Next, Listing, vars
<1>6. n \in Pages /\ ~Truncated(listing.bucket, listing.after, n) /\ listing.after \in Nat
    <2>1. PICK after \in Keys \cup {0} : after = listing.after
        BY <1>1 DEF Walk
    <2>2. n \in Pages
        BY <1>1, <1>5, LoadTyped
    <2>3. listing.after \in Nat
        <3>1. \A k \in Keys : k \in Nat
            BY S3Assumption
        <3>2. after = 0 \/ after \in Keys
            BY <2>1
        <3>3. after \in Nat
            BY <3>1, <3>2
        <3>4. QED
            BY <2>1, <3>3
    <2>4. ~Truncated(listing.bucket, listing.after, n)
        BY <1>5 DEF EndListing
    <2>5. QED
        BY <2>2, <2>3, <2>4
<1>7. \A k \in Visible(listing.bucket) :
         k > listing.after => k \in Page(listing.bucket, listing.after, n)
    BY <1>1, <1>6, LastPage
<1>8. \A k \in listing.steady :
         k \in Nat /\ k \in Visible(listing.bucket) /\ (k <= listing.after => k \in listing.seen)
    BY <1>1, S3Assumption DEF Walked, Walk
<1>9. ASSUME NEW k \in listing.steady
      PROVE  k \in listing.seen \/ k \in Page(listing.bucket, listing.after, n)
    <2>1. k \in Nat /\ k \in Visible(listing.bucket)
        BY <1>8
    <2>2. CASE k <= listing.after
        BY <1>8, <2>2
    <2>3. CASE k > listing.after
        BY <1>7, <2>1, <2>3
    <2>4. QED
        BY <1>6, <2>1, <2>2, <2>3
<1>10. QED
    BY <1>6, <1>9

----------------------------------------------------------------------------
\* The state before the first request.
LEMMA InitIInv == Init => IInv
<1> SUFFICES ASSUME Init PROVE IInv
    OBVIOUS
<1>1. StoredTyped
    BY S3Assumption DEF Init, StoredTyped, Lists
<1>2. RestTyped
    BY S3Assumption DEF Init, RestTyped, Multi, Request, Idle, Versioning
<1>3. listing \in Walk
    BY DEF Init, NoListing, Walk
<1>4. Typed
    BY <1>1, <1>2, <1>3, TypeParts DEF Typed, Asked, Init, Idle
<1>5. Slots /\ KeptVersioned /\ VersionsKept /\ AnsweredIsGone /\ NamedAnnounced /\ Walked
    BY DEF Init, Slots, KeptVersioned, VersionsKept, AnsweredIsGone, NamedAnnounced, Walked,
           NoListing
<1>6. {b \in Buckets : Exists(b)} = {}
    BY DEF Init, Exists
<1>7. WithinQuota
    BY <1>6, FS_EmptySet, S3Assumption DEF WithinQuota
<1>8. QED
    BY <1>4, <1>5, <1>7, SizedInit DEF IInv

LEMMA StepIInv == IInv /\ [Next]_vars => IInv'
<1> SUFFICES ASSUME IInv, [Next]_vars PROVE IInv'
    OBVIOUS
<1>1. Slots' /\ Owed' /\ NamedAnnounced'
    BY VersionsStep DEF IInv, Owed
<1>2. AnsweredIsGone' /\ WithinQuota' /\ Walked' /\ listing' \in Walk
    BY AnsweredStep, QuotaStep, ListingStep DEF IInv
<1>3. StoredTyped' /\ RestTyped' /\ Asked'
    BY StepEffect DEF IInv, Owed, Effect
<1>4. load' \in Loads
    BY DEF IInv, Typed, TypeOK, Next, vars
<1>5. Typed'
    BY <1>2, <1>3, <1>4, TypeParts DEF Typed
<1>6. Sized'
    BY SizedStep DEF IInv, Owed
<1>7. QED
    BY <1>1, <1>2, <1>5, <1>6 DEF IInv, Owed

LEMMA Invariant == Spec => []IInv
BY InitIInv, StepIInv, PTL DEF Spec

\* Types, for any number of buckets, keys, uploads and requests in flight
\* (routes/aws_s3.py).
THEOREM TypeCorrect == Spec => []TypeOK
<1>1. IInv => TypeOK
    BY DEF IInv, Typed
<1>2. QED
    BY <1>1, Invariant, PTL

\* A version with an id of its own is only removed by that id, whatever the
\* requests in flight (the version lists of aws_s3.py:355-420).
THEOREM VersionsSurvive == Spec => []VersionsKept
<1>1. IInv => VersionsKept
    BY DEF IInv
<1>2. QED
    BY <1>1, Invariant, PTL

\* A GET returns the newest version that is left, unless that is a null version
\* (aws_s3.py:289-308).
THEOREM GetReturnsNewest == Spec => []CurrentIsNewest
<1>1. ASSUME IInv PROVE CurrentIsNewest
    <2> SUFFICES ASSUME NEW b \in Buckets, NEW k \in Keys, NEW v \in objects[b][k],
                        v.stamp > Front(objects[b][k]).stamp, v.named
                 PROVE  FALSE
        BY DEF CurrentIsNewest
    <2> DEFINE f == Front(objects[b][k])
    <2>1. \A w \in objects[b][k] :
             w.slot \in Nat /\ w.stamp \in Nat /\ w.slot <= w.stamp
             /\ (w.named => w.slot = w.stamp)
        BY <1>1, TypeParts, S3Assumption
           DEF IInv, Typed, Slots, StoredTyped, Lists, Version, Stamps
    <2>2. f \in objects[b][k] /\ v.slot <= f.slot
        <3>1. objects[b][k] \in Lists
            BY <1>1 DEF IInv, Typed, TypeOK, Lists
        <3> QED
            BY <3>1, FrontIsFirst
    <2> HIDE DEF f
    <2>3. QED
        BY <2>1, <2>2 DEF f
<1>2. QED
    BY <1>1, Invariant, PTL

\* The event of a write with an id names that version, and not one in front
\* of it.
THEOREM AnnouncedTruly == Spec => []NamedAnnounced
<1>1. IInv => NamedAnnounced
    BY DEF IInv
<1>2. QED
    BY <1>1, Invariant, PTL

\* An upload is answered as complete at most once, whatever completes or
\* aborts it while a complete waits for its body.
THEOREM CompletesOnce == Spec => []CompletedOnce
<1>1. ASSUME IInv PROVE CompletedOnce
    <2>1. \A u \in Uploads : answered[u] <= 1 /\ (uploads[u].state # "gone" => answered[u] = 0)
        BY <1>1 DEF IInv, AnsweredIsGone
    <2>2. QED
        BY <2>1 DEF CompletedOnce
<1>2. QED
    BY <1>1, Invariant, PTL

\* The bytes of all versions stay within the cap of the tier: each write checks
\* it after it waited, so requests cannot pass it together (_s3_write_object_version).
THEOREM CapIsKept == Spec => []WithinCap
<1>1. IInv => WithinCap
    BY DEF IInv, Sized
<1>2. QED
    BY <1>1, Invariant, PTL

\* The number of buckets a space may have, whoever creates them at once.
THEOREM QuotaHolds == Spec => []WithinQuota
<1>1. IInv => WithinQuota
    BY DEF IInv
<1>2. QED
    BY <1>1, Invariant, PTL

\* A new bucket holds nothing, though a PutObject may have stored an object
\* under its name after the last bucket of that name was deleted.
THEOREM BucketsStartEmpty == Spec => StartsEmpty
<1>1. ASSUME IInv, [Next]_vars
      PROVE  [\A b \in Buckets : ~Exists(b) /\ Exists(b)' =>
                  \A k \in Keys : objects'[b][k] = {}]_vars
    <2>1. StatusChange /\ RestTyped /\ StoredTyped
        BY <1>1, StatusStep, TypeParts DEF IInv, Typed
    <2>2. QED
        BY <2>1 DEF StatusChange, RestTyped, StoredTyped, Exists
<1>2. QED
    BY <1>1, Invariant, PTL DEF Spec, StartsEmpty

\* A listing that ends has shown every key that was there all along, whatever
\* happened between its pages and whatever max-keys its pages ask for.
THEOREM ListsAll == Spec => ListingComplete
<1>1. ASSUME IInv, [Next]_vars
      PROVE  [listing.bucket # NoBucket /\ listing'.bucket = NoBucket /\ Exists(listing.bucket)
               => \E n \in Pages : listing.steady \subseteq
                      listing.seen \cup Page(listing.bucket, listing.after, n)]_vars
    BY <1>1, EndStep DEF IInv
<1>2. QED
    BY <1>1, Invariant, PTL DEF Spec, ListingComplete
=============================================================================
