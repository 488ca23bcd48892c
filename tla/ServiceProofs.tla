--------------------------- MODULE ServiceProofs ---------------------------
(***************************************************************************)
(* Proofs about the services without workers of their own: Azure, Lambda   *)
(* and Pub/Sub, for any machines, names, topics, subscriptions, keys and   *)
(* bounds.                                                                 *)
(*                                                                         *)
(* Azure: Matched is not inductive: a record that names a container but    *)
(* says it is simulated would be deleted without its container.  Real says *)
(* that only a record with a suspect container is such a one.              *)
(*                                                                         *)
(* Lambda: a step keeps the file and the record of a function together     *)
(* only because the names, the records and what the event loop waits for   *)
(* fit: Fitting.                                                           *)
(*                                                                         *)
(* Pub/Sub: a delivery of any kind lets entries of one queue go and leases *)
(* or gives back others (Serve); what the queue says of each subscription  *)
(* (Sound) is kept by that, by a publish and by a queue that is emptied.   *)
(* The same view of the steps shows that a subscription is a Broker.       *)
(***************************************************************************)
EXTENDS Azure, Lambda, PubSub, TLAPS

-----------------------------------------------------------------------------
(* Azure. *)

Real ==
    \A k \in Stored :
        LET r == vm[k].runtime IN
        r.named # NoName /\ <<k, r.named>> \notin suspect =>
            r.status = "provisioned" /\ r.shown \in {"running", "stopped"}

IInv == TypeOK /\ Real /\ Matched

-----------------------------------------------------------------------------
LEMMA OverlayTyped ==
    ASSUME NEW r \in Runtimes, NEW b \in Runtimes
    PROVE  Overlay(r, b) \in Runtimes
BY DEF Overlay, Runtimes

\* A body without a runtime, and the one that is stored, change nothing.
LEMMA OverlayKeeps ==
    ASSUME NEW r \in Runtimes
    PROVE  /\ Overlay(r, Blank) = r
           /\ Overlay(Blank, r) = r
           /\ Overlay(r, r) = r
BY DEF Overlay, Runtimes, Blank

LEMMA BlankTyped == Blank \in Runtimes /\ Blank.named = NoName
BY DEF Blank, Runtimes, Statuses

\* What a launch returns, by how it ended.
LEMMA LaunchTyped ==
    ASSUME NEW r \in Runtimes, NEW s \in Spellings, NEW was \in Statuses,
           NEW l \in Launched(r, s, was)
    PROVE  /\ l.runtime \in Runtimes /\ l.box \in Statuses
           /\ l.ended \in {"kept", "done", "failed"}
           /\ l.ended = "kept" => r.named # NoName /\ l.runtime = r /\ l.box = was
           /\ l.ended = "failed" => l.runtime.named = NoName
           /\ l.ended = "done" =>
                 /\ l.runtime.named = s /\ l.runtime.status = "provisioned"
                 /\ l.runtime.shown = "running" /\ l.box = "running"
<1>1. CASE r.named # NoName
    BY <1>1 DEF Launched
<1>2. CASE r.named = NoName
    <2> DEFINE unnamed(st) == [status |-> st, named |-> NoName, shown |-> r.shown]
               made == [status |-> "provisioned", named |-> s, shown |-> "running"]
    <2>1. \/ l = [runtime |-> made, box |-> "running", ended |-> "done"]
          \/ \E st \in {"simulated", "launch_failed"}, b \in {was, "running", "stopped"} :
                l = [runtime |-> unnamed(st), box |-> b, ended |-> "failed"]
        BY <1>2, Zenon DEF Launched
    <2>2. /\ unnamed("simulated") \in Runtimes /\ unnamed("launch_failed") \in Runtimes
          /\ unnamed("simulated").named = NoName /\ unnamed("launch_failed").named = NoName
        BY DEF Runtimes
    <2>3. made \in Runtimes /\ made.named = s /\ made.status = "provisioned"
          /\ made.shown = "running"
        BY DEF Runtimes, Statuses
    <2> HIDE DEF unnamed, made
    <2>4. CASE l = [runtime |-> made, box |-> "running", ended |-> "done"]
        BY <2>3, <2>4 DEF Statuses
    <2>5. CASE \E st \in {"simulated", "launch_failed"}, b \in {was, "running", "stopped"} :
                   l = [runtime |-> unnamed(st), box |-> b, ended |-> "failed"]
        BY <2>2, <2>5 DEF Statuses
    <2> QED
        BY <2>1, <2>4, <2>5
<1> QED
    BY <1>1, <1>2

LEMMA InitIInv == Init => IInv
<1> SUFFICES ASSUME Init PROVE IInv
    OBVIOUS
<1>1. Stored = {} /\ DOMAIN vm = {}
    BY DEF Init, Stored
<1>2. TypeOK
    BY <1>1 DEF Init, TypeOK, Statuses
<1>3. Real
    BY <1>1 DEF Real
<1>4. Matched
    BY <1>1, AzureAssumption DEF Init, Matched, Named
<1> QED
    BY <1>2, <1>3, <1>4 DEF IInv

\* What the invariant says of one machine, and a step that leaves a machine alone.
RealOf(k) ==
    LET r == vm[k].runtime IN
    k \in Stored /\ r.named # NoName /\ <<k, r.named>> \notin suspect =>
        r.status = "provisioned" /\ r.shown \in {"running", "stopped"}
MatchedOf(k) ==
    \A s \in Spellings : <<k, s>> \notin suspect =>
        container[k][s] = IF Named(k) = s THEN vm[k].runtime.shown ELSE "none"

LEMMA AboutEach ==
    TypeOK => ((Real /\ Matched) <=> \A k \in VMs : RealOf(k) /\ MatchedOf(k))
BY DEF TypeOK, Real, Matched, RealOf, MatchedOf, Stored

LEMMA OthersKept ==
    ASSUME IInv, TypeOK', NEW k \in VMs, RealOf(k)', MatchedOf(k)',
           \A x \in VMs \ {k} : /\ x \in Stored' <=> x \in Stored
                                /\ x \in Stored => vm'[x] = vm[x]
                                /\ container'[x] = container[x]
                                /\ \A s \in Spellings :
                                      <<x, s>> \in suspect' <=> <<x, s>> \in suspect
    PROVE  IInv'
<1>1. ASSUME NEW x \in VMs \ {k} PROVE RealOf(x)' /\ MatchedOf(x)'
    <2>1. RealOf(x) /\ MatchedOf(x) /\ TypeOK
        BY AboutEach DEF IInv
    <2>2. x \in Stored => vm[x].runtime.named \in Spellings \cup {NoName}
        BY <2>1 DEF TypeOK, Stored, Runtimes
    <2>3. RealOf(x)'
        BY <2>1, <2>2 DEF RealOf
    <2>4. Named(x)' = Named(x) /\ (x \in Stored => vm'[x].runtime.shown = vm[x].runtime.shown)
        BY DEF Named
    <2>5. ASSUME NEW s \in Spellings, <<x, s>> \notin suspect'
          PROVE  container'[x][s] = IF Named(x) = s THEN vm'[x].runtime.shown ELSE "none"
        <3>1. Named(x) = s => x \in Stored
            BY AzureAssumption DEF Named
        <3> QED
            BY <2>1, <2>4, <2>5, <3>1 DEF MatchedOf
    <2>6. MatchedOf(x)'
        BY <2>4, <2>5 DEF MatchedOf
    <2> QED
        BY <2>3, <2>6
<1>2. (Real /\ Matched)'
    <2>1. \A x \in VMs : RealOf(x)' /\ MatchedOf(x)'
        BY <1>1
    <2> QED
        BY <2>1 DEF TypeOK, Real, Matched, RealOf, MatchedOf, Stored
<1> QED
    BY <1>2 DEF IInv

LEMMA StoreKept ==
    ASSUME IInv, NEW c \in Clients, Store(c)
    PROVE  IInv'
<1> DEFINE q == request[c]
           s == IdOf(q)
<1>1. q \in Requests
    BY DEF IInv, TypeOK, Store
<1>0. PICK k \in VMs : k = q.vm
    BY <1>1 DEF Requests
<1>2. k \in VMs /\ q.body \in Runtimes /\ q.id \in Spellings
    BY <1>1 DEF Requests
<1>3. k \in Stored => vm[k].runtime \in Runtimes /\ vm[k].id \in Spellings
    BY DEF IInv, TypeOK, Stored
<1>4. Upserted(q) \in Runtimes /\ s \in Spellings
    BY <1>0, <1>2, <1>3, BlankTyped, OverlayTyped DEF Upserted, IdOf, Patches
<1>5. PICK l \in Launched(Upserted(q), s, container[k][s]) :
          /\ vm' = [x \in Stored \cup {k} |->
                       IF x = k THEN [id |-> s, runtime |-> l.runtime] ELSE vm[x]]
          /\ container' = [container EXCEPT ![k][s] = l.box]
          /\ suspect' =
                (suspect \ (IF l.ended = "done" THEN {<<k, s>>} ELSE {}))
                \cup GivenUp(k, l.runtime)
                \cup (IF l.ended = "failed" THEN {<<k, s>>} ELSE {})
                \cup (IF l.ended = "kept" /\ Outdated(q) THEN {<<k, l.runtime.named>>}
                      ELSE {})
    BY <1>0 DEF Store
<1>6. container[k][s] \in Statuses
    BY <1>2, <1>4 DEF IInv, TypeOK
<1>7. /\ l.runtime \in Runtimes /\ l.box \in Statuses
      /\ l.ended \in {"kept", "done", "failed"}
      /\ l.ended = "kept" => /\ Upserted(q).named # NoName /\ l.runtime = Upserted(q)
                             /\ l.box = container[k][s]
      /\ l.ended = "failed" => l.runtime.named = NoName
      /\ l.ended = "done" =>
            /\ l.runtime.named = s /\ l.runtime.status = "provisioned"
            /\ l.runtime.shown = "running" /\ l.box = "running"
    <2> HIDE DEF q, s
    <2> QED BY <1>4, <1>6, LaunchTyped
<1>8. l.ended = "kept" /\ ~Outdated(q) => k \in Stored /\ l.runtime = vm[k].runtime
    <2> SUFFICES ASSUME l.ended = "kept", ~Outdated(q)
                 PROVE  k \in Stored /\ Upserted(q) = vm[k].runtime
        BY <1>7
    <2>1. CASE q.body = Blank
        <3>1. Patches(q)
            BY <2>1, <1>7, BlankTyped, OverlayKeeps DEF Upserted
        <3> QED BY <3>1, <2>1, <1>0, <1>3, OverlayKeeps DEF Upserted, Patches
    <2>2. CASE q.body # Blank
        BY <2>2, <1>0, <1>3, OverlayKeeps DEF Outdated, Upserted, Patches
    <2> QED BY <2>1, <2>2
<1>9. GivenUp(k, l.runtime) \subseteq {<<k, x>> : x \in Spellings}
      /\ \A x \in Spellings : Named(k) = x /\ l.runtime.named # x
            => <<k, x>> \in GivenUp(k, l.runtime)
    BY DEF GivenUp
<1> HIDE DEF q, s
<1>10. /\ Stored' = Stored \cup {k}
       /\ vm'[k].id = s /\ vm'[k].runtime = l.runtime
       /\ vm'[k] = [id |-> s, runtime |-> l.runtime]
    BY <1>2, <1>5 DEF Stored
<1>11. /\ container'[k][s] = l.box
       /\ \A x \in Spellings \ {s} : container'[k][x] = container[k][x]
       /\ container' \in [VMs -> [Spellings -> Statuses]]
       /\ \A x \in VMs \ {k} : container'[x] = container[x]
    BY <1>2, <1>4, <1>5, <1>7 DEF IInv, TypeOK
<1>12. \A x \in VMs \ {k} : /\ x \in Stored' <=> x \in Stored
                            /\ x \in Stored => vm'[x] = vm[x]
                            /\ container'[x] = container[x]
                            /\ \A y \in Spellings :
                                  <<x, y>> \in suspect' <=> <<x, y>> \in suspect
    <2>1. \A x \in VMs \ {k} : (x \in Stored' <=> x \in Stored)
                               /\ (x \in Stored => vm'[x] = vm[x])
        BY <1>5, <1>10
    <2>2. \A x \in VMs \ {k}, y \in Spellings : <<x, y>> \in suspect' <=> <<x, y>> \in suspect
        BY <1>5, <1>9
    <2> QED
        BY <2>1, <2>2, <1>11
<1>13. TypeOK'
    <2>1. \A x \in Stored' : vm'[x] \in [id : Spellings, runtime : Runtimes] /\ x \in VMs
        BY <1>2, <1>4, <1>7, <1>10, <1>12 DEF IInv, TypeOK, Stored
    <2>2. suspect' \subseteq VMs \X Spellings
        <3>1. l.ended = "kept" => l.runtime.named \in Spellings
            BY <1>7 DEF Runtimes
        <3> QED
            BY <1>2, <1>4, <1>5, <1>9, <3>1 DEF IInv, TypeOK
    <2>3. request' \in [Clients -> {Idle} \cup Requests]
        BY DEF Store, IInv, TypeOK
    <2> QED
        BY <2>1, <2>2, <2>3, <1>11 DEF TypeOK, Stored
<1>14. Named(k)' = l.runtime.named
    BY <1>10 DEF Named
<1>15. RealOf(k) /\ MatchedOf(k)
    BY <1>2, AboutEach DEF IInv
<1>16. RealOf(k)'
    <2> SUFFICES ASSUME l.runtime.named # NoName, <<k, l.runtime.named>> \notin suspect'
                 PROVE  /\ l.runtime.status = "provisioned"
                        /\ l.runtime.shown \in {"running", "stopped"}
        BY <1>10 DEF RealOf
    <2>1. CASE l.ended = "done"
        BY <2>1, <1>7
    <2>2. CASE l.ended = "kept"
        <3>1. ~Outdated(q) /\ <<k, l.runtime.named>> \notin suspect
            BY <2>2, <1>5
        <3>2. k \in Stored /\ l.runtime = vm[k].runtime
            BY <3>1, <2>2, <1>8
        <3> QED BY <3>1, <3>2, <1>15 DEF RealOf
    <2> QED BY <2>1, <2>2, <1>7
<1>17. ASSUME NEW x \in Spellings, <<k, x>> \notin suspect'
       PROVE  container'[k][x] = IF l.runtime.named = x THEN l.runtime.shown ELSE "none"
    <2>1. CASE x = s /\ l.ended = "done"
        BY <2>1, <1>7, <1>11
    <2>2. CASE ~(x = s /\ l.ended = "done")
        <3>1. <<k, x>> \notin suspect
            BY <2>2, <1>5, <1>17
        <3>2. l.ended = "failed" => x # s
            BY <1>5, <1>17
        <3>3. container'[k][x] = container[k][x]
            BY <2>2, <3>2, <1>7, <1>11
        <3>4. container[k][x] = IF Named(k) = x THEN vm[k].runtime.shown ELSE "none"
            BY <3>1, <1>15 DEF MatchedOf
        <3>5. CASE l.runtime.named = x
            <4>1. x # NoName
                BY AzureAssumption
            <4>2. l.ended = "kept"
                BY <3>5, <4>1, <2>2, <1>7
            <4>3. ~Outdated(q)
                BY <4>2, <3>5, <1>5, <1>17
            <4>4. k \in Stored /\ l.runtime = vm[k].runtime
                BY <4>2, <4>3, <1>8
            <4> QED BY <4>4, <3>3, <3>4, <3>5 DEF Named
        <3>6. CASE l.runtime.named # x
            BY <3>6, <3>3, <3>4, <1>5, <1>9, <1>17
        <3> QED BY <3>5, <3>6
    <2> QED BY <2>1, <2>2
<1>18. MatchedOf(k)'
    BY <1>10, <1>14, <1>17 DEF MatchedOf
<1> QED
    BY <1>2, <1>12, <1>13, <1>16, <1>18, OthersKept

LEMMA DeleteKept ==
    ASSUME IInv, NEW k \in VMs, Delete(k)
    PROVE  IInv'
<1> DEFINE r == vm[k].runtime
           s == r.named
<1>1. k \in Stored /\ Stored' = Stored \ {k} /\ \A x \in Stored' : vm'[x] = vm[x]
    BY DEF Delete, Stored
<1>2. r \in Runtimes /\ s \in Spellings \cup {NoName} /\ Named(k) = s
    BY <1>1 DEF IInv, TypeOK, Stored, Runtimes, Named
<1>3. RealOf(k) /\ MatchedOf(k)
    BY AboutEach DEF IInv
<1>4. container \in [VMs -> [Spellings -> Statuses]] /\ suspect \subseteq VMs \X Spellings
    BY DEF IInv, TypeOK
<1>5. \/ ~HasContainer(r) /\ UNCHANGED <<container, suspect>>
      \/ /\ HasContainer(r) /\ container' = [container EXCEPT ![k][s] = "none"]
         /\ suspect' = suspect \ {<<k, s>>}
      \/ /\ HasContainer(r)
         /\ \E b \in {"stopped", container[k][s]} : container' = [container EXCEPT ![k][s] = b]
         /\ suspect' = suspect \cup {<<k, s>>}
    BY DEF Delete
<1>6. HasContainer(r) => s \in Spellings
    BY <1>2 DEF HasContainer
<1> HIDE DEF r, s
<1>7. /\ container' \in [VMs -> [Spellings -> Statuses]] /\ suspect' \subseteq VMs \X Spellings
      /\ \A x \in VMs \ {k} : container'[x] = container[x]
      /\ \A x \in VMs \ {k}, y \in Spellings : <<x, y>> \in suspect' <=> <<x, y>> \in suspect
      /\ \A y \in Spellings \ {s} : /\ container'[k][y] = container[k][y]
                                    /\ <<k, y>> \in suspect' <=> <<k, y>> \in suspect
    <2>1. CASE ~HasContainer(r) /\ UNCHANGED <<container, suspect>>
        BY <2>1, <1>4
    <2>2. CASE /\ HasContainer(r) /\ container' = [container EXCEPT ![k][s] = "none"]
               /\ suspect' = suspect \ {<<k, s>>}
        BY <2>2, <1>4, <1>6 DEF Statuses
    <2>3. CASE /\ HasContainer(r)
               /\ \E b \in {"stopped", container[k][s]} :
                     container' = [container EXCEPT ![k][s] = b]
               /\ suspect' = suspect \cup {<<k, s>>}
        BY <2>3, <1>4, <1>6 DEF Statuses
    <2> QED
        BY <1>5, <2>1, <2>2, <2>3
<1>8. TypeOK'
    BY <1>1, <1>7 DEF Delete, IInv, TypeOK, Stored
<1>9. k \notin Stored' /\ Named(k)' = NoName
    BY <1>1 DEF Named
<1>10. ASSUME NEW y \in Spellings, <<k, y>> \notin suspect'
       PROVE  container'[k][y] = "none"
    <2>1. CASE y # s
        BY <2>1, <1>2, <1>3, <1>7, <1>10 DEF MatchedOf
    <2>2. CASE y = s
        <3>1. y # NoName
            BY AzureAssumption
        <3>2. HasContainer(r)
            <4> SUFFICES ASSUME ~HasContainer(r) PROVE FALSE
                OBVIOUS
            <4>1. <<k, s>> \notin suspect
                BY <1>5, <1>10, <2>2
            <4> QED
                BY <4>1, <3>1, <2>2, <1>1, <1>3 DEF RealOf, HasContainer, r, s
        <3>3. container' = [container EXCEPT ![k][s] = "none"]
            BY <3>2, <2>2, <1>5, <1>10
        <3> QED
            BY <3>3, <2>2, <1>4
    <2> QED BY <2>1, <2>2
<1>11. RealOf(k)'
    BY <1>9 DEF RealOf
<1>12. MatchedOf(k)'
    BY <1>9, <1>10, AzureAssumption DEF MatchedOf
<1> QED
    BY <1>1, <1>7, <1>8, <1>11, <1>12, OthersKept

LEMMA PowerKept ==
    ASSUME IInv, NEW k \in VMs, NEW status \in {"running", "stopped"}, Power(k, status)
    PROVE  IInv'
<1> DEFINE r == vm[k].runtime
           s == r.named
           shows == vm' = [vm EXCEPT ![k].runtime.shown = status]
<1>1. k \in Stored /\ vm[k] \in [id : Spellings, runtime : Runtimes]
    BY DEF Power, IInv, TypeOK, Stored
<1>2. r \in Runtimes /\ s \in Spellings \cup {NoName} /\ Named(k) = s
    BY <1>1 DEF Runtimes, Named
<1>3. RealOf(k) /\ MatchedOf(k)
    BY AboutEach DEF IInv
<1>4. container \in [VMs -> [Spellings -> Statuses]] /\ suspect \subseteq VMs \X Spellings
    BY DEF IInv, TypeOK
<1>5. shows => /\ Stored' = Stored
               /\ \A x \in Stored \ {k} : vm'[x] = vm[x]
               /\ vm'[k].runtime = [r EXCEPT !.shown = status]
               /\ vm'[k] \in [id : Spellings, runtime : Runtimes]
               /\ vm'[k].runtime.named = s /\ vm'[k].runtime.status = r.status
               /\ vm'[k].runtime.shown = status
    BY <1>1, <1>2 DEF Stored, Runtimes, Statuses
<1>6. \/ ~HasContainer(r) /\ shows /\ UNCHANGED <<container, suspect>>
      \/ /\ HasContainer(r) /\ container' = [container EXCEPT ![k][s] = status]
         /\ shows /\ UNCHANGED suspect
      \/ /\ HasContainer(r) /\ container' = [container EXCEPT ![k][s] = status]
         /\ suspect' = suspect \cup {<<k, s>>} /\ UNCHANGED vm
    BY DEF Power
<1>7. HasContainer(r) => s \in Spellings
    BY <1>2 DEF HasContainer
<1>8. r.status # "simulated" /\ s # NoName => HasContainer(r)
    BY DEF HasContainer
<1>9. s # NoName /\ <<k, s>> \notin suspect => r.status = "provisioned"
    BY <1>1, <1>3 DEF RealOf
<1>10. UNCHANGED request
    BY DEF Power
<1>11. \A y \in Spellings : <<k, y>> \notin suspect =>
            container[k][y] = IF s = y THEN r.shown ELSE "none"
    BY <1>2, <1>3 DEF MatchedOf
<1>12. DOMAIN vm \subseteq VMs /\ \A x \in DOMAIN vm : vm[x] \in [id : Spellings, runtime : Runtimes]
    BY DEF IInv, TypeOK
<1>13. \A y \in Spellings : y # NoName
    BY AzureAssumption
<1>14. (UNCHANGED vm) => Stored' = Stored
    BY DEF Stored
<1> HIDE DEF r, s, shows
<1>15. CASE ~HasContainer(r) /\ shows /\ UNCHANGED <<container, suspect>>
    <2>1. TypeOK'
        BY <1>15, <1>5, <1>10, <1>12 DEF IInv, TypeOK, Stored
    <2>2. s \in Spellings => <<k, s>> \in suspect
        BY <1>15, <1>8, <1>9, <1>13
    <2>3. Named(k)' = s
        BY <1>1, <1>15, <1>5 DEF Named
    <2>4. RealOf(k)'
        BY <1>15, <2>2, <1>5, <1>2 DEF RealOf
    <2>5. MatchedOf(k)'
        BY <1>15, <2>2, <2>3, <1>11 DEF MatchedOf
    <2> QED
        BY <1>15, <1>5, <2>1, <2>4, <2>5, OthersKept
<1>16. CASE /\ HasContainer(r) /\ container' = [container EXCEPT ![k][s] = status]
            /\ shows /\ UNCHANGED suspect
    <2>1. /\ container' \in [VMs -> [Spellings -> Statuses]]
          /\ container'[k][s] = status
          /\ \A y \in Spellings \ {s} : container'[k][y] = container[k][y]
          /\ \A x \in VMs \ {k} : container'[x] = container[x]
        BY <1>16, <1>4, <1>7 DEF Statuses
    <2>2. TypeOK'
        BY <1>16, <2>1, <1>5, <1>10, <1>12 DEF IInv, TypeOK, Stored
    <2>3. Named(k)' = s
        BY <1>1, <1>16, <1>5 DEF Named
    <2>4. RealOf(k)'
        BY <1>16, <1>5, <1>9 DEF RealOf
    <2>5. MatchedOf(k)'
        BY <1>16, <2>1, <2>3, <1>5, <1>11 DEF MatchedOf
    <2> QED
        BY <1>16, <1>5, <2>1, <2>2, <2>4, <2>5, OthersKept
<1>17. CASE /\ HasContainer(r) /\ container' = [container EXCEPT ![k][s] = status]
            /\ suspect' = suspect \cup {<<k, s>>} /\ UNCHANGED vm
    <2>1. /\ container' \in [VMs -> [Spellings -> Statuses]]
          /\ \A y \in Spellings \ {s} : container'[k][y] = container[k][y]
          /\ \A x \in VMs \ {k} : container'[x] = container[x]
        BY <1>17, <1>4, <1>7 DEF Statuses
    <2>2. suspect' \subseteq VMs \X Spellings
        BY <1>17, <1>4, <1>7
    <2>3. TypeOK'
        BY <1>17, <2>1, <2>2, <1>10, <1>12 DEF IInv, TypeOK
    <2>4. Named(k)' = s
        BY <1>2, <1>17, <1>14 DEF Named
    <2>5. RealOf(k)'
        BY <1>17 DEF RealOf, r, s
    <2>6. MatchedOf(k)'
        BY <1>17, <2>1, <2>4, <1>11 DEF MatchedOf, r
    <2>7. \A x \in VMs \ {k}, y \in Spellings : <<x, y>> \in suspect' <=> <<x, y>> \in suspect
        BY <1>17
    <2> QED
        BY <1>17, <1>14, <2>1, <2>3, <2>5, <2>6, <2>7, OthersKept
<1> QED
    BY <1>6, <1>15, <1>16, <1>17

LEMMA RequestKept ==
    ASSUME IInv,
           \/ \E c \in Clients, k \in VMs, s \in Spellings, method \in {"PUT", "PATCH"} :
                 Begin(c, method, k, s)
           \/ \E c \in Clients : Refuse(c)
           \/ UNCHANGED vars
    PROVE  IInv'
<1>1. UNCHANGED <<vm, container, suspect>>
    BY DEF Begin, Refuse, vars
<1>2. request' \in [Clients -> {Idle} \cup Requests]
    BY BlankTyped DEF Begin, Refuse, vars, IInv, TypeOK, Stored, Requests
<1> QED
    BY <1>1, <1>2 DEF IInv, TypeOK, Real, Matched, Stored, Named

-----------------------------------------------------------------------------
LEMMA IInvInvariant == Spec => []IInv
<1>1. IInv /\ [Next]_vars => IInv'
    BY StoreKept, DeleteKept, PowerKept, RequestKept DEF Next
<1> QED
    BY InitIInv, <1>1, PTL DEF Spec

\* Machines, containers and requests stay within their types.
THEOREM TypeCorrect == Spec => []TypeOK
BY IInvInvariant, PTL DEF IInv

\* A container exists exactly if the record of its machine names it, and in the
\* status the record shows; unless a failed command, an old runtime that a client
\* wrote, or a PUT with another spelling of the id touched it last.
THEOREM ContainersMatch == Spec => []Matched
BY IInvInvariant, PTL DEF IInv

-----------------------------------------------------------------------------
(* Lambda. *)

\* A name stands for a record of that name, the event loop writes the file of
\* a record that has its name, a call is of a record, and the request of a call
\* that is not an event has the loop until it is over.
Running == {"check", "read", "write", "run"}
Fitting ==
    /\ \A n \in Names : named[n] # None =>
          named[n] \in Created /\ function[named[n]].name = n
    /\ loop.kind = "file" =>
          loop.id \in Created /\ named[function[loop.id].name] = loop.id
    /\ \A c \in Calls :
          /\ call[c].at \in Running => call[c].of \in Created
          /\ call[c].at = "write" => call[c].handler \in Handlers /\ call[c].held \in Codes
          /\ call[c].at \in Running /\ ~call[c].event =>
                loop = [kind |-> "call", id |-> c]

LambdaInv == LTypeOK /\ Fitting

LEMMA LambdaInit == LInit => LambdaInv
BY LambdaAssumption DEF LInit, LambdaInv, LTypeOK, Fitting, NewCall, Invocation, Free,
       None, Created, Calls, Steps, Running, Contents, Torn

\* A file is written, or the write fails.
LEMMA FileTyped ==
    ASSUME LambdaInv, NEW n \in Names, NEW h \in Handlers, NEW c \in Codes,
           Write(n, h, c) \/ WriteFails(n, h)
    PROVE  /\ file' \in [Names -> [Handlers -> Contents]]
           /\ \A m \in Names : m # n => file'[m] = file[m]
           /\ Write(n, h, c) => file'[n][h] = c
<1>1. c \in Contents /\ Torn \in Contents /\ file \in [Names -> [Handlers -> Contents]]
    BY LambdaAssumption DEF Contents, Torn, Codes, LambdaInv, LTypeOK
<1>2. CASE UNCHANGED file /\ ~Write(n, h, c)
    BY <1>1, <1>2
<1>3. ASSUME NEW x \in Contents, Write(n, h, x)
      PROVE  /\ file' \in [Names -> [Handlers -> Contents]]
             /\ \A m \in Names : m # n => file'[m] = file[m]
             /\ file'[n][h] = x
    BY <1>1, <1>3 DEF Write
<1>4. CASE Write(n, h, c)
    BY <1>1, <1>3, <1>4
<1>5. CASE UNCHANGED file \/ Write(n, h, Torn)
    BY <1>1, <1>2, <1>3, <1>4, <1>5
<1>6. QED
    BY <1>4, <1>5 DEF WriteFails

LEMMA FailTyped ==
    ASSUME LambdaInv, Fail
    PROVE  failures' \in 0 .. MaxFailures
BY LambdaAssumption DEF LambdaInv, LTypeOK, Fail

LEMMA CreateFits ==
    ASSUME LambdaInv, NEW n \in Names, NEW h \in Handlers, Create(n, h)
    PROVE  LambdaInv' /\ Serves(n)'
<1>1. PICK f \in Functions \ Created, c \in Codes :
          /\ function' = [g \in Created \cup {f} |->
                IF g = f THEN [name |-> n, code |-> c, handler |-> h] ELSE function[g]]
          /\ Write(n, h, c)
          /\ named' = [named EXCEPT ![n] = f]
    BY DEF Create, Lowest, NewCodes
<1>2. loop = Free /\ UNCHANGED <<loop, call, failures>>
    BY DEF Create
<1>3. f # None /\ [name |-> n, code |-> c, handler |-> h] \in Record
    BY DEF Functions, None, Record
<1>4. /\ Created' = Created \cup {f}
      /\ function'[f] = [name |-> n, code |-> c, handler |-> h]
      /\ \A g \in Created : function'[g] = function[g]
    BY <1>1 DEF Created
<1>5. file' \in [Names -> [Handlers -> Contents]] /\ file'[n][h] = c
    BY <1>1, FileTyped
<1>6. LTypeOK'
    BY <1>1, <1>2, <1>3, <1>4, <1>5 DEF LambdaInv, LTypeOK, Created
<1>7. Fitting'
    BY <1>1, <1>2, <1>3, <1>4 DEF LambdaInv, LTypeOK, Fitting, Free
<1>8. Serves(n)'
    BY <1>1, <1>3, <1>4, <1>5 DEF LambdaInv, LTypeOK, Serves
<1>9. QED
    BY <1>6, <1>7, <1>8 DEF LambdaInv

\* A record of a function changes; its name does not.
LEMMA UpdateFits ==
    ASSUME LambdaInv, NEW n \in Names, NEW r \in Record, r.name = n,
           loop = Free, named[n] # None,
           function' = [function EXCEPT ![named[n]] = r],
           loop' = [kind |-> "file", id |-> named[n]],
           UNCHANGED <<named, file, call, failures>>
    PROVE  LambdaInv' /\ Writing(n)'
<1>1. named[n] \in Created /\ Created' = Created
    BY DEF LambdaInv, Fitting, Created
<1>2. LTypeOK'
    BY <1>1 DEF LambdaInv, LTypeOK, Created, Functions
<1>3. Fitting'
    BY <1>1 DEF LambdaInv, LTypeOK, Fitting, Free, Created
<1>4. QED
    BY <1>2, <1>3 DEF LambdaInv, Writing

\* A call moves on, and with it perhaps what the loop waits for.
LEMMA CallFits ==
    ASSUME LambdaInv, NEW c \in Calls, NEW r \in Invocation,
           call' = [call EXCEPT ![c] = r],
           UNCHANGED <<named, function>>, file' \in [Names -> [Handlers -> Contents]],
           failures' \in 0 .. MaxFailures,
           \/ loop' = loop
           \/ loop' = Free /\ loop = [kind |-> "call", id |-> c]
           \/ (loop = Free /\ loop' = [kind |-> "call", id |-> c]),
           r.at \in Running => r.of \in Created,
           r.at = "write" => r.handler \in Handlers /\ r.held \in Codes,
           r.at \in Running /\ ~r.event => loop' = [kind |-> "call", id |-> c]
    PROVE  LambdaInv'
<1>1. LTypeOK'
    <2>1. loop' \in [kind : {"idle", "file", "call"}, id : Nat]
        BY DEF LambdaInv, LTypeOK, Free, Calls, None
    <2>2. QED
        BY <2>1 DEF LambdaInv, LTypeOK
<1>2. Fitting'
    BY DEF LambdaInv, LTypeOK, Fitting, Free, Created
<1>3. QED
    BY <1>1, <1>2 DEF LambdaInv

LEMMA LambdaRequest ==
    ASSUME LambdaInv, Request
    PROVE  LambdaInv'
<1>1. ASSUME NEW n \in Names, NEW h \in Handlers, UpdateConfiguration(n, h)
      PROVE  LambdaInv'
    <2> DEFINE r == [function[named[n]] EXCEPT !.handler = h]
    <2>1. named[n] \in Created /\ function[named[n]] \in Record
          /\ function[named[n]].name = n
        BY <1>1 DEF LambdaInv, LTypeOK, Fitting, UpdateConfiguration, Created
    <2>2. r \in Record /\ r.name = n
        BY <2>1 DEF Record
    <2>3. function' = [function EXCEPT ![named[n]] = r]
        BY <1>1 DEF UpdateConfiguration
    <2>4. QED
        <3> HIDE DEF r
        <3>1. QED
            BY <1>1, <2>2, <2>3, UpdateFits DEF UpdateConfiguration
<1>2. ASSUME NEW n \in Names, UpdateCode(n)
      PROVE  LambdaInv'
    <2>1. PICK c \in Codes : function' = [function EXCEPT ![named[n]].code = c]
        BY <1>2 DEF UpdateCode, Lowest, NewCodes
    <2> DEFINE r == [function[named[n]] EXCEPT !.code = c]
    <2>2. named[n] \in Created /\ function[named[n]] \in Record
          /\ function[named[n]].name = n
        BY <1>2 DEF LambdaInv, LTypeOK, Fitting, UpdateCode, Created
    <2>3. r \in Record /\ r.name = n
        BY <2>2 DEF Record
    <2>4. function' = [function EXCEPT ![named[n]] = r]
        BY <2>1
    <2>5. QED
        <3> HIDE DEF r
        <3>1. QED
            BY <1>2, <2>3, <2>4, UpdateFits DEF UpdateCode
<1>3. ASSUME NEW n \in Names, DeleteFunction(n)
      PROVE  LambdaInv'
    BY <1>3 DEF DeleteFunction, LambdaInv, LTypeOK, Fitting, Created, Free, Running
<1>4. ASSUME NEW n \in Names, NEW event \in BOOLEAN, Invoke(n, event)
      PROVE  LambdaInv'
    <2>1. PICK c \in Calls :
            /\ call' = [call EXCEPT ![c] =
                          [@ EXCEPT !.of = named[n], !.event = event, !.at = "check",
                             !.told = event,
                             !.status = IF event THEN "accepted" ELSE "none"]]
            /\ loop' = IF event THEN Free ELSE [kind |-> "call", id |-> c]
        BY <1>4 DEF Invoke, Lowest, Unused
    <2>2. /\ named[n] \in Created /\ loop = Free
          /\ UNCHANGED <<named, function, file, failures>> /\ Created' = Created
        BY <1>4 DEF Invoke, LambdaInv, Fitting, Created
    <2> DEFINE r == [call[c] EXCEPT !.of = named[n], !.event = event, !.at = "check",
                                    !.told = event,
                                    !.status = IF event THEN "accepted" ELSE "none"]
    <2>3. r \in Invocation /\ r.of = named[n] /\ r.at = "check" /\ r.event = event
        <3>1. call[c] \in Invocation /\ named[n] \in Functions
            BY <2>2 DEF LambdaInv, LTypeOK, Created
        <3>2. QED
            BY <3>1 DEF Invocation, Steps
    <2>4. call' = [call EXCEPT ![c] = r]
        BY <2>1
    <2>5. QED
        <3> HIDE DEF r
        <3>1. QED
            BY <2>1, <2>2, <2>3, <2>4, CallFits DEF LambdaInv, LTypeOK
<1>5. ASSUME NEW n \in Names, NEW h \in Handlers, CreateFails(n, h)
      PROVE  LambdaInv'
    <2>1. UNCHANGED <<named, function, loop, call>> /\ failures' \in 0 .. MaxFailures
        BY <1>5, FailTyped DEF CreateFails, WriteFails
    <2>2. file' \in [Names -> [Handlers -> Contents]]
        <3>1. UNCHANGED file \/ file' = [file EXCEPT ![n][h] = Torn]
            BY <1>5 DEF CreateFails, WriteFails, Write
        <3>2. Torn \in Contents
            BY LambdaAssumption DEF Contents, Torn
        <3>3. QED
            BY <3>1, <3>2 DEF LambdaInv, LTypeOK
    <2>3. QED
        BY <2>1, <2>2 DEF LambdaInv, LTypeOK, Fitting, Created
<1>6. ASSUME NEW n \in Names, InvokeFails(n)
      PROVE  LambdaInv'
    <2>1. PICK c \in Calls :
            call' = [call EXCEPT ![c] = [@ EXCEPT !.at = "over", !.status = "accepted"]]
        BY <1>6 DEF InvokeFails, Lowest, Unused
    <2> DEFINE r == [call[c] EXCEPT !.at = "over", !.status = "accepted"]
    <2>2. r \in Invocation /\ r.at = "over"
        BY DEF LambdaInv, LTypeOK, Invocation, Steps
    <2>3. UNCHANGED <<named, function, file, loop>> /\ failures' \in 0 .. MaxFailures
        BY <1>6, FailTyped DEF InvokeFails
    <2>4. call' = [call EXCEPT ![c] = r]
        BY <2>1
    <2>5. r.at \notin Running /\ r.at # "new" /\ r.at # "write"
        BY <2>2 DEF Running
    <2>6. QED
        <3> HIDE DEF r
        <3>1. QED
            BY <2>2, <2>3, <2>4, <2>5, CallFits DEF LambdaInv, LTypeOK
<1>7. QED
    BY <1>1, <1>2, <1>3, <1>4, <1>5, <1>6, CreateFits DEF Request

LEMMA OverFits ==
    ASSUME LambdaInv, NEW c \in Calls, NEW st \in {"none", "accepted", "success", "error"},
           Over(c, st), call[c].at \in Running,
           UNCHANGED <<named, function>>, file' \in [Names -> [Handlers -> Contents]],
           failures' \in 0 .. MaxFailures,
           loop' = loop \/ (~call[c].event /\ loop' = Free)
    PROVE  LambdaInv'
<1> DEFINE r == [NewCall EXCEPT !.at = "over", !.told = call[c].told, !.status = st]
<1>1. r \in Invocation /\ r.at = "over"
    BY DEF LambdaInv, LTypeOK, Invocation, NewCall, Steps
<1>2. call' = [call EXCEPT ![c] = r]
    BY DEF Over
<1>3. loop' = loop \/ (loop' = Free /\ loop = [kind |-> "call", id |-> c])
    BY DEF LambdaInv, Fitting
<1>4. r.at \notin Running /\ r.at # "new" /\ r.at # "write"
    BY <1>1 DEF Running
<1> HIDE DEF r
<1>5. QED
    BY <1>1, <1>2, <1>3, <1>4, CallFits

LEMMA LambdaRun ==
    ASSUME LambdaInv, NEW c \in Calls, Run(c)
    PROVE  LambdaInv'
<1> DEFINE f == Of(c)
<1>1. ASSUME call[c].at \in Running
      PROVE  /\ call[c].of \in Created /\ f \in Record
             /\ call[c] \in Invocation
             /\ ~call[c].event => loop = [kind |-> "call", id |-> c]
    BY <1>1 DEF LambdaInv, LTypeOK, Fitting, Of, Created
<1>2. ASSUME NEW r \in Invocation, call[c].at \in Running,
             r.of = call[c].of, r.event = call[c].event, r.at \in {"read", "write", "run"},
             r.at = "write" => r.handler \in Handlers /\ r.held \in Codes,
             call' = [call EXCEPT ![c] = r],
             UNCHANGED <<named, function, loop, failures>>,
             file' \in [Names -> [Handlers -> Contents]]
      PROVE  LambdaInv'
    <2>1. r.of \in Created /\ (~r.event => loop' = [kind |-> "call", id |-> c])
        BY <1>1, <1>2
    <2>2. failures' \in 0 .. MaxFailures /\ r.at # "new"
        BY <1>2 DEF LambdaInv, LTypeOK
    <2> HIDE DEF f
    <2>3. QED
        BY <1>2, <2>1, <2>2, CallFits
<1>3. CASE Check(c)
    <2>1. PICK at \in {"read", "run"} : call' = [call EXCEPT ![c].at = at]
        BY <1>3 DEF Check
    <2>2. call[c].at = "check" /\ UNCHANGED <<named, function, file, loop, failures>>
        BY <1>3 DEF Check
    <2> DEFINE r == [call[c] EXCEPT !.at = at]
    <2>3. /\ r \in Invocation /\ r.of = call[c].of /\ r.event = call[c].event
          /\ r.at = at /\ call[c].at \in Running
        <3> HIDE DEF f
        <3>1. QED
            BY <1>1, <2>2 DEF Invocation, Steps, Running
    <2>4. call' = [call EXCEPT ![c] = r]
        BY <2>1
    <2> HIDE DEF f, r
    <2>5. QED
        BY <1>2, <2>2, <2>3, <2>4 DEF LambdaInv, LTypeOK
<1>4. CASE ReadMissing(c)
    <2>1. call[c].at = "read" /\ UNCHANGED <<named, function, file, loop, failures>>
        BY <1>4 DEF ReadMissing
    <2>2. f.handler \in Handlers /\ f.code \in Codes
        BY <1>1, <2>1 DEF Record, Running
    <2> DEFINE r == [call[c] EXCEPT !.at = "write", !.handler = f.handler, !.held = f.code]
    <2>3. call' = [call EXCEPT ![c] = r]
        BY <1>4 DEF ReadMissing
    <2>4. /\ r \in Invocation /\ r.of = call[c].of /\ r.event = call[c].event
          /\ r.at = "write" /\ r.handler \in Handlers /\ r.held \in Codes
          /\ call[c].at \in Running
        <3> HIDE DEF f
        <3>1. QED
            BY <1>1, <2>1, <2>2 DEF Invocation, Steps, Running
    <2> HIDE DEF f, r
    <2>5. QED
        BY <1>2, <2>1, <2>3, <2>4 DEF LambdaInv, LTypeOK
<1>5. ASSUME call[c].at = "write"
      PROVE  /\ f.name \in Names /\ call[c].handler \in Handlers /\ call[c].held \in Codes
             /\ call[c].at \in Running
    BY <1>1, <1>5 DEF Record, LambdaInv, Fitting, Running
<1>6. CASE WriteMissing(c)
    <2>1. call[c].at = "write" /\ UNCHANGED <<named, function, loop, failures>>
        BY <1>6 DEF WriteMissing
    <2> DEFINE r == [call[c] EXCEPT !.at = "run", !.handler = None, !.held = None]
    <2>2. call' = [call EXCEPT ![c] = r]
        BY <1>6 DEF WriteMissing
    <2>3. file' \in [Names -> [Handlers -> Contents]]
        BY <1>5, <1>6, <2>1, FileTyped DEF WriteMissing
    <2>4. /\ r \in Invocation /\ r.of = call[c].of /\ r.event = call[c].event
          /\ r.at = "run"
        BY <1>1, <1>5, <2>1 DEF Invocation, Steps
    <2> HIDE DEF f, r
    <2>5. QED
        BY <1>2, <1>5, <2>1, <2>2, <2>3, <2>4
<1>7. CASE MissingFails(c)
    <2>1. /\ call[c].at = "write" /\ UNCHANGED <<named, function>>
          /\ loop' = IF call[c].event THEN loop ELSE Free
        BY <1>7 DEF MissingFails
    <2>2. PICK st \in {"none", "error"} : Over(c, st)
        BY <1>7 DEF MissingFails
    <2>3. file' \in [Names -> [Handlers -> Contents]] /\ failures' \in 0 .. MaxFailures
        BY <1>5, <1>7, <2>1, FileTyped, FailTyped DEF MissingFails, WriteFails
    <2>4. QED
        BY <1>5, <2>1, <2>2, <2>3, OverFits
<1>8. CASE EndRequest(c)
    BY <1>8, OverFits DEF EndRequest, LambdaInv, LTypeOK, Running
<1>9. ASSUME NEW raises \in BOOLEAN, EndEvent(c, raises)
      PROVE  LambdaInv'
    <2>1. /\ call[c].at = "run" /\ UNCHANGED <<named, function, file, loop, failures>>
          /\ \E st \in {"success", "error"} : Over(c, st)
        BY <1>9 DEF EndEvent
    <2>2. QED
        BY <2>1, OverFits DEF LambdaInv, LTypeOK, Running
<1>10. QED
    BY <1>3, <1>4, <1>6, <1>7, <1>8, <1>9 DEF Run

LEMMA LambdaStep ==
    ASSUME LambdaInv, [LNext]_(lvars)
    PROVE  LambdaInv'
<1>1. CASE WriteFile \/ WriteFileFails
    <2> DEFINE f == function[loop.id]
    <2>1. loop.id \in Created /\ f \in Record
        BY <1>1 DEF WriteFile, WriteFileFails, LambdaInv, LTypeOK, Fitting, Created
    <2>2. f.name \in Names /\ f.handler \in Handlers /\ f.code \in Codes
        BY <2>1 DEF Record
    <2>3. Write(f.name, f.handler, f.code) \/ WriteFails(f.name, f.handler)
        BY <1>1 DEF WriteFile, WriteFileFails
    <2>4. file' \in [Names -> [Handlers -> Contents]]
        <3> HIDE DEF f
        <3>1. QED
            BY <2>2, <2>3, FileTyped
    <2>5. failures' \in 0 .. MaxFailures
        BY <1>1, FailTyped DEF WriteFile, WriteFileFails, WriteFails, LambdaInv, LTypeOK
    <2>6. loop' = Free /\ loop.kind = "file" /\ UNCHANGED <<named, function, call>>
        BY <1>1 DEF WriteFile, WriteFileFails
    <2> HIDE DEF f
    <2>7. QED
        BY <2>4, <2>5, <2>6 DEF LambdaInv, LTypeOK, Fitting, Free, Created, None
<1>2. CASE UNCHANGED lvars
    BY <1>2 DEF lvars, LambdaInv, LTypeOK, Fitting, Created
<1>3. QED
    BY <1>1, <1>2, LambdaRequest, LambdaRun DEF LNext

\* The records and calls of Lambda are what they are taken for.
THEOREM LambdaTyped == LSpec => []LTypeOK
<1>1. LInit => LambdaInv
    BY LambdaInit
<1>2. LambdaInv /\ [LNext]_(lvars) => LambdaInv'
    BY LambdaStep
<1>3. LambdaInv => LTypeOK
    BY DEF LambdaInv
<1>4. QED
    BY <1>1, <1>2, <1>3, PTL DEF LSpec

\* There is no such function, it runs its code, or its file is being written.
Fresh(n) == named[n] = None \/ Serves(n) \/ Writing(n)

\* A step that leaves the record, the file and the loop of a name alone.
LEMMA ApartFresh ==
    ASSUME NEW n \in Names, Fresh(n), named'[n] = named[n],
           named[n] # None => function'[named[n]] = function[named[n]],
           file'[n] = file[n], Writing(n) => Writing(n)'
    PROVE  Fresh(n)'
BY DEF Fresh, Serves, Writing

LEMMA RequestFresh ==
    ASSUME LambdaInv, NEW n \in Names, Fresh(n), Request
    PROVE  Fresh(n)'
<1>1. /\ \A m \in Names : named[m] # None =>
            named[m] \in Created /\ function[named[m]].name = m
      /\ named \in [Names -> Functions \cup {None}]
      /\ file \in [Names -> [Handlers -> Contents]]
    BY DEF LambdaInv, LTypeOK, Fitting
<1>2. ASSUME NEW m \in Names, NEW h \in Handlers, Create(m, h)
      PROVE  Fresh(n)'
    <2>1. CASE m = n
        BY <1>2, <2>1, CreateFits DEF Fresh
    <2>2. CASE m # n
        <3>1. named'[n] = named[n] /\ file'[n] = file[n] /\ loop' = loop
            BY <1>1, <1>2, <2>2 DEF Create, Write
        <3>2. named[n] # None => function'[named[n]] = function[named[n]]
            <4>1. PICK f \in Functions \ Created : \E r \in Record :
                    function' = [g \in Created \cup {f} |-> IF g = f THEN r ELSE function[g]]
                <5>1. PICK f \in Functions \ Created, d \in Codes :
                        function' = [g \in Created \cup {f} |->
                            IF g = f THEN [name |-> m, code |-> d, handler |-> h] ELSE function[g]]
                    BY <1>2 DEF Create, Lowest, NewCodes
                <5>2. [name |-> m, code |-> d, handler |-> h] \in Record
                    BY DEF Record
                <5>3. QED
                    BY <5>1, <5>2
            <4>2. QED
                BY <1>1, <4>1
        <3>3. QED
            BY <3>1, <3>2, ApartFresh DEF Writing
    <2>3. QED
        BY <2>1, <2>2
<1>3. ASSUME NEW m \in Names, named[m] # None, loop = Free,
             UNCHANGED <<named, file>>, loop' = [kind |-> "file", id |-> named[m]],
             \A g \in Created \ {named[m]} : function'[g] = function[g]
      PROVE  Fresh(n)'
    <2>1. CASE m = n
        BY <1>3, <2>1 DEF Fresh, Writing
    <2>2. CASE m # n
        <3>1. ~Writing(n)
            BY <1>3 DEF Writing, Free
        <3>2. named[n] # None => named[n] \in Created \ {named[m]}
            BY <1>1, <1>3, <2>2
        <3>3. QED
            BY <1>3, <3>1, <3>2, ApartFresh
    <2>3. QED
        BY <2>1, <2>2
<1>4. ASSUME NEW m \in Names, NEW h \in Handlers, UpdateConfiguration(m, h)
      PROVE  Fresh(n)'
    BY <1>1, <1>3, <1>4 DEF UpdateConfiguration, Created
<1>5. ASSUME NEW m \in Names, UpdateCode(m)
      PROVE  Fresh(n)'
    BY <1>1, <1>3, <1>5 DEF UpdateCode, Created
<1>6. ASSUME NEW m \in Names, DeleteFunction(m)
      PROVE  Fresh(n)'
    <2>1. CASE m = n
        BY <1>1, <1>6, <2>1 DEF DeleteFunction, Fresh
    <2>2. CASE m # n
        BY <1>1, <1>6, <2>2, ApartFresh DEF DeleteFunction, Writing
    <2>3. QED
        BY <2>1, <2>2
<1>7. ASSUME NEW m \in Names, NEW event \in BOOLEAN, Invoke(m, event)
      PROVE  Fresh(n)'
    BY <1>7, ApartFresh DEF Invoke, Writing, Free
<1>8. ASSUME NEW m \in Names, InvokeFails(m)
      PROVE  Fresh(n)'
    BY <1>8, ApartFresh DEF InvokeFails, Writing
<1>9. ASSUME NEW m \in Names, NEW h \in Handlers, CreateFails(m, h)
      PROVE  Fresh(n)'
    <2>1. CASE m = n
        BY <1>9, <2>1 DEF CreateFails, Fresh
    <2>2. CASE m # n
        <3>1. UNCHANGED file \/ file' = [file EXCEPT ![m][h] = Torn]
            BY <1>9 DEF CreateFails, WriteFails, Write
        <3>2. file'[n] = file[n]
            BY <1>1, <2>2, <3>1
        <3>3. QED
            BY <1>9, <3>2, ApartFresh DEF CreateFails, Writing
    <2>3. QED
        BY <2>1, <2>2
<1>10. QED
    BY <1>2, <1>4, <1>5, <1>6, <1>7, <1>8, <1>9 DEF Request

LEMMA FreshKept ==
    ASSUME LambdaInv, NEW n \in Names, Fresh(n), ~Late(n), ~Failed(n), [LNext]_(lvars)
    PROVE  Fresh(n)'
<1>1. CASE WriteFile
    <2> DEFINE f == function[loop.id]
    <2>1. /\ loop.kind = "file" /\ loop.id \in Created /\ f \in Record
          /\ named[f.name] = loop.id
          /\ file \in [Names -> [Handlers -> Contents]]
        BY <1>1 DEF WriteFile, LambdaInv, LTypeOK, Fitting, Created
    <2>2. f.name \in Names /\ f.handler \in Handlers
        BY <2>1 DEF Record
    <2>3. UNCHANGED <<named, function>> /\ file' = [file EXCEPT ![f.name][f.handler] = f.code]
        BY <1>1 DEF WriteFile, Write
    <2>4. CASE f.name = n
        BY <2>1, <2>2, <2>3, <2>4 DEF Fresh, Serves
    <2>5. CASE f.name # n
        <3>1. file'[n] = file[n]
            BY <2>1, <2>2, <2>3, <2>5
        <3>2. ~Writing(n) \/ named[n] = None
            <4>1. named[n] # None => function[named[n]].name = n
                BY DEF LambdaInv, Fitting
            <4>2. QED
                BY <2>5, <4>1 DEF Writing
        <3>3. QED
            BY <2>3, <3>1, <3>2 DEF Fresh, Serves
    <2>6. QED
        BY <2>4, <2>5
<1>2. ASSUME NEW c \in Calls, Run(c)
      PROVE  Fresh(n)'
    <2>1. CASE Check(c)
        BY <2>1, ApartFresh DEF Check, Writing
    <2>2. CASE ReadMissing(c)
        BY <2>2, ApartFresh DEF ReadMissing, Writing
    <2>3. ASSUME call[c].at = "write"
          PROVE  /\ Of(c).name \in Names /\ call[c].handler \in Handlers
                 /\ call[c].held \in Codes
                 /\ ~call[c].event => loop.kind = "call"
        BY <2>3 DEF LambdaInv, LTypeOK, Fitting, Of, Created, Record, Running
    <2>4. CASE WriteMissing(c)
        <3>1. Of(c).name # n
            BY <2>4 DEF Late
        <3>2. file'[n] = file[n]
            BY <2>3, <2>4, <3>1, FileTyped DEF WriteMissing
        <3>3. QED
            BY <2>4, <3>2, ApartFresh DEF WriteMissing, Writing
    <2>5. CASE MissingFails(c)
        <3>1. Of(c).name # n
            BY <2>5 DEF Failed
        <3>2. file'[n] = file[n]
            BY <2>3, <2>5, <3>1, FileTyped DEF MissingFails
        <3>3. loop' = loop \/ loop.kind = "call"
            BY <2>3, <2>5 DEF MissingFails
        <3>4. QED
            BY <2>5, <3>2, <3>3, ApartFresh DEF MissingFails, Writing
    <2>6. ASSUME NEW raises \in BOOLEAN, EndEvent(c, raises)
          PROVE  Fresh(n)'
        BY <2>6, ApartFresh DEF EndEvent, Writing
    <2>7. CASE EndRequest(c)
        <3>1. loop.kind = "call"
            BY <2>7 DEF EndRequest, LambdaInv, Fitting, Running
        <3>2. QED
            BY <2>7, <3>1, ApartFresh DEF EndRequest, Writing
    <2>8. QED
        BY <1>2, <2>1, <2>2, <2>4, <2>5, <2>6, <2>7 DEF Run
<1>3. CASE UNCHANGED lvars
    BY <1>3, ApartFresh DEF lvars, Writing
<1>4. CASE WriteFileFails
    <2> DEFINE f == function[loop.id]
    <2>1. /\ loop.kind = "file" /\ f.name \in Names /\ f.handler \in Handlers
          /\ f.code \in Codes /\ named[f.name] = loop.id
        BY <1>4 DEF WriteFileFails, LambdaInv, LTypeOK, Fitting, Created, Record
    <2>2. loop.id # named[n]
        BY <1>4 DEF Failed
    <2>3. WriteFails(f.name, f.handler) /\ UNCHANGED <<named, function>>
        BY <1>4 DEF WriteFileFails
    <2> HIDE DEF f
    <2>4. file'[n] = file[n]
        BY <2>1, <2>2, <2>3, FileTyped
    <2>5. QED
        BY <2>2, <2>3, <2>4, ApartFresh DEF Writing
<1>5. QED
    BY <1>1, <1>2, <1>3, <1>4, RequestFresh DEF LNext

\* No request, on this function or another, and no thread leaves a function with
\* another code in its file than its record shows; except for a thread that found
\* the file missing, and for a write of the file that fails.
THEOREM RunsItsCode == LSpec => ServedCode
<1> DEFINE Kept == \A n \in Names :
                      named'[n] # None /\ ~(Serves(n) \/ Writing(n))' /\ ~Late(n) /\ ~Failed(n)
                         => named[n] # None /\ ~Serves(n) /\ ~Writing(n)
<1>1. LInit => LambdaInv
    BY LambdaInit
<1>2. LambdaInv /\ [LNext]_(lvars) => LambdaInv'
    BY LambdaStep
<1>3. LambdaInv /\ [LNext]_(lvars) => Kept
    BY FreshKept DEF Fresh
<1>4. QED
    BY <1>1, <1>2, <1>3, PTL DEF LSpec, ServedCode

-----------------------------------------------------------------------------
(* Pub/Sub. *)

\* The subscriptions whose id no topic has.
Own == Subs \ Topics

\* The entries of a subscription's queue have an ackId and are older than the
\* next message; only one that was handed out can be leased.
Queued(q, n) ==
    \A e \in q : e \in Entry /\ e.msg < n /\ e.ack /\ (e.leased => e.given)

Once(q, d) ==
    /\ {e.msg : e \in q} = d
    /\ \A e, f \in q : e.msg = f.msg => e = f

\* An entry behind another of its key was never handed out.
OldestGiven(q) ==
    \A e, f \in q : Before(e, f) /\ SameKey(e, f) => ~f.leased /\ ~f.given

Sound(q, n, d) == Queued(q, n) /\ Once(q, d) /\ OldestGiven(q)

PubSubInv == PSTypeOK /\ \A s \in Own : Sound(box[s], next, due[s])

LEMMA PubSubInit == PSInit => PubSubInv
<1> SUFFICES ASSUME PSInit PROVE PubSubInv
    OBVIOUS
<1>1. PSTypeOK
    BY PubSubAssumption DEF PSInit, PSTypeOK, Messages, Ids
<1>2. \A s \in Own : box[s] = {} /\ due[s] = {}
    BY DEF PSInit, Own, Ids
<1>3. \A s \in Own : Sound(box[s], next, due[s])
    BY <1>2 DEF Sound, Queued, Once, OldestGiven
<1>4. QED
    BY <1>1, <1>3 DEF PubSubInv

\* A queue that is emptied.
LEMMA EmptySound ==
    ASSUME NEW s \in Own, box'[s] = {}, due'[s] = {}
    PROVE  Sound(box[s], next, due[s])'
BY DEF Sound, Queued, Once, OldestGiven

\* A queue that is left alone, while messages are published or not.
LEMMA SameSound ==
    ASSUME PubSubInv, NEW s \in Own, box'[s] = box[s], due'[s] = due[s],
           next' \in Nat, next' >= next,
           \A m \in Messages : m < next => key'[m] = key[m]
    PROVE  Sound(box[s], next, due[s])'
<1>1. Sound(box[s], next, due[s]) /\ next \in Nat
    BY DEF PubSubInv, PSTypeOK
<1>2. Queued(box'[s], next')
    BY <1>1 DEF Sound, Queued, Entry, Messages
<1>3. Once(box'[s], due'[s])
    BY <1>1 DEF Sound, Once
<1>4. OldestGiven(box[s])'
    <2>1. \A e \in box[s] : e.msg \in Messages /\ e.msg < next
        BY <1>1 DEF Sound, Queued, Entry
    <2>2. \A e, f \in box[s] : SameKey(e, f)' => SameKey(e, f)
        BY <2>1 DEF SameKey
    <2>3. QED
        BY <1>1, <2>2 DEF Sound, OldestGiven, Before
<1>5. QED
    BY <1>2, <1>3, <1>4 DEF Sound

\* An entry that is handed out, or given back by a client that had it.
Served(e, lease) == [e EXCEPT !.leased = lease, !.given = TRUE]

\* Some entries go, and some of the others are leased or given back, all of
\* them handed out before or with none of their key before them.
Serve(s, kept, some, lease) ==
    /\ kept \subseteq box[s] /\ some \subseteq kept /\ lease \in BOOLEAN
    /\ \A e \in some : e.given \/ \A f \in kept : Before(f, e) => ~SameKey(f, e)
    /\ box' = [box EXCEPT ![s] = (kept \ some) \cup
                  {Served(e, lease) : e \in some}]
    /\ \E d \in SUBSET Messages : due' = [due EXCEPT ![s] = d] /\ d = {e.msg : e \in kept}
    /\ UNCHANGED <<topics, subs, updating, patching, key, next>>

\* What becomes of the entries.
LEMMA ServeEntries ==
    ASSUME PubSubInv, NEW s \in Own, NEW kept, NEW some, NEW lease, Serve(s, kept, some, lease)
    PROVE  /\ \A x \in box'[s] : \E y \in kept :
                 /\ x.msg = y.msg /\ x.ack = y.ack /\ x \in Entry
                 /\ \/ y \notin some /\ x = y
                    \/ /\ y \in some /\ x = Served(y, lease)
                       /\ x.leased = lease /\ x.given
           /\ \A y \in kept : \E x \in box'[s] : x.msg = y.msg
<1>1. s \in Ids /\ kept \subseteq Entry
    BY DEF PubSubInv, PSTypeOK, Ids, Own, Serve
<1>2. box'[s] = (kept \ some) \cup {Served(e, lease) : e \in some}
    BY <1>1 DEF Serve, PubSubInv, PSTypeOK
<1>3. \A e \in some :
        /\ Served(e, lease) \in Entry /\ Served(e, lease).msg = e.msg
        /\ Served(e, lease).ack = e.ack
        /\ Served(e, lease).leased = lease /\ Served(e, lease).given
    BY <1>1 DEF Serve, Served, Entry
<1>4. some \subseteq kept
    BY DEF Serve
<1>5. QED
    BY <1>1, <1>2, <1>3, <1>4

LEMMA ServeSound ==
    ASSUME PubSubInv, NEW s \in Own, NEW kept, NEW some, NEW lease, Serve(s, kept, some, lease)
    PROVE  Sound(box[s], next, due[s])'
<1>1. Sound(box[s], next, due[s]) /\ kept \subseteq box[s] /\ UNCHANGED <<key, next>>
    BY DEF PubSubInv, Serve
<1>2. /\ \A x \in box'[s] : \E y \in kept :
            /\ x.msg = y.msg /\ x.ack = y.ack /\ x \in Entry
            /\ \/ y \notin some /\ x = y
               \/ /\ y \in some /\ x = Served(y, lease)
                  /\ x.leased = lease /\ x.given
      /\ \A y \in kept : \E x \in box'[s] : x.msg = y.msg
    BY ServeEntries
<1>3. Queued(box'[s], next')
    BY <1>1, <1>2 DEF Sound, Queued
<1>4. Once(box'[s], due'[s])
    <2>1. due'[s] = {e.msg : e \in kept}
        BY DEF Serve, Own, PubSubInv, PSTypeOK
    <2>2. {e.msg : e \in box'[s]} = {e.msg : e \in kept}
        <3>1. \A x \in box'[s] : \E y \in kept : x.msg = y.msg
            BY <1>2
        <3>2. \A y \in kept : \E x \in box'[s] : x.msg = y.msg
            BY <1>2
        <3>3. QED
            BY <3>1, <3>2
    <2>3. ASSUME NEW x \in box'[s], NEW z \in box'[s], x.msg = z.msg
          PROVE  x = z
        <3>1. PICK y \in kept :
                /\ x.msg = y.msg /\ x.ack = y.ack /\ x \in Entry
                /\ \/ y \notin some /\ x = y
                   \/ /\ y \in some /\ x = Served(y, lease)
                      /\ x.leased = lease /\ x.given
            BY <1>2, Zenon
        <3>2. PICK w \in kept :
                /\ z.msg = w.msg /\ z.ack = w.ack /\ z \in Entry
                /\ \/ w \notin some /\ z = w
                   \/ /\ w \in some /\ z = Served(w, lease)
                      /\ z.leased = lease /\ z.given
            BY <1>2, Zenon
        <3>3. y = w
            BY <1>1, <2>3, <3>1, <3>2 DEF Sound, Once
        <3>4. QED
            BY <3>1, <3>2, <3>3
    <2>4. QED
        BY <2>1, <2>2, <2>3 DEF Once
<1>5. OldestGiven(box[s])'
    <2>1. SUFFICES ASSUME NEW e \in box'[s], NEW f \in box'[s],
                          Before(e, f), SameKey(e, f)', f.leased \/ f.given
                   PROVE  FALSE
        BY DEF OldestGiven, Before
    <2>2. PICK d \in kept : d.msg = e.msg /\ d.ack = e.ack
        BY <1>2
    <2>3. PICK g \in kept :
            /\ g.msg = f.msg /\ g.ack = f.ack
            /\ (g \notin some /\ f = g) \/ g \in some
        BY <1>2
    <2>4. Before(d, g) /\ SameKey(d, g)
        BY <1>1, <2>1, <2>2, <2>3 DEF Before, SameKey
    <2>5. ~g.given /\ ~g.leased
        BY <1>1, <2>4 DEF Sound, OldestGiven
    <2>6. g \notin some
        BY <2>4, <2>5 DEF Serve
    <2>7. QED
        BY <2>1, <2>3, <2>5, <2>6
<1>6. QED
    BY <1>3, <1>4, <1>5 DEF Sound

-----------------------------------------------------------------------------

LEMMA PullServes ==
    ASSUME PubSubInv, NEW s \in Own, NEW n \in Batches, NEW old \in Nat, Pull(s, n, old)
    PROVE  \E kept, some : Serve(s, kept, some, TRUE)
<1> DEFINE kept == {e \in box[s] : e.msg > old}
           got == First(Deliverable(kept), n)
           d == {m \in due[s] : m > old}
<1>1. Sound(box[s], next, due[s]) /\ due[s] \subseteq Messages
    BY DEF PubSubInv, PSTypeOK, Own
<1>2. got \subseteq kept
    BY DEF First, Deliverable
<1>3. \A e \in got : \A f \in kept : Before(f, e) => ~SameKey(f, e)
    BY DEF First, Deliverable
<1>4. d = {e.msg : e \in kept} /\ d \in SUBSET Messages
    BY <1>1 DEF Sound, Once
<1>5. box' = [box EXCEPT ![s] = (kept \ got) \cup {Served(e, TRUE) : e \in got}]
    BY DEF Pull, Served
<1>6. due' = [due EXCEPT ![s] = d] /\ UNCHANGED <<topics, subs, updating, patching, key, next>>
    BY DEF Pull, records
<1>7. kept \subseteq box[s]
    OBVIOUS
<1>8. QED
    <2> HIDE DEF kept, got, d
    <2>1. Serve(s, kept, got, TRUE)
        BY <1>2, <1>3, <1>4, <1>5, <1>6, <1>7 DEF Serve
    <2>2. QED
        BY <2>1

LEMMA AckServes ==
    ASSUME PubSubInv, NEW s \in Own, NEW m \in Messages, Ack(s, m)
    PROVE  Serve(s, {e \in box[s] : e.msg # m}, {}, TRUE)
<1> DEFINE kept == {e \in box[s] : e.msg # m}
           d == due[s] \ {m}
<1>1. Sound(box[s], next, due[s]) /\ due[s] \subseteq Messages
    BY DEF PubSubInv, PSTypeOK, Own
<1>2. Held(s, m) = {e \in box[s] : e.msg = m}
    BY <1>1 DEF Ack, Held, Sound, Once
<1>3. box' = [box EXCEPT ![s] = kept] /\ due' = [due EXCEPT ![s] = d]
      /\ UNCHANGED <<topics, subs, updating, patching, key, next>>
    <2>1. box[s] \ Held(s, m) = kept
        BY <1>2
    <2>2. QED
        BY <2>1 DEF Ack, records
<1>4. d = {e.msg : e \in kept} /\ d \in SUBSET Messages
    BY <1>1 DEF Sound, Once
<1>5. kept = (kept \ {}) \cup {Served(e, TRUE) : e \in {}}
      /\ kept \subseteq box[s]
    OBVIOUS
<1>6. QED
    <2> HIDE DEF kept, d
    <2>1. Serve(s, kept, {}, TRUE)
        BY <1>3, <1>4, <1>5 DEF Serve
    <2>2. QED
        BY <2>1 DEF kept

LEMMA ReletServes ==
    ASSUME PubSubInv, NEW s \in Own, NEW some \in SUBSET box[s], NEW lease \in BOOLEAN,
           \A e \in some : e.given, Relet(s, some, lease),
           UNCHANGED <<topics, subs, updating, patching, key, next, due>>
    PROVE  Serve(s, box[s], some, lease)
<1>1. Sound(box[s], next, due[s]) /\ due \in [Subs -> SUBSET Messages]
    BY DEF PubSubInv, PSTypeOK
<1>2. \A e \in some : [e EXCEPT !.leased = lease] = Served(e, lease)
    BY <1>1 DEF Served, Sound, Queued, Entry
<1>3. {[e EXCEPT !.leased = lease] : e \in some}
         = {Served(e, lease) : e \in some}
    BY <1>2
<1>4. due' = [due EXCEPT ![s] = due[s]] /\ due[s] = {e.msg : e \in box[s]}
      /\ due[s] \in SUBSET Messages
    BY <1>1 DEF Sound, Once, Own
<1>5. QED
    BY <1>3, <1>4 DEF Serve, Relet

\* Messages leave some queues altogether.
LEMMA ForgetSound ==
    ASSUME PubSubInv, NEW S, NEW I, Forget(S, I), \A s \in Own : s \in I <=> s \in S
    PROVE  \A s \in Own : Sound(box[s], next, due[s])'
<1> SUFFICES ASSUME NEW s \in Own PROVE Sound(box[s], next, due[s])'
    OBVIOUS
<1>1. s \in Subs /\ s \in Ids
    BY DEF Own, Ids
<1>2. CASE s \in S
    BY <1>1, <1>2, EmptySound DEF Forget
<1>3. CASE s \notin S
    <2>1. box'[s] = box[s] /\ due'[s] = due[s] /\ UNCHANGED <<key, next>>
        BY <1>1, <1>3 DEF Forget
    <2>2. next' \in Nat /\ next' >= next
        BY <2>1 DEF PubSubInv, PSTypeOK
    <2>3. QED
        BY <2>1, <2>2, SameSound
<1>4. QED
    BY <1>2, <1>3

LEMMA PublishSound ==
    ASSUME PubSubInv, NEW t \in Topics, NEW k, Publish(t, k), NEW s \in Own
    PROVE  Sound(box[s], next, due[s])'
<1> DEFINE e0 == [msg |-> next, ack |-> TRUE, leased |-> FALSE, given |-> FALSE]
<1>1. /\ s \in Subs /\ s \in Ids /\ s # t
      /\ next \in Messages /\ next' = next + 1 /\ next' \in Nat /\ next' >= next
      /\ \A m \in Messages : m < next => key'[m] = key[m]
      /\ Sound(box[s], next, due[s])
    BY DEF Own, Ids, Publish, Messages, PubSubInv, PSTypeOK
<1>2. CASE subs[s] # t
    <2>1. box'[s] = box[s] /\ due'[s] = due[s]
        BY <1>1, <1>2 DEF Publish
    <2>2. QED
        BY <1>1, <2>1, SameSound
<1>3. CASE subs[s] = t
    <2>1. box'[s] = box[s] \cup {e0} /\ due'[s] = due[s] \cup {next}
        BY <1>1, <1>3 DEF Publish
    <2>2. e0 \in Entry /\ e0.msg = next /\ e0.ack /\ ~e0.leased /\ ~e0.given
        BY <1>1 DEF Entry
    <2> HIDE DEF e0
    <2>3. \A e \in box[s] : e \in Entry /\ e.msg \in Messages /\ e.msg < next /\ e.ack
        BY <1>1 DEF Sound, Queued, Entry
    <2>4. Queued(box'[s], next')
        BY <1>1, <2>1, <2>2, <2>3 DEF Sound, Queued, Messages
    <2>5. Once(box'[s], due'[s])
        BY <1>1, <2>1, <2>2, <2>3 DEF Sound, Once, Messages
    <2>6. OldestGiven(box[s])'
        <3>1. SUFFICES ASSUME NEW e \in box'[s], NEW f \in box'[s],
                              Before(e, f), SameKey(e, f)'
                       PROVE  ~f.leased /\ ~f.given
            BY DEF OldestGiven, Before
        <3>2. CASE f = e0
            BY <2>2, <3>2
        <3>3. CASE f # e0
            <4>1. f \in box[s] /\ f.msg < next /\ f.msg \in Messages
                BY <2>1, <2>3, <3>3
            <4>2. e \in box[s] /\ e.msg < next /\ e.msg \in Messages
                BY <1>1, <2>1, <2>2, <2>3, <3>1, <4>1 DEF Before, Messages
            <4>3. SameKey(e, f)
                BY <1>1, <3>1, <4>1, <4>2 DEF SameKey
            <4>4. QED
                BY <1>1, <3>1, <4>1, <4>2, <4>3 DEF Sound, OldestGiven
        <3>4. QED
            BY <3>2, <3>3
    <2>7. QED
        BY <2>4, <2>5, <2>6 DEF Sound
<1>4. QED
    BY <1>2, <1>3

LEMMA OperateSound ==
    ASSUME PubSubInv, Operate
    PROVE  \A s \in Own : Sound(box[s], next, due[s])'
<1>1. ASSUME UNCHANGED queues
      PROVE  \A s \in Own : Sound(box[s], next, due[s])'
    <2>1. next' \in Nat /\ next' >= next /\ UNCHANGED <<box, due, key, next>>
        BY <1>1 DEF PubSubInv, PSTypeOK, queues
    <2>2. QED
        BY <2>1, SameSound
<1>2. ASSUME NEW t \in Topics, PutTopic(t) \/ BeginUpdateTopic(t) \/ EndUpdateTopic(t)
      PROVE  UNCHANGED queues
    BY <1>2 DEF PutTopic, BeginUpdateTopic, EndUpdateTopic
<1>3. ASSUME NEW t \in Topics, NEW s \in Subs, CreateTopic(t, s) \/ CreateSubscription(s, t)
      PROVE  UNCHANGED queues
    BY <1>3 DEF CreateTopic, CreateSubscription
<1>4. ASSUME NEW s \in Subs, BeginPatch(s) \/ EndPatch(s)
      PROVE  UNCHANGED queues
    BY <1>4 DEF BeginPatch, EndPatch
<1>5. ASSUME NEW t \in Topics, DeleteTopic(t)
      PROVE  \A s \in Own : Sound(box[s], next, due[s])'
    <2> DEFINE S == {s \in Subs : subs[s] = t}
    <2>1. Forget(S, S \cup {t})
        BY <1>5 DEF DeleteTopic
    <2>2. \A s \in Own : s \in S \cup {t} <=> s \in S
        BY DEF Own
    <2>3. QED
        <3> HIDE DEF S
        <3>1. QED
            BY <2>1, <2>2, ForgetSound
<1>6. ASSUME NEW s \in Subs, Purge(s) \/ DeleteSubscription(s)
      PROVE  \A r \in Own : Sound(box[r], next, due[r])'
    <2>1. Forget({s}, {s})
        BY <1>6 DEF Purge, DeleteSubscription
    <2>2. QED
        BY <2>1, ForgetSound
<1>7. QED
    BY <1>1, <1>2, <1>3, <1>4, <1>5, <1>6, PublishSound DEF Operate

\* A delivery is an arrangement of one queue, whatever it is.
LEMMA DeliverServes ==
    ASSUME PubSubInv, Deliver
    PROVE  \E s \in Subs :
              /\ UNCHANGED <<key, next>>
              /\ \A r \in Own \ {s} : box'[r] = box[r] /\ due'[r] = due[r]
              /\ s \in Own => \E kept, some, lease : Serve(s, kept, some, lease)
<1>1. ASSUME NEW s \in Subs, NEW n \in Batches, NEW old \in 0 .. next - 1, Pull(s, n, old)
      PROVE  /\ UNCHANGED <<key, next>>
             /\ \A r \in Own \ {s} : box'[r] = box[r] /\ due'[r] = due[r]
             /\ s \in Own => \E kept, some, lease : Serve(s, kept, some, lease)
    <2>1. old \in Nat
        BY DEF PubSubInv, PSTypeOK
    <2>2. s \in Own => \E kept, some, lease : Serve(s, kept, some, lease)
        BY <1>1, <2>1, PullServes
    <2>3. UNCHANGED <<key, next>> /\ \A r \in Own \ {s} : box'[r] = box[r] /\ due'[r] = due[r]
        BY <1>1 DEF Pull, PubSubInv, PSTypeOK, Own, Ids
    <2>4. QED
        BY <2>2, <2>3
<1>2. ASSUME NEW s \in Subs, NEW m \in Messages, Ack(s, m)
      PROVE  /\ UNCHANGED <<key, next>>
             /\ \A r \in Own \ {s} : box'[r] = box[r] /\ due'[r] = due[r]
             /\ s \in Own => \E kept, some, lease : Serve(s, kept, some, lease)
    <2>1. s \in Own => \E kept, some, lease : Serve(s, kept, some, lease)
        BY <1>2, AckServes
    <2>2. UNCHANGED <<key, next>> /\ \A r \in Own \ {s} : box'[r] = box[r] /\ due'[r] = due[r]
        BY <1>2 DEF Ack, PubSubInv, PSTypeOK, Own, Ids
    <2>3. QED
        BY <2>1, <2>2
<1>3. ASSUME NEW s \in Subs, NEW some \in SUBSET box[s], NEW lease \in BOOLEAN,
             s \in Own => \A e \in some : e.given,
             Relet(s, some, lease), UNCHANGED <<records, key, next, due>>
      PROVE  /\ UNCHANGED <<key, next>>
             /\ \A r \in Own \ {s} : box'[r] = box[r] /\ due'[r] = due[r]
             /\ s \in Own => \E kept, all, now : Serve(s, kept, all, now)
    <2>1. s \in Own => \E kept, all, now : Serve(s, kept, all, now)
        BY <1>3, ReletServes DEF records
    <2>2. UNCHANGED <<key, next>> /\ \A r \in Own \ {s} : box'[r] = box[r] /\ due'[r] = due[r]
        BY <1>3 DEF Relet, PubSubInv, PSTypeOK, Own, Ids
    <2>3. QED
        BY <2>1, <2>2
<1>4. ASSUME NEW s \in Subs, NEW m \in Messages, NEW lease \in BOOLEAN,
             ModifyAckDeadline(s, m, lease)
      PROVE  /\ UNCHANGED <<key, next>>
             /\ \A r \in Own \ {s} : box'[r] = box[r] /\ due'[r] = due[r]
             /\ s \in Own => \E kept, all, now : Serve(s, kept, all, now)
    <2>1. Held(s, m) \in SUBSET box[s] /\ \A e \in Held(s, m) : e.given
        BY DEF Held
    <2>2. QED
        BY <1>3, <1>4, <2>1 DEF ModifyAckDeadline
<1>5. ASSUME NEW s \in Subs, NEW e \in box[s], Expire(s, e)
      PROVE  /\ UNCHANGED <<key, next>>
             /\ \A r \in Own \ {s} : box'[r] = box[r] /\ due'[r] = due[r]
             /\ s \in Own => \E kept, all, now : Serve(s, kept, all, now)
    <2>1. s \in Own => e.given
        BY <1>5 DEF PubSubInv, Sound, Queued, Expire
    <2>2. QED
        BY <1>3, <1>5, <2>1 DEF Expire
<1>6. QED
    BY <1>1, <1>2, <1>4, <1>5 DEF Deliver

LEMMA DeliverSound ==
    ASSUME PubSubInv, Deliver, NEW r \in Own
    PROVE  Sound(box[r], next, due[r])'
<1>1. PICK s \in Subs :
        /\ UNCHANGED <<key, next>>
        /\ \A q \in Own \ {s} : box'[q] = box[q] /\ due'[q] = due[q]
        /\ s \in Own => \E kept, some, lease : Serve(s, kept, some, lease)
    BY DeliverServes
<1>2. CASE r = s
    BY <1>1, <1>2, ServeSound
<1>3. CASE r # s
    <2>1. next' \in Nat /\ next' >= next
        BY <1>1 DEF PubSubInv, PSTypeOK
    <2>2. QED
        BY <1>1, <1>3, <2>1, SameSound
<1>4. QED
    BY <1>2, <1>3

\* One queue is arranged anew.
LEMMA BoxTyped ==
    ASSUME PSTypeOK, NEW s \in Subs, NEW q \in SUBSET Entry,
           NEW d \in SUBSET Messages,
           box' = [box EXCEPT ![s] = q], due' = [due EXCEPT ![s] = d],
           UNCHANGED <<records, key, next>>
    PROVE  PSTypeOK'
BY DEF PSTypeOK, records, Ids

LEMMA DeliverTyped ==
    ASSUME PSTypeOK, Deliver
    PROVE  PSTypeOK'
<1>1. \A s \in Subs : box[s] \subseteq Entry /\ due[s] \subseteq Messages
    BY DEF PSTypeOK, Ids
<1>2. ASSUME NEW s \in Subs, NEW n \in Batches, NEW old, Pull(s, n, old)
      PROVE  PSTypeOK'
    <2> DEFINE kept == {e \in box[s] : e.msg > old}
               got == First(Deliverable(kept), n)
               q == (kept \ got) \cup {[e EXCEPT !.leased = TRUE, !.given = TRUE] : e \in got}
               d == {m \in due[s] : m > old}
    <2>1. got \subseteq kept
        BY DEF First, Deliverable
    <2>2. kept \subseteq Entry
        BY <1>1
    <2>3. q \in SUBSET Entry
        <3> HIDE DEF got, kept
        <3>1. \A e \in got : [e EXCEPT !.leased = TRUE, !.given = TRUE] \in Entry
            BY <2>1, <2>2 DEF Entry
        <3>2. QED
            BY <2>2, <3>1
    <2>4. d \in SUBSET Messages
        BY <1>1
    <2>5. box' = [box EXCEPT ![s] = q] /\ due' = [due EXCEPT ![s] = d]
          /\ UNCHANGED <<records, key, next>>
        BY <1>2 DEF Pull
    <2>6. QED
        <3> HIDE DEF q, d
        <3>1. QED
            BY <2>3, <2>4, <2>5, BoxTyped
<1>3. ASSUME NEW s \in Subs, NEW m \in Messages, Ack(s, m)
      PROVE  PSTypeOK'
    <2>1. box[s] \ Held(s, m) \in SUBSET Entry /\ due[s] \ {m} \in SUBSET Messages
        BY <1>1
    <2>2. QED
        BY <1>3, <2>1, BoxTyped DEF Ack
<1>4. ASSUME NEW s \in Subs, NEW some \in SUBSET box[s], NEW lease \in BOOLEAN,
             Relet(s, some, lease), UNCHANGED <<records, key, next, due>>
      PROVE  PSTypeOK'
    <2> DEFINE q == (box[s] \ some) \cup {[e EXCEPT !.leased = lease] : e \in some}
    <2>1. \A e \in some : [e EXCEPT !.leased = lease] \in Entry
        BY <1>1 DEF Entry
    <2>2. q \in SUBSET Entry
        BY <1>1, <2>1
    <2>3. due' = [due EXCEPT ![s] = due[s]] /\ box' = [box EXCEPT ![s] = q]
        BY <1>4 DEF PSTypeOK, Relet
    <2>4. QED
        <3> HIDE DEF q
        <3>1. QED
            BY <1>1, <1>4, <2>2, <2>3, BoxTyped
<1>5. ASSUME NEW s \in Subs, NEW m \in Messages, NEW lease \in BOOLEAN,
             ModifyAckDeadline(s, m, lease)
      PROVE  PSTypeOK'
    BY <1>4, <1>5 DEF ModifyAckDeadline, Held
<1>6. ASSUME NEW s \in Subs, NEW e \in box[s], Expire(s, e)
      PROVE  PSTypeOK'
    BY <1>4, <1>6 DEF Expire
<1>7. QED
    BY <1>2, <1>3, <1>5, <1>6 DEF Deliver

LEMMA OperateTyped ==
    ASSUME PSTypeOK, Operate
    PROVE  PSTypeOK'
<1>1. ASSUME NEW t \in Topics, PutTopic(t) \/ BeginUpdateTopic(t) \/ EndUpdateTopic(t)
      PROVE  PSTypeOK'
    BY <1>1 DEF PutTopic, BeginUpdateTopic, EndUpdateTopic, queues, PSTypeOK
<1>2. ASSUME NEW t \in Topics, NEW s \in Subs, CreateTopic(t, s) \/ CreateSubscription(s, t)
      PROVE  PSTypeOK'
    BY <1>2 DEF CreateTopic, CreateSubscription, queues, PSTypeOK
<1>3. ASSUME NEW s \in Subs, BeginPatch(s) \/ EndPatch(s)
      PROVE  PSTypeOK'
    BY <1>3 DEF BeginPatch, EndPatch, queues, PSTypeOK
<1>4. ASSUME NEW S, NEW I, Forget(S, I)
      PROVE  /\ box' \in [Ids -> SUBSET Entry] /\ due' \in [Subs -> SUBSET Messages]
             /\ UNCHANGED <<key, next>>
    BY <1>4 DEF Forget, PSTypeOK
<1>5. ASSUME NEW t \in Topics, DeleteTopic(t)
      PROVE  PSTypeOK'
    <2>1. \E S, I : Forget(S, I)
        BY <1>5 DEF DeleteTopic
    <2>2. /\ topics' \subseteq Topics /\ subs' \in [Subs -> Topics \cup {NoTopic}]
          /\ UNCHANGED <<updating, patching>>
        BY <1>5 DEF DeleteTopic, PSTypeOK
    <2>3. QED
        BY <1>4, <2>1, <2>2 DEF PSTypeOK
<1>6. ASSUME NEW s \in Subs, Purge(s) \/ DeleteSubscription(s)
      PROVE  PSTypeOK'
    <2>1. \E S, I : Forget(S, I)
        BY <1>6 DEF Purge, DeleteSubscription
    <2>2. subs' \in [Subs -> Topics \cup {NoTopic}] /\ UNCHANGED <<topics, updating, patching>>
        BY <1>6 DEF Purge, DeleteSubscription, records, PSTypeOK
    <2>3. QED
        BY <1>4, <2>1, <2>2 DEF PSTypeOK
<1>7. ASSUME NEW t \in Topics, NEW k \in Keys \cup {NoKey}, Publish(t, k)
      PROVE  PSTypeOK'
    <2> DEFINE new(a) == [msg |-> next, ack |-> a, leased |-> FALSE, given |-> FALSE]
               S == {s \in Subs : subs[s] = t}
    <2>1. next \in Messages /\ next' = next + 1 /\ next' \in 1 .. MaxMessages + 1
        BY <1>7, PubSubAssumption DEF Publish, Messages
    <2>2. new(FALSE) \in Entry /\ new(TRUE) \in Entry
        BY <2>1 DEF Entry
    <2>3. box' = [i \in Ids |-> box[i] \cup {new(FALSE) : x \in {t} \cap {i}}
                                         \cup {new(TRUE) : x \in S \cap {i}}]
        BY <1>7 DEF Publish
    <2>4. box' \in [Ids -> SUBSET Entry]
        <3> HIDE DEF S, new
        <3>1. QED
            BY <2>2, <2>3 DEF PSTypeOK
    <2>5. due' \in [Subs -> SUBSET Messages] /\ key' \in [Messages -> Keys \cup {NoKey}]
        BY <1>7, <2>1 DEF Publish, PSTypeOK
    <2>6. QED
        BY <1>7, <2>1, <2>4, <2>5 DEF Publish, records, PSTypeOK
<1>8. QED
    BY <1>1, <1>2, <1>3, <1>5, <1>6, <1>7 DEF Operate

LEMMA PubSubStep ==
    ASSUME PubSubInv, [PSNext]_(psvars)
    PROVE  PubSubInv'
<1>1. CASE PSNext
    <2>1. PSTypeOK'
        BY <1>1, OperateTyped, DeliverTyped DEF PSNext, PubSubInv
    <2>2. \A s \in Own : Sound(box[s], next, due[s])'
        BY <1>1, OperateSound, DeliverSound DEF PSNext
    <2>3. QED
        BY <2>1, <2>2 DEF PubSubInv
<1>2. CASE UNCHANGED psvars
    <2>1. UNCHANGED <<topics, subs, box, key, next, updating, patching, due>>
        BY <1>2 DEF psvars
    <2>2. PSTypeOK'
        BY <2>1 DEF PubSubInv, PSTypeOK
    <2>3. next' \in Nat /\ next' >= next
        BY <2>1 DEF PubSubInv, PSTypeOK
    <2>4. QED
        BY <2>1, <2>2, <2>3, SameSound DEF PubSubInv
<1>3. QED
    BY <1>1, <1>2

LEMMA PubSubInvariant == PSSpec => []PubSubInv
<1>1. PSInit => PubSubInv
    BY PubSubInit
<1>2. PubSubInv /\ [PSNext]_(psvars) => PubSubInv'
    BY PubSubStep
<1>3. QED
    BY <1>1, <1>2, PTL DEF PSSpec

\* Topics, subscriptions, logs and queues are what they are taken for.
THEOREM PubSubTyped == PSSpec => []PSTypeOK
<1>1. PubSubInv => PSTypeOK
    BY DEF PubSubInv
<1>2. QED
    BY <1>1, PubSubInvariant, PTL

\* What is published to a subscription is in its queue, once, until it is
\* acknowledged, purged, too old or deleted with it, whatever becomes of its
\* topics meanwhile.
THEOREM QueuesAccount == PSSpec => []Accounted
<1>1. PubSubInv => Accounted
    BY DEF PubSubInv, Accounted, Sound, Once, Own
<1>2. QED
    BY <1>1, PubSubInvariant, PTL

\* The messages of a key reach the client one at a time and in order.
THEOREM KeysInOrder == PSSpec => []InOrder
<1>1. PubSubInv => InOrder
    BY DEF PubSubInv, InOrder, Sound, OldestGiven, Own
<1>2. QED
    BY <1>1, PubSubInvariant, PTL

\* An acknowledged message leaves the queue, unless the subscription has the id
\* of a topic: the run pubsub_default shows that it may then stay.
THEOREM AckRemoves ==
    ASSUME Subs \cap Topics = {}
    PROVE  PSSpec => AckedRemoved
<1> DEFINE Acked == \A s \in Subs, m \in Messages :
                         Ack(s, m) => \A e \in box'[s] : e.msg # m
<1>1. PubSubInv => Acked
    <2>1. SUFFICES ASSUME PubSubInv, NEW s \in Subs, NEW m \in Messages, Ack(s, m),
                          NEW e \in box'[s]
                   PROVE  e.msg # m
        OBVIOUS
    <2>2. s \in Own
        BY DEF Own
    <2>3. PubSubInv /\ \E kept, some, lease :
             Serve(s, kept, some, lease) /\ \A x \in kept : x.msg # m
        <3>1. \A x \in {y \in box[s] : y.msg # m} : x.msg # m
            OBVIOUS
        <3>2. QED
            BY <2>1, <2>2, <3>1, AckServes
    <2>4. PICK kept, some, lease : Serve(s, kept, some, lease) /\ \A x \in kept : x.msg # m
        BY <2>3
    <2>5. \E d \in kept : e.msg = d.msg
        BY <2>2, <2>3, <2>4, ServeEntries
    <2>6. QED
        BY <2>4, <2>5
<1>2. QED
    BY <1>1, PubSubInvariant, PTL DEF AckedRemoved

-----------------------------------------------------------------------------
(* A subscription as a broker. *)

Bodies(s) == {e.msg : e \in box[s]}
Leases(s) == [m \in Messages |-> {e.msg : e \in {x \in box[s] : x.msg = m /\ x.leased}}]

C(s) == INSTANCE Broker WITH
    Numbers <- Messages, held <- Bodies(s), leases <- Leases(s), next <- next

LEMMA LeasedIn ==
    ASSUME NEW s
    PROVE  \A m \in Messages :
              /\ \A h \in Leases(s)[m] : h = m
              /\ m \in Leases(s)[m] <=> \E x \in box[s] : x.msg = m /\ x.leased
BY DEF Leases

LEMMA LeasedInPrime ==
    ASSUME NEW s
    PROVE  \A m \in Messages :
              /\ \A h \in Leases(s)'[m] : h = m
              /\ m \in Leases(s)'[m] <=> \E x \in box'[s] : x.msg = m /\ x.leased
BY DEF Leases

LEMMA LeasesHeld ==
    ASSUME NEW s
    PROVE  \A m \in Messages \ Bodies(s)' : Leases(s)'[m] = {}
BY LeasedInPrime DEF Bodies

\* A queue that gets nothing new and whose leases do not begin.
LEMMA QueueEnds ==
    ASSUME NEW s, \A x \in box'[s] : x \in box[s], next' \in {next, next + 1}
    PROVE  C(s)!Next
<1>1. Bodies(s)' \subseteq Bodies(s)
    BY DEF Bodies
<1>2. \A m \in Messages : Leases(s)'[m] \subseteq Leases(s)[m]
    BY DEF Leases
<1>3. DOMAIN Leases(s)' = Messages
    BY DEF Leases
<1>4. C(s)!End
    BY <1>1, <1>2, <1>3, LeasesHeld DEF C!End, C!Ending
<1>5. QED
    BY <1>4 DEF C!Next

LEMMA PublishAccepts ==
    ASSUME PubSubInv, NEW t \in Topics, NEW k, Publish(t, k), NEW s \in Own
    PROVE  C(s)!Next
<1>1. next \in Messages /\ next' = next + 1 /\ s \in Subs /\ s \in Ids /\ s # t
    BY DEF Publish, Own, Ids
<1>2. CASE subs[s] # t
    <2>1. box'[s] = box[s]
        BY <1>1, <1>2 DEF Publish
    <2>2. QED
        BY <1>1, <2>1, QueueEnds
<1>3. CASE subs[s] = t
    <2> DEFINE e0 == [msg |-> next, ack |-> TRUE, leased |-> FALSE, given |-> FALSE]
    <2>1. box'[s] = box[s] \cup {e0}
        BY <1>1, <1>3 DEF Publish
    <2>2. e0.msg = next /\ ~e0.leased
        OBVIOUS
    <2> HIDE DEF e0
    <2>3. next \notin Bodies(s)
        BY <1>1 DEF PubSubInv, Sound, Queued, Bodies, Messages
    <2>4. Bodies(s)' = Bodies(s) \cup {next}
        BY <2>1, <2>2 DEF Bodies
    <2>5. \A m \in Messages : Leases(s)'[m] \subseteq Leases(s)[m]
        BY <2>1, <2>2, LeasedIn, LeasedInPrime
    <2>6. DOMAIN Leases(s)' = Messages
        BY DEF Leases
    <2>7. C(s)!Accept
        BY <1>1, <2>3, <2>4, <2>5, <2>6, LeasesHeld DEF C!Accept, C!Ending
    <2>8. QED
        BY <2>7 DEF C!Next
<1>4. QED
    BY <1>2, <1>3

LEMMA ServeLeases ==
    ASSUME PubSubInv, NEW s \in Own, NEW kept, NEW some, NEW lease, Serve(s, kept, some, lease)
    PROVE  C(s)!Next
<1> DEFINE N == {m \in Messages : \E y \in some : y.msg = m /\ ~y.leased /\ lease}
<1>1. /\ Sound(box[s], next, due[s]) /\ kept \subseteq box[s] /\ some \subseteq kept
      /\ next' = next /\ lease \in BOOLEAN
    BY DEF PubSubInv, Serve
<1>2. ASSUME NEW x \in box'[s]
      PROVE  \E y \in kept : x.msg = y.msg /\ (x.leased => y.leased \/ (y \in some /\ lease))
    BY ServeEntries
<1>3. ASSUME NEW y \in some, lease
      PROVE  \E x \in box'[s] : x.msg = y.msg /\ x.leased
    <2>1. PICK x \in box'[s] : x.msg = y.msg
        BY <1>1, ServeEntries
    <2>2. PICK w \in kept : x.msg = w.msg /\ (w \in some => x.leased = lease)
        BY ServeEntries
    <2>3. w = y
        BY <1>1, <2>1, <2>2 DEF Sound, Once
    <2>4. QED
        BY <1>3, <2>1, <2>2, <2>3
<1>4. Bodies(s)' \subseteq Bodies(s)
    BY <1>1, <1>2 DEF Bodies
<1>5. N \subseteq Bodies(s)'
    BY <1>3 DEF Bodies
<1>6. ASSUME NEW m \in N
      PROVE  Leases(s)[m] = {} /\ Leases(s)'[m] = {m}
    <2>1. PICK y \in some : y.msg = m /\ ~y.leased /\ lease
        OBVIOUS
    <2>2. \A x \in box[s] : x.msg = m => ~x.leased
        BY <1>1, <2>1 DEF Sound, Once
    <2>3. \E x \in box'[s] : x.msg = m /\ x.leased
        BY <1>3, <2>1
    <2>4. QED
        BY <2>2, <2>3, LeasedIn, LeasedInPrime
<1>7. ASSUME NEW m \in Messages \ N
      PROVE  Leases(s)'[m] \subseteq Leases(s)[m]
    <2>1. ASSUME NEW x \in box'[s], x.msg = m, x.leased
          PROVE  \E z \in box[s] : z.msg = m /\ z.leased
        BY <1>1, <1>2, <2>1
    <2>2. QED
        BY <2>1, LeasedIn, LeasedInPrime
<1>8. DOMAIN Leases(s)' = Messages
    BY DEF Leases
<1>9. C(s)!Lease(N)
    <2> HIDE DEF N
    <2>1. QED
        BY <1>1, <1>4, <1>5, <1>6, <1>7, <1>8, LeasesHeld DEF C!Lease
<1>10. QED
    BY <1>9 DEF C!Next

LEMMA OperateRefines ==
    ASSUME PubSubInv, Operate, NEW s \in Own
    PROVE  C(s)!Next
<1>0. s \in Ids
    BY DEF Ids, Own
<1>1. CASE \E t \in Topics, k \in Keys \cup {NoKey} : Publish(t, k)
    BY <1>1, PublishAccepts
<1>2. CASE UNCHANGED queues
    <2>1. box' = box /\ next' = next
        BY <1>2 DEF queues
    <2>2. QED
        BY <2>1, QueueEnds
<1>3. CASE \E S, I : Forget(S, I)
    <2>1. next' = next /\ \A x \in box'[s] : x \in box[s]
        BY <1>0, <1>3 DEF Forget
    <2>2. QED
        BY <2>1, QueueEnds
<1>4. QED
    BY <1>1, <1>2, <1>3
       DEF Operate, PutTopic, DeleteTopic, BeginUpdateTopic, EndUpdateTopic,
           CreateTopic, CreateSubscription, BeginPatch, EndPatch, Purge,
           DeleteSubscription

\* Every subscription whose id no topic has keeps the contract SQS keeps: a
\* message is accepted once, is leased to one client at a time, and does not
\* come back once it is gone, whatever is patched, purged, deleted or made anew.
THEOREM SubscriptionKeepsContract ==
    ASSUME NEW s \in Own
    PROVE  PSSpec => C(s)!Spec
<1>1. PSInit => C(s)!Init
    <2>1. PSInit => box[s] = {} /\ next = 1
        BY DEF PSInit, Own, Ids
    <2>2. QED
        BY <2>1 DEF C!Init, Bodies, Leases
<1>2. PubSubInv /\ [PSNext]_(psvars) => [C(s)!Next]_(C(s)!vars)
    <2>1. SUFFICES ASSUME PubSubInv, [PSNext]_(psvars)
                   PROVE  C(s)!Next
        OBVIOUS
    <2>2. CASE Operate
        BY <2>1, <2>2, OperateRefines
    <2>3. CASE Deliver
        <3>1. PICK r \in Subs :
                /\ UNCHANGED <<key, next>>
                /\ \A q \in Own \ {r} : box'[q] = box[q] /\ due'[q] = due[q]
                /\ r \in Own => \E kept, some, lease : Serve(r, kept, some, lease)
            BY <2>1, <2>3, DeliverServes
        <3>2. CASE r = s
            BY <2>1, <3>1, <3>2, ServeLeases
        <3>3. CASE r # s
            BY <3>1, <3>3, QueueEnds
        <3>4. QED
            BY <3>2, <3>3
    <2>4. CASE UNCHANGED psvars
        <3>1. box' = box /\ next' = next
            BY <2>4 DEF psvars
        <3>2. QED
            BY <3>1, QueueEnds
    <2>5. QED
        BY <2>1, <2>2, <2>3, <2>4 DEF PSNext
<1>3. QED
    BY <1>1, <1>2, PubSubInvariant, PTL DEF PSSpec, C!Spec

=============================================================================
