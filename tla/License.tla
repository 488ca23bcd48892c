------------------------------ MODULE License ------------------------------
(***************************************************************************)
(* The licence of an installation: core/license_remote.py and the handlers *)
(* of server.py that put a token of the portal in force.                   *)
(*                                                                         *)
(* Three processes change it: the requests of the event loop, one at a     *)
(* time ("web"), the thread that polls the revocation list ("poll") and    *)
(* the one that refreshes the token ("loop").  Each reads the licence,     *)
(* calls the portal without a lock, and writes twice: the token, and the   *)
(* tier of the deployment and of one tenant, which is the active one or    *)
(* that of the request's header.  Others may come in between.  The portal  *)
(* is modelled from these calls.                                           *)
(*                                                                         *)
(* Token and claims are written together and are one variable, like the    *)
(* two tiers.  Left out: signatures, audience and expiry (a token that     *)
(* does not verify is a failed call), sub_expires_at, seats.               *)
(***************************************************************************)
EXTENDS Naturals, FiniteSets

CONSTANTS
    Paid,          \* the paid tiers
    Jtis,          \* ids of tokens; one that nobody knows any more is used again
    NoJti,
    Tenants,
    NoTenant,      \* of a request without the header
    DefaultTenant,
    MaxRevoked,    \* bound: tokens the portal revokes
    MaxRestarts,   \* bound: restarts of the simulator
    Loads          \* bound: what happens in one behaviour besides refreshes

Free == "free"
Tiers == Paid \cup {Free}
Ops == {"activate", "refresh", "logout", "check", "revoke", "switch", "restart",
        "header", "admin", "subscribe"}

ASSUME LicenseAssumption ==
    /\ Paid # {} /\ Free \notin Paid /\ "none" \notin Paid
    /\ NoJti \notin Jtis /\ NoTenant \notin Tenants
    /\ DefaultTenant \in Tenants /\ MaxRevoked \in Nat /\ MaxRestarts \in Nat
    /\ Loads \subseteq SUBSET Ops

Token == [jti : Jtis, tier : Tiers]
NoToken == [jti |-> NoJti, tier |-> Free]

VARIABLES
    load,       \* the member of Loads this behaviour keeps to
    plan,       \* portal: the tier the account has paid for
    revoked,    \* portal: the revoked jtis
    pending,    \* device_auth.pending is set
    held,       \* license_jwt and license_claims
    licence,    \* license.tier of the deployment
    tier,       \* tier[t]: license_tier of tenant t, or "none"
    active,     \* active_tenant_id
    blocked,    \* license_revoked_jtis
    call,       \* call[p]: the call of p to the portal
    listed,     \* the answer on its way to "poll"
    saved,      \* the state saved last
    restarts,
    crossed,    \* history: see TierMatches
    torn        \* history: a write came between the two of another process

portal == <<load, plan, revoked>>
owned == <<pending, held, licence, tier, active, blocked, crossed, torn, saved>>
vars == <<portal, owned, call, listed, restarts>>

Procs == {"web", "poll", "loop"}
NoCall == [op |-> "none", who |-> NoTenant, token |-> NoToken, answer |-> "none",
           new |-> NoToken]

\* Those between their two writes.
Mid == {p \in Procs : call[p].answer \in {"stored", "dropped"}}

\* What is saved before anything happened.
Blank == [pending |-> FALSE, held |-> NoToken, licence |-> Free,
          tier |-> [t \in Tenants |-> Free], active |-> DefaultTenant, blocked |-> {},
          crossed |-> FALSE]
Snapshot == [pending |-> pending, held |-> held, licence |-> licence, tier |-> tier,
             active |-> active, blocked |-> blocked, crossed |-> crossed \/ Mid # {}]

Call == [op : {"none", "activate", "refresh", "check", "logout"},
         who : Tenants \cup {NoTenant}, token : Token \cup {NoToken},
         answer : {"none", "token", "list", "failed", "denied", "expired", "stored",
                   "dropped"},
         new : Token \cup {NoToken}]
Saved == [pending : BOOLEAN, held : Token \cup {NoToken}, licence : Tiers,
          tier : [Tenants -> Tiers \cup {"none"}], active : Tenants,
          blocked : SUBSET Jtis, crossed : BOOLEAN]

TypeOK ==
    /\ load \in Loads
    /\ plan \in Tiers /\ revoked \subseteq Jtis
    /\ pending \in BOOLEAN
    /\ held \in Token \cup {NoToken}
    /\ licence \in Tiers
    /\ tier \in [Tenants -> Tiers \cup {"none"}]
    /\ active \in Tenants
    /\ blocked \subseteq Jtis /\ listed \subseteq Jtis
    /\ call \in [Procs -> Call]
    /\ saved \in Saved
    /\ restarts \in 0 .. MaxRestarts /\ crossed \in BOOLEAN /\ torn \in BOOLEAN

Init ==
    /\ load \in Loads
    /\ plan \in Tiers /\ revoked = {} /\ pending = FALSE
    /\ held = NoToken
    /\ licence = Free /\ tier = [t \in Tenants |-> Free] /\ active = DefaultTenant
    /\ blocked = {} /\ listed = {}
    /\ call = [p \in Procs |-> NoCall]
    /\ restarts = 0 /\ crossed = FALSE /\ torn = FALSE
    /\ saved = Blank

-----------------------------------------------------------------------------
(* The portal. *)
Subscribe(new) ==
    /\ "subscribe" \in load
    /\ plan' = new
    /\ UNCHANGED <<load, revoked, owned, call, listed, restarts>>

Known == {held.jti} \cup {call[p].token.jti : p \in Procs}
            \cup {call[p].new.jti : p \in Procs} \cup revoked \cup blocked \cup listed
            \cup {saved.held.jti} \cup saved.blocked
Revoke(j) ==
    /\ "revoke" \in load /\ Cardinality(revoked) < MaxRevoked
    /\ j \in Known \ (revoked \cup {NoJti})
    /\ revoked' = revoked \cup {j}
    /\ UNCHANGED <<load, plan, owned, call, listed, restarts>>

\* The portal gives p a token, its jti is new, of the tier paid for by then.
Mint(p) ==
    /\ Jtis \ Known # {}
    /\ call' = [call EXCEPT ![p] = [@ EXCEPT !.answer = "token",
                   !.new = [jti |-> CHOOSE j \in Jtis \ Known : TRUE, tier |-> plan]]]
Answer(p, a) == call' = [call EXCEPT ![p].answer = a]
Waiting(p, op) == call[p].op = op /\ call[p].answer = "none"

\* Approved, not yet approved or not reached, expired.
AnswerActivation ==
    /\ Waiting("web", "activate")
    /\ Mint("web") \/ Answer("web", "failed") \/ Answer("web", "expired")
    /\ UNCHANGED <<portal, owned, listed, restarts>>

Refreshed(p) ==
    /\ Waiting(p, "refresh")
    /\ IF call[p].token.jti \in revoked THEN Answer(p, "denied") ELSE Mint(p)
    /\ UNCHANGED <<portal, owned, listed, restarts>>
NotRefreshed(p) ==
    /\ Waiting(p, "refresh")
    /\ Answer(p, "failed")
    /\ UNCHANGED <<portal, owned, listed, restarts>>

\* A list that does not arrive is an empty list.
Listed ==
    /\ Waiting("poll", "check")
    /\ Answer("poll", "list") /\ listed' = revoked
    /\ UNCHANGED <<portal, owned, restarts>>
NotListed ==
    /\ Waiting("poll", "check")
    /\ Answer("poll", "list") /\ listed' = {}
    /\ UNCHANGED <<portal, owned, restarts>>

-----------------------------------------------------------------------------
(* What a call begins and ends with. *)
Begin(p, op, token) ==
    /\ call[p] = NoCall
    /\ \E who \in IF p = "web" /\ "header" \in load THEN Tenants ELSE {NoTenant} :
          call' = [call EXCEPT ![p] = [NoCall EXCEPT !.op = op, !.who = who,
                                                     !.token = token]]
    /\ UNCHANGED <<portal, owned, listed, restarts>>
Answered(p, op) ==
    /\ call[p].op = op /\ call[p].answer \notin {"none", "stored", "dropped"}
    /\ UNCHANGED <<portal, active, saved, restarts>>
Over(p) == call' = [call EXCEPT ![p] = NoCall]

\* The whole state is saved, with what this step did; or the save fails.  What is
\* saved is followed in the behaviours that restart: nothing else reads it.
Persist == saved' \in IF "restart" \in load /\ restarts < MaxRestarts
                      THEN {saved, Snapshot'} ELSE {saved}

\* The two writes of p, and a write that is alone.
FirstWrite(p, answer, new) ==
    /\ call' = [call EXCEPT ![p] = [@ EXCEPT !.answer = answer, !.token = NoToken,
                                             !.new = new]]
    /\ torn' = (torn \/ Mid # {}) /\ UNCHANGED crossed
SecondWrite(p, agree) ==
    /\ Over(p)
    /\ crossed' = (torn \/ Mid # {p} \/ ~agree)
    /\ torn' = (torn /\ Mid # {p})
SingleWrite(agree) ==
    /\ crossed' = (crossed \/ ~agree)
    /\ torn' = (torn \/ Mid # {})
Kept == UNCHANGED <<held, licence, tier, crossed, torn>>

\* The tenant whose tier p writes.
TenantOf(p) == IF call[p].who = NoTenant THEN active ELSE call[p].who

PutInForce(t, token) ==
    /\ licence' = token.tier
    /\ tier' = [tier EXCEPT ![t] = token.tier]

\* Mutant: the tenant keeps its tier.
Wrong_Revert(t) == licence' = Free /\ UNCHANGED tier
Revert(t) ==
    /\ licence' = Free
    /\ tier' = [tier EXCEPT ![t] = "none"]

\* A logout, a revocation and a denied refresh of the loop: the token goes first.
\* Mutant: the token stays.
Wrong_Drop(p) ==
    /\ UNCHANGED <<held, licence, tier>>
    /\ FirstWrite(p, "dropped", NoToken)
Drop(p) ==
    /\ held' = NoToken
    /\ UNCHANGED <<licence, tier>>
    /\ FirstWrite(p, "dropped", NoToken)
Dropped(p) ==
    /\ call[p].answer = "dropped"
    /\ Revert(TenantOf(p))
    /\ SecondWrite(p, TenantOf(p) = active)
    /\ UNCHANGED <<portal, pending, held, active, blocked, listed, restarts>>
    /\ Persist

StartActivation ==
    /\ call["web"] = NoCall
    /\ "activate" \in load
    /\ pending' = TRUE
    /\ UNCHANGED <<portal, held, licence, tier, active, blocked, crossed, torn, call,
                   listed, restarts>>
    /\ Persist

\* device/poll and poll-activation: the tiers, then the token.
BeginActivation == "activate" \in load /\ pending /\ Begin("web", "activate", NoToken)
EndActivation ==
    LET a == call["web"].answer
        new == call["web"].new
    IN  /\ Answered("web", "activate")
        /\ IF a = "token" /\ new.jti \notin blocked
           THEN /\ PutInForce(TenantOf("web"), new) /\ FirstWrite("web", "stored", new)
                /\ UNCHANGED <<held, pending>>
           ELSE /\ Kept /\ Over("web")
                /\ pending' = (pending /\ a # "expired")
        /\ UNCHANGED <<blocked, listed>>
Activated ==
    /\ call["web"].op = "activate" /\ call["web"].answer = "stored"
    /\ held' = call["web"].new
    /\ pending' = FALSE
    /\ SecondWrite("web", TenantOf("web") = active)
    /\ UNCHANGED <<portal, licence, tier, active, blocked, listed, restarts>>
    /\ Persist

BeginLogout == "logout" \in load /\ Begin("web", "logout", NoToken)
Logout ==
    /\ call["web"].op = "logout" /\ call["web"].answer = "none"
    /\ Drop("web")
    /\ UNCHANGED <<portal, pending, active, blocked, saved, listed, restarts>>

\* refresh_token, for a request and for the loop.
BeginRefresh(p) ==
    /\ p = "loop" \/ "refresh" \in load
    /\ held # NoToken /\ Begin(p, "refresh", held)

\* The new token is stored whatever is held by now.  A request always puts the
\* tier in force; the loop when the tier is not the one it had read.
Wrong_Propagates(p) == p = "web"
Propagates(p) == p = "web" \/ call[p].new.tier # call[p].token.tier
EndRefresh(p) ==
    LET a == call[p].answer
    IN  /\ Answered(p, "refresh")
        /\ \/ /\ a = "token" /\ held' = call[p].new
              /\ \/ Propagates(p) /\ FirstWrite(p, "stored", NoToken)
                 \/ ~Propagates(p) /\ SingleWrite(held = call[p].token) /\ Over(p)
              /\ UNCHANGED <<licence, tier>>
           \/ a = "denied" /\ p = "loop" /\ Drop(p)
           \/ (a = "failed" \/ (a = "denied" /\ p = "web")) /\ Kept /\ Over(p)
        /\ UNCHANGED <<pending, blocked, listed>>

\* What is put in force is what is held by now; the loop does nothing without one.
Propagate(p) ==
    /\ call[p].op = "refresh" /\ call[p].answer = "stored"
    /\ \/ held # NoToken /\ PutInForce(TenantOf(p), held)
       \/ held = NoToken /\ p = "web" /\ Revert(TenantOf(p))
       \/ held = NoToken /\ p = "loop" /\ UNCHANGED <<licence, tier>>
    /\ SecondWrite(p, TenantOf(p) = active)
    /\ UNCHANGED <<portal, pending, held, active, blocked, listed, restarts>>
    /\ Persist

\* _poll_once: what it drops is what is held by now.
BeginCheck ==
    /\ "check" \in load
    /\ held # NoToken /\ Begin("poll", "check", [NoToken EXCEPT !.jti = held.jti])
EndCheck ==
    /\ Answered("poll", "check")
    /\ blocked' = listed /\ listed' = {}
    /\ IF call["poll"].token.jti \in listed THEN Drop("poll") ELSE Kept /\ Over("poll")
    /\ UNCHANGED pending

\* An activation with the key of the administrator: a tier without a token.
AdminActivates(x) ==
    /\ "admin" \in load
    /\ licence' = x
    /\ SingleWrite(FALSE)
    /\ UNCHANGED <<portal, pending, held, tier, active, blocked, call, listed, restarts>>
    /\ Persist

\* The tenant in force changes, the licence does not follow.
Switch(t) ==
    /\ "switch" \in load /\ t # active
    /\ active' = t
    /\ SingleWrite(FALSE)
    /\ UNCHANGED <<portal, pending, held, licence, tier, blocked, call, listed, restarts>>
    /\ Persist

\* What follows a request in whatever service.
Save ==
    /\ UNCHANGED <<portal, pending, held, licence, tier, active, blocked, crossed, torn,
                   call, listed, restarts>>
    /\ Persist

\* Calls are lost, and the state saved last is read back.
Restart ==
    /\ "restart" \in load /\ restarts < MaxRestarts
    /\ restarts' = restarts + 1
    /\ call' = [p \in Procs |-> NoCall] /\ listed' = {}
    /\ pending' = saved.pending /\ held' = saved.held /\ licence' = saved.licence
    /\ tier' = saved.tier /\ active' = saved.active /\ blocked' = saved.blocked
    /\ crossed' = saved.crossed /\ torn' = FALSE
    /\ saved' = IF restarts' < MaxRestarts THEN saved ELSE Blank
    /\ UNCHANGED portal

Next ==
    \/ \E x \in Tiers : Subscribe(x) \/ AdminActivates(x)
    \/ StartActivation \/ BeginActivation \/ AnswerActivation \/ EndActivation \/ Activated
    \/ \E j \in Jtis : Revoke(j)
    \/ \E p \in {"web", "loop"} :
          \/ BeginRefresh(p) \/ Refreshed(p) \/ NotRefreshed(p)
          \/ EndRefresh(p) \/ Propagate(p)
    \/ BeginCheck \/ Listed \/ NotListed \/ EndCheck
    \/ BeginLogout \/ Logout
    \/ \E p \in Procs : Dropped(p)
    \/ Save \/ Restart
    \/ \E t \in Tenants : Switch(t)

\* The two threads run for ever, a call ends, it has a timeout, what is begun is
\* written to the end, and the portal answers the threads again and again.
Ends(p) == \/ p = "web" /\ (AnswerActivation \/ EndActivation \/ Activated \/ Logout)
           \/ Refreshed(p) \/ NotRefreshed(p) \/ EndRefresh(p) \/ Propagate(p)
           \/ Dropped(p)
Fairness ==
    /\ WF_vars(BeginCheck) /\ SF_vars(Listed) /\ WF_vars(EndCheck)
    /\ WF_vars(Dropped("poll"))
    /\ SF_vars(BeginRefresh("loop")) /\ SF_vars(Refreshed("loop"))
    /\ \A p \in {"web", "loop"} : WF_vars(Ends(p))
Spec == Init /\ [][Next]_vars /\ Fairness

-----------------------------------------------------------------------------
Effective == IF tier[active] = "none" THEN licence ELSE tier[active]

\* Once nobody is between its two writes, the tier the active tenant is served with
\* is the one of the token the installation holds, free without one, whatever
\* requests, threads and restarts did at the same time.  Five things excuse it, until
\* a token is put in force or dropped undisturbed: a write between the two of another
\* process; the loop stored a token of the tier it had read over another licence than
\* it had read; a request had another tenant's header; the tenant was switched; an
\* administrator set the tier.
TierMatches == Mid = {} /\ ~crossed => Effective = held.tier

\* A revoked licence is dropped, if the portal can be reached again and again.
RevokedDropped ==
    \A j \in Jtis : held.jti = j /\ j \in revoked ~> held.jti # j

\* An account that stays free ends up with the free tier, or with one of the
\* mismatches that TierMatches excuses, which no refresh of the loop repairs.
DowngradeReaches ==
    <>[](plan = Free) => <>[](crossed \/ Effective = Free)
=============================================================================
