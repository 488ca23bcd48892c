--------------------------- MODULE LicenseProofs ---------------------------
(***************************************************************************)
(* Proofs about License for any tiers, tenants and tokens, and for any mix *)
(* of requests.  TierMatches speaks of the moments when nobody is between  *)
(* two writes; MidSound says what holds in between: undisturbed, there is  *)
(* one writer, and its first write left what its second one relies on.     *)
(* SavedMatches says the same of the state that a restart reads back.      *)
(***************************************************************************)
EXTENDS License, TLAPS

Minted == \A p \in Procs : call[p].answer = "token" => call[p].new \in Token

MidSound ==
    ~torn =>
        /\ \A p, q \in Mid : p = q
        /\ \A p \in Mid :
              /\ call[p].answer = "dropped" => held = NoToken
              /\ call[p].answer = "stored" /\ call[p].op = "refresh" => held # NoToken
              /\ call[p].answer = "stored" /\ call[p].op = "activate" =>
                    /\ licence = call[p].new.tier
                    /\ tier[TenantOf(p)] = call[p].new.tier

SavedMatches ==
    ~saved.crossed =>
        (IF saved.tier[saved.active] = "none" THEN saved.licence
         ELSE saved.tier[saved.active]) = saved.held.tier

IInv == TypeOK /\ Minted /\ TierMatches /\ MidSound /\ SavedMatches

\* The tiers are no "none", which stands for a tenant without a tier.
LEMMA TierIsSet == \A t \in Tiers : t # "none"
BY LicenseAssumption DEF Tiers, Free

LEMMA TokensTyped ==
    /\ \A x \in Token \cup {NoToken} : x.tier \in Tiers
    /\ \A x \in Token : x # NoToken
    /\ NoToken.tier = Free /\ Free \in Tiers
BY LicenseAssumption DEF Token, NoToken, Tiers

LEMMA NoCallTyped == NoCall \in Call
BY DEF NoCall, Call

----------------------------------------------------------------------------
(* The calls after a step. *)

LEMMA MintTyped ==
    ASSUME TypeOK, NEW p \in Procs, Mint(p)
    PROVE  /\ call' \in [Procs -> Call]
           /\ call'[p].answer = "token" /\ call'[p].new \in Token
           /\ \A q \in Procs \ {p} : call'[q] = call[q]
<1> DEFINE new == [jti |-> CHOOSE j \in Jtis \ Known : TRUE, tier |-> plan]
<1>1. new \in Token
    BY DEF Mint, TypeOK, Token
<1>2. call \in [Procs -> Call] /\ call[p] \in Call
    BY DEF TypeOK
<1>3. [call[p] EXCEPT !.answer = "token", !.new = new] \in Call
    BY <1>1, <1>2 DEF Call
<1>4. call' = [call EXCEPT ![p] = [call[p] EXCEPT !.answer = "token", !.new = new]]
    BY <1>2 DEF Mint
<1>5. [call[p] EXCEPT !.answer = "token", !.new = new].new = new
      /\ [call[p] EXCEPT !.answer = "token", !.new = new].answer = "token"
    BY <1>2 DEF Call
<1> HIDE DEF new
<1>6. QED
    BY <1>1, <1>2, <1>3, <1>4, <1>5

LEMMA AnswerTyped ==
    ASSUME TypeOK, NEW p \in Procs,
           NEW a \in {"list", "failed", "denied", "expired"}, Answer(p, a)
    PROVE  /\ call' \in [Procs -> Call] /\ call'[p].answer = a
           /\ \A q \in Procs \ {p} : call'[q] = call[q]
<1>1. call \in [Procs -> Call] /\ call[p] \in Call
    BY DEF TypeOK
<1>2. [call[p] EXCEPT !.answer = a] \in Call /\ [call[p] EXCEPT !.answer = a].answer = a
    BY <1>1 DEF Call
<1>3. QED
    BY <1>1, <1>2 DEF Answer

LEMMA BeginTyped ==
    ASSUME TypeOK, NEW p \in Procs, NEW op \in {"activate", "refresh", "check", "logout"},
           NEW token \in Token \cup {NoToken}, Begin(p, op, token)
    PROVE  /\ call' \in [Procs -> Call] /\ call'[p].answer = "none"
           /\ \A q \in Procs \ {p} : call'[q] = call[q]
<1>1. PICK who \in Tenants \cup {NoTenant} :
          call' = [call EXCEPT ![p] = [NoCall EXCEPT !.op = op, !.who = who,
                                                     !.token = token]]
    BY DEF Begin
<1>2. [NoCall EXCEPT !.op = op, !.who = who, !.token = token] \in Call
      /\ [NoCall EXCEPT !.op = op, !.who = who, !.token = token].answer = "none"
    BY DEF NoCall, Call
<1>3. QED
    BY <1>1, <1>2 DEF TypeOK

LEMMA OverTyped ==
    ASSUME TypeOK, NEW p \in Procs, Over(p)
    PROVE  /\ call' \in [Procs -> Call] /\ call'[p].answer = "none"
           /\ \A q \in Procs \ {p} : call'[q] = call[q]
<1>1. NoCall.answer = "none"
    BY DEF NoCall
<1>2. QED
    BY <1>1, NoCallTyped DEF Over, TypeOK

LEMMA FirstTyped ==
    ASSUME TypeOK, NEW p \in Procs, NEW a \in {"stored", "dropped"},
           NEW new \in Token \cup {NoToken}, FirstWrite(p, a, new)
    PROVE  /\ call' \in [Procs -> Call]
           /\ call'[p].answer = a /\ call'[p].op = call[p].op
           /\ call'[p].who = call[p].who /\ call'[p].new = new
           /\ \A q \in Procs \ {p} : call'[q] = call[q]
<1> DEFINE c == [call[p] EXCEPT !.answer = a, !.token = NoToken, !.new = new]
<1>1. call \in [Procs -> Call] /\ call[p] \in Call
    BY DEF TypeOK
<1>2. c \in Call /\ c.answer = a /\ c.op = call[p].op /\ c.who = call[p].who
      /\ c.new = new
    BY <1>1 DEF Call
<1>3. call' = [call EXCEPT ![p] = c]
    BY DEF FirstWrite
<1> HIDE DEF c
<1>4. QED
    BY <1>1, <1>2, <1>3

\* What is saved is well typed when what there is is.
LEMMA PersistTyped ==
    ASSUME saved \in Saved, Persist,
           pending' \in BOOLEAN, held' \in Token \cup {NoToken}, licence' \in Tiers,
           tier' \in [Tenants -> Tiers \cup {"none"}], active' \in Tenants,
           blocked' \subseteq Jtis, crossed' \in BOOLEAN
    PROVE  saved' \in Saved /\ saved' \in {saved, Snapshot'}
<1>1. saved' \in {saved, Snapshot'}
    BY DEF Persist
<1>2. (crossed' \/ Mid' # {}) \in BOOLEAN
    OBVIOUS
<1>3. Snapshot' \in Saved
    BY <1>2 DEF Snapshot, Saved
<1>4. QED
    BY <1>1, <1>3

----------------------------------------------------------------------------
(* The kinds of step: one that writes nothing of the licence, the first of  *)
(* two writes, the second, and one that is alone.                           *)

LEMMA SavedKept ==
    ASSUME SavedMatches, TierMatches', saved' \in {saved, Snapshot'}
    PROVE  SavedMatches'
<1>1. CASE saved' = saved
    BY <1>1 DEF SavedMatches
<1>2. CASE saved' = Snapshot'
    BY <1>2 DEF SavedMatches, Snapshot, TierMatches, Effective
<1>3. QED
    BY <1>1, <1>2

LEMMA QuietKeeps ==
    ASSUME IInv, TypeOK', Minted', saved' \in {saved, Snapshot'},
           UNCHANGED <<held, licence, tier, active, crossed, torn>>,
           Mid' = Mid, \A p \in Mid : call'[p] = call[p]
    PROVE  IInv'
<1>1. TierMatches'
    BY DEF IInv, TierMatches, Effective
<1>2. MidSound'
    BY DEF IInv, MidSound, TenantOf
<1>3. QED
    BY <1>1, <1>2, SavedKept DEF IInv

LEMMA FirstKeeps ==
    ASSUME IInv, TypeOK', Minted', saved' = saved,
           NEW p \in Procs, NEW a \in {"stored", "dropped"},
           NEW new \in Token \cup {NoToken}, FirstWrite(p, a, new),
           call[p].answer \notin {"stored", "dropped"}, active' = active,
           a = "dropped" => held' = NoToken,
           a = "stored" /\ call[p].op = "refresh" => held' # NoToken,
           a = "stored" /\ call[p].op = "activate" =>
              licence' = new.tier /\ tier'[TenantOf(p)] = new.tier
    PROVE  IInv'
<1>1. /\ call'[p].answer = a /\ call'[p].op = call[p].op
      /\ call'[p].who = call[p].who /\ call'[p].new = new
      /\ \A q \in Procs \ {p} : call'[q] = call[q]
    BY FirstTyped DEF IInv
<1>2. Mid' = Mid \cup {p} /\ p \notin Mid
    BY <1>1 DEF Mid
<1>3. TierMatches'
    BY <1>2 DEF TierMatches
<1>4. MidSound'
    <2> SUFFICES ASSUME ~torn' PROVE MidSound'
        BY DEF MidSound
    <2>1. Mid' = {p}
        BY <1>2 DEF FirstWrite
    <2>2. TenantOf(p)' = TenantOf(p)
        BY <1>1 DEF TenantOf
    <2>3. QED
        BY <1>1, <2>1, <2>2 DEF MidSound
<1>5. QED
    BY <1>3, <1>4, SavedKept DEF IInv

LEMMA SecondKeeps ==
    ASSUME IInv, TypeOK', Minted', saved' \in {saved, Snapshot'},
           NEW p \in Mid, NEW agree \in BOOLEAN, SecondWrite(p, agree),
           ~torn /\ agree => Effective' = held'.tier
    PROVE  IInv'
<1>1. p \in Procs
    BY DEF Mid
<1>2. call'[p].answer = "none" /\ \A q \in Procs \ {p} : call'[q] = call[q]
    BY <1>1, OverTyped DEF IInv, SecondWrite
<1>3. Mid' = Mid \ {p}
    BY <1>1, <1>2 DEF Mid
<1>4. TierMatches'
    BY <1>3 DEF TierMatches, SecondWrite
<1>5. ~torn' => Mid' = {}
    BY <1>3 DEF SecondWrite, IInv, MidSound
<1>6. MidSound'
    BY <1>5 DEF MidSound
<1>7. QED
    BY <1>4, <1>6, SavedKept DEF IInv

LEMMA SingleKeeps ==
    ASSUME IInv, TypeOK', Minted', saved' \in {saved, Snapshot'},
           NEW agree \in BOOLEAN, SingleWrite(agree), Mid' = Mid,
           agree /\ Mid = {} /\ ~crossed => Effective' = held'.tier
    PROVE  IInv'
<1>1. TierMatches'
    BY DEF TierMatches, SingleWrite
<1>2. ~torn' => Mid' = {}
    BY DEF SingleWrite
<1>3. MidSound'
    BY <1>2 DEF MidSound
<1>4. QED
    BY <1>1, <1>3, SavedKept DEF IInv

----------------------------------------------------------------------------
(* One lemma per action that writes. *)

\* What an answered call knows.
LEMMA AnsweredFacts ==
    ASSUME IInv, NEW p \in Procs
    PROVE  /\ call[p] \in Call /\ call[p].new \in Token \cup {NoToken}
           /\ call[p].token \in Token \cup {NoToken}
           /\ TenantOf(p) \in Tenants
           /\ call[p].answer = "token" => call[p].new \in Token
           /\ p \in Mid <=> call[p].answer \in {"stored", "dropped"}
BY DEF IInv, TypeOK, Call, Minted, Mid, TenantOf

LEMMA PutTyped ==
    ASSUME TypeOK, NEW t \in Tenants, NEW token \in Token \cup {NoToken},
           PutInForce(t, token)
    PROVE  /\ licence' \in Tiers /\ tier' \in [Tenants -> Tiers \cup {"none"}]
           /\ licence' = token.tier /\ tier'[t] = token.tier /\ tier'[t] # "none"
BY TierIsSet, TokensTyped DEF PutInForce, TypeOK

LEMMA RevertTyped ==
    ASSUME TypeOK, NEW t \in Tenants, Revert(t)
    PROVE  /\ licence' \in Tiers /\ tier' \in [Tenants -> Tiers \cup {"none"}]
           /\ licence' = Free /\ tier'[t] = "none"
BY TokensTyped DEF Revert, TypeOK

LEMMA WroteTyped ==
    ASSUME TypeOK, NEW p, NEW agree \in BOOLEAN,
           SecondWrite(p, agree) \/ SingleWrite(agree)
    PROVE  crossed' \in BOOLEAN /\ torn' \in BOOLEAN
<1>1. CASE SecondWrite(p, agree)
    BY <1>1 DEF SecondWrite, TypeOK
<1>2. CASE SingleWrite(agree)
    BY <1>2 DEF SingleWrite, TypeOK
<1>3. QED
    BY <1>1, <1>2

\* The end of a call without a write, and a dropped token.
LEMMA OverKeeps ==
    ASSUME IInv, NEW p \in Procs, Over(p), Kept,
           call[p].answer \notin {"stored", "dropped"},
           UNCHANGED <<portal, active, saved, restarts>>,
           pending' \in BOOLEAN, blocked' \subseteq Jtis, listed' \subseteq Jtis
    PROVE  IInv'
<1>1. /\ call' \in [Procs -> Call] /\ call'[p].answer = "none"
      /\ \A q \in Procs \ {p} : call'[q] = call[q]
    BY OverTyped DEF IInv
<1>2. TypeOK'
    BY <1>1 DEF IInv, TypeOK, Kept, portal
<1>3. Minted'
    BY <1>1 DEF IInv, Minted
<1>4. Mid' = Mid /\ \A q \in Mid : call'[q] = call[q]
    BY <1>1 DEF Mid
<1>5. QED
    BY <1>2, <1>3, <1>4, QuietKeeps DEF Kept

LEMMA DropKeeps ==
    ASSUME IInv, NEW p \in Procs, Drop(p),
           call[p].answer \notin {"stored", "dropped"},
           UNCHANGED <<portal, active, saved, restarts>>,
           pending' \in BOOLEAN, blocked' \subseteq Jtis, listed' \subseteq Jtis
    PROVE  IInv'
<1>1. FirstWrite(p, "dropped", NoToken) /\ held' = NoToken
    BY DEF Drop
<1>2. /\ call' \in [Procs -> Call] /\ call'[p].answer = "dropped"
      /\ \A q \in Procs \ {p} : call'[q] = call[q]
    BY <1>1, FirstTyped DEF IInv
<1>3. crossed' \in BOOLEAN /\ torn' \in BOOLEAN
    BY <1>1 DEF FirstWrite, IInv, TypeOK
<1>4. TypeOK'
    BY <1>1, <1>2, <1>3 DEF Drop, IInv, TypeOK, portal
<1>5. Minted'
    BY <1>2 DEF IInv, Minted
<1>6. QED
    BY <1>1, <1>4, <1>5, FirstKeeps

LEMMA DroppedKeeps ==
    ASSUME IInv, NEW p \in Procs, Dropped(p)
    PROVE  IInv'
<1> DEFINE t == TenantOf(p)
<1>1. t \in Tenants /\ p \in Mid
    BY AnsweredFacts DEF Dropped
<1>2. Revert(t) /\ SecondWrite(p, t = active) /\ Over(p)
    BY DEF Dropped, SecondWrite
<1>3. /\ licence' \in Tiers /\ tier' \in [Tenants -> Tiers \cup {"none"}]
      /\ licence' = Free /\ tier'[t] = "none"
    BY <1>1, <1>2, RevertTyped DEF IInv
<1>4. /\ call' \in [Procs -> Call] /\ call'[p].answer = "none"
      /\ \A q \in Procs \ {p} : call'[q] = call[q]
    BY <1>2, OverTyped DEF IInv
<1>5. crossed' \in BOOLEAN /\ torn' \in BOOLEAN
    BY <1>2, WroteTyped DEF IInv
<1>6. saved' \in Saved /\ saved' \in {saved, Snapshot'}
    BY <1>3, <1>5, PersistTyped DEF Dropped, IInv, TypeOK
<1>7. TypeOK'
    BY <1>3, <1>4, <1>5, <1>6 DEF Dropped, IInv, TypeOK, portal
<1>8. Minted'
    BY <1>4 DEF IInv, Minted
<1>9. ~torn /\ t = active => Effective' = held'.tier
    <2> SUFFICES ASSUME ~torn, t = active PROVE Effective' = held'.tier
        OBVIOUS
    <2>1. held' = NoToken
        BY <1>1 DEF IInv, MidSound, Dropped
    <2>2. active' = active
        BY DEF Dropped
    <2>3. QED
        BY <1>3, <2>1, <2>2, TokensTyped DEF Effective
<1> HIDE DEF t
<1>10. QED
    BY <1>1, <1>2, <1>6, <1>7, <1>8, <1>9, SecondKeeps

LEMMA EndActivationKeeps ==
    ASSUME IInv, EndActivation
    PROVE  IInv'
<1> DEFINE new == call["web"].new
<1>1. "web" \in Procs
    BY DEF Procs
<1>2. /\ call["web"].op = "activate" /\ call["web"].answer \notin {"stored", "dropped"}
      /\ UNCHANGED <<portal, active, saved, restarts, blocked, listed>>
    BY DEF EndActivation, Answered
<1>3. CASE call["web"].answer = "token" /\ new.jti \notin blocked
    <2>1. /\ PutInForce(TenantOf("web"), new) /\ FirstWrite("web", "stored", new)
          /\ UNCHANGED <<held, pending>>
        BY <1>3 DEF EndActivation
    <2>2. new \in Token \cup {NoToken} /\ TenantOf("web") \in Tenants
        BY <1>1, AnsweredFacts
    <2>3. /\ licence' \in Tiers /\ tier' \in [Tenants -> Tiers \cup {"none"}]
          /\ licence' = new.tier /\ tier'[TenantOf("web")] = new.tier
        BY <2>1, <2>2, PutTyped DEF IInv
    <2>4. /\ call' \in [Procs -> Call] /\ call'["web"].answer = "stored"
          /\ \A q \in Procs \ {"web"} : call'[q] = call[q]
        BY <1>1, <2>1, <2>2, FirstTyped DEF IInv
    <2>5. crossed' \in BOOLEAN /\ torn' \in BOOLEAN
        BY <2>1 DEF FirstWrite, IInv, TypeOK
    <2>6. TypeOK'
        BY <1>2, <2>1, <2>3, <2>4, <2>5 DEF IInv, TypeOK, portal
    <2>7. Minted'
        BY <2>4 DEF IInv, Minted
    <2> HIDE DEF new
    <2>8. QED
        BY <1>1, <1>2, <2>1, <2>2, <2>3, <2>6, <2>7, FirstKeeps
<1>4. CASE ~(call["web"].answer = "token" /\ new.jti \notin blocked)
    <2>1. /\ Kept /\ Over("web")
          /\ pending' = (pending /\ call["web"].answer # "expired")
        BY <1>4 DEF EndActivation
    <2>2. pending' \in BOOLEAN /\ blocked' \subseteq Jtis /\ listed' \subseteq Jtis
        BY <1>2, <2>1 DEF IInv, TypeOK
    <2>3. QED
        BY <1>1, <1>2, <2>1, <2>2, OverKeeps
<1>5. QED
    BY <1>3, <1>4

LEMMA ActivatedKeeps ==
    ASSUME IInv, Activated
    PROVE  IInv'
<1> DEFINE t == TenantOf("web")
           new == call["web"].new
<1>1. "web" \in Procs /\ t \in Tenants /\ "web" \in Mid
      /\ new \in Token \cup {NoToken}
    BY AnsweredFacts DEF Activated, Procs
<1>2. SecondWrite("web", t = active) /\ Over("web") /\ held' = new
    BY DEF Activated, SecondWrite
<1>3. /\ call' \in [Procs -> Call] /\ call'["web"].answer = "none"
      /\ \A q \in Procs \ {"web"} : call'[q] = call[q]
    BY <1>1, <1>2, OverTyped DEF IInv
<1>4. crossed' \in BOOLEAN /\ torn' \in BOOLEAN
    BY <1>2, WroteTyped DEF IInv
<1>5. saved' \in Saved /\ saved' \in {saved, Snapshot'}
    BY <1>1, <1>2, <1>4, PersistTyped DEF Activated, IInv, TypeOK
<1>6. TypeOK'
    BY <1>1, <1>2, <1>3, <1>4, <1>5 DEF Activated, IInv, TypeOK, portal
<1>7. Minted'
    BY <1>3 DEF IInv, Minted
<1>8. ~torn /\ t = active => Effective' = held'.tier
    <2> SUFFICES ASSUME ~torn, t = active PROVE Effective' = held'.tier
        OBVIOUS
    <2>1. licence = new.tier /\ tier[active] = new.tier
        BY <1>1 DEF IInv, MidSound, Activated
    <2>2. UNCHANGED <<licence, tier, active>>
        BY DEF Activated
    <2>3. QED
        BY <1>2, <2>1, <2>2 DEF Effective
<1> HIDE DEF t, new
<1>9. QED
    BY <1>1, <1>2, <1>5, <1>6, <1>7, <1>8, SecondKeeps

LEMMA EndRefreshKeeps ==
    ASSUME IInv, NEW p \in {"web", "loop"}, EndRefresh(p)
    PROVE  IInv'
<1> DEFINE new == call[p].new
<1>1. p \in Procs
    BY DEF Procs
<1>2. /\ call[p].op = "refresh" /\ call[p].answer \notin {"stored", "dropped"}
      /\ UNCHANGED <<portal, active, saved, restarts, pending, blocked, listed>>
    BY DEF EndRefresh, Answered
<1>3. pending' \in BOOLEAN /\ blocked' \subseteq Jtis /\ listed' \subseteq Jtis
    BY <1>2 DEF IInv, TypeOK
<1>4. CASE call[p].answer = "denied" /\ p = "loop" /\ Drop(p)
    BY <1>1, <1>2, <1>3, <1>4, DropKeeps
<1>5. CASE Kept /\ Over(p)
    BY <1>1, <1>2, <1>3, <1>5, OverKeeps
<1>6. CASE /\ call[p].answer = "token" /\ held' = new
           /\ UNCHANGED <<licence, tier>>
    <2>1. new \in Token /\ new # NoToken
        BY <1>1, <1>6, AnsweredFacts, TokensTyped
    <2>2. CASE FirstWrite(p, "stored", NoToken)
        <3>1. /\ call' \in [Procs -> Call] /\ call'[p].answer = "stored"
              /\ \A q \in Procs \ {p} : call'[q] = call[q]
            BY <1>1, <2>2, FirstTyped DEF IInv
        <3>2. crossed' \in BOOLEAN /\ torn' \in BOOLEAN
            BY <2>2 DEF FirstWrite, IInv, TypeOK
        <3>3. TypeOK'
            BY <1>2, <1>6, <2>1, <3>1, <3>2 DEF IInv, TypeOK, portal
        <3>4. Minted'
            BY <3>1 DEF IInv, Minted
        <3> HIDE DEF new
        <3>5. QED
            BY <1>1, <1>2, <1>6, <2>1, <2>2, <3>3, <3>4, FirstKeeps
    <2>3. CASE ~Propagates(p) /\ SingleWrite(held = call[p].token) /\ Over(p)
        <3>1. /\ call' \in [Procs -> Call] /\ call'[p].answer = "none"
              /\ \A q \in Procs \ {p} : call'[q] = call[q]
            BY <1>1, <2>3, OverTyped DEF IInv
        <3>2. crossed' \in BOOLEAN /\ torn' \in BOOLEAN
            BY <2>3, WroteTyped DEF IInv
        <3>3. TypeOK'
            BY <1>2, <1>6, <2>1, <3>1, <3>2 DEF IInv, TypeOK, portal
        <3>4. Minted'
            BY <3>1 DEF IInv, Minted
        <3>5. Mid' = Mid
            BY <1>1, <1>2, <3>1 DEF Mid
        <3>6. ASSUME held = call[p].token, Mid = {}, ~crossed
              PROVE  Effective' = held'.tier
            <4>1. new.tier = call[p].token.tier
                BY <2>3 DEF Propagates
            <4>2. Effective = held.tier
                BY <3>6 DEF IInv, TierMatches
            <4>3. QED
                BY <1>2, <1>6, <3>6, <4>1, <4>2 DEF Effective
        <3> HIDE DEF new
        <3>7. QED
            BY <1>2, <2>3, <3>3, <3>4, <3>5, <3>6, SingleKeeps
    <2>4. QED
        BY <1>6, <2>2, <2>3 DEF EndRefresh, Drop, FirstWrite
<1>7. QED
    BY <1>4, <1>5, <1>6 DEF EndRefresh

LEMMA PropagateKeeps ==
    ASSUME IInv, NEW p \in {"web", "loop"}, Propagate(p)
    PROVE  IInv'
<1> DEFINE t == TenantOf(p)
<1>1. p \in Procs /\ t \in Tenants /\ p \in Mid
    BY AnsweredFacts DEF Propagate, Procs
<1>2. SecondWrite(p, t = active) /\ Over(p)
    BY DEF Propagate, SecondWrite
<1>3. /\ call' \in [Procs -> Call] /\ call'[p].answer = "none"
      /\ \A q \in Procs \ {p} : call'[q] = call[q]
    BY <1>1, <1>2, OverTyped DEF IInv
<1>4. crossed' \in BOOLEAN /\ torn' \in BOOLEAN
    BY <1>2, WroteTyped DEF IInv
<1>5. UNCHANGED <<held, active>> /\ held \in Token \cup {NoToken}
    BY DEF Propagate, IInv, TypeOK
<1>6. /\ licence' \in Tiers /\ tier' \in [Tenants -> Tiers \cup {"none"}]
      /\ ~torn /\ t = active => Effective' = held'.tier
    <2>1. CASE held # NoToken /\ PutInForce(t, held)
        BY <1>1, <1>5, <2>1, PutTyped DEF IInv, Effective
    <2>2. CASE held = NoToken /\ Revert(t)
        BY <1>1, <1>5, <2>2, RevertTyped, TokensTyped DEF IInv, Effective
    <2>3. CASE held = NoToken /\ UNCHANGED <<licence, tier>>
        <3>1. torn
            BY <1>1, <2>3 DEF IInv, MidSound, Propagate
        <3>2. QED
            BY <2>3, <3>1 DEF IInv, TypeOK
    <2>4. QED
        BY <2>1, <2>2, <2>3 DEF Propagate
<1>7. saved' \in Saved /\ saved' \in {saved, Snapshot'}
    BY <1>4, <1>6, PersistTyped DEF Propagate, IInv, TypeOK
<1>8. TypeOK'
    BY <1>3, <1>4, <1>6, <1>7 DEF Propagate, IInv, TypeOK, portal
<1>9. Minted'
    BY <1>3 DEF IInv, Minted
<1> HIDE DEF t
<1>10. QED
    BY <1>1, <1>2, <1>6, <1>7, <1>8, <1>9, SecondKeeps

LEMMA EndCheckKeeps ==
    ASSUME IInv, EndCheck
    PROVE  IInv'
<1>1. /\ "poll" \in Procs /\ call["poll"].answer \notin {"stored", "dropped"}
      /\ UNCHANGED <<portal, active, saved, restarts, pending>>
    BY DEF EndCheck, Answered, Procs
<1>2. pending' \in BOOLEAN /\ blocked' \subseteq Jtis /\ listed' \subseteq Jtis
    BY <1>1 DEF EndCheck, IInv, TypeOK
<1>3. QED
    BY <1>1, <1>2, DropKeeps, OverKeeps DEF EndCheck

LEMMA LogoutKeeps ==
    ASSUME IInv, Logout
    PROVE  IInv'
<1>1. /\ "web" \in Procs /\ call["web"].answer \notin {"stored", "dropped"}
      /\ UNCHANGED <<portal, active, saved, restarts>>
    BY DEF Logout, Procs
<1>2. pending' \in BOOLEAN /\ blocked' \subseteq Jtis /\ listed' \subseteq Jtis
    BY DEF Logout, IInv, TypeOK
<1>3. QED
    BY <1>1, <1>2, DropKeeps DEF Logout

LEMMA SingleWritesKeep ==
    ASSUME IInv, (\E x \in Tiers : AdminActivates(x)) \/ (\E t \in Tenants : Switch(t))
    PROVE  IInv'
<1>1. /\ SingleWrite(FALSE) /\ Persist
      /\ UNCHANGED <<portal, pending, held, tier, blocked, call, listed, restarts>>
      /\ licence' \in Tiers /\ active' \in Tenants
    BY DEF AdminActivates, Switch, IInv, TypeOK
<1>2. crossed' \in BOOLEAN /\ torn' \in BOOLEAN
    BY <1>1, WroteTyped DEF IInv
<1>3. saved' \in Saved /\ saved' \in {saved, Snapshot'}
    BY <1>1, <1>2, PersistTyped DEF IInv, TypeOK
<1>4. TypeOK'
    BY <1>1, <1>2, <1>3 DEF IInv, TypeOK, portal
<1>5. Minted' /\ Mid' = Mid
    BY <1>1 DEF IInv, Minted, Mid
<1>6. QED
    BY <1>1, <1>3, <1>4, <1>5, SingleKeeps

LEMMA RestartKeeps ==
    ASSUME IInv, Restart
    PROVE  IInv'
<1>1. saved \in Saved /\ Blank \in Saved
    BY LicenseAssumption, TokensTyped DEF IInv, TypeOK, Saved, Blank
<1>2. saved' \in Saved /\ saved' \in {saved, Blank}
    BY <1>1 DEF Restart
<1>3. /\ call' \in [Procs -> Call] /\ \A p \in Procs : call'[p].answer = "none"
    BY NoCallTyped DEF Restart, NoCall
<1>4. restarts' \in 0 .. MaxRestarts
    BY LicenseAssumption DEF Restart, IInv, TypeOK
<1>5. TypeOK'
    BY <1>1, <1>2, <1>3, <1>4 DEF Restart, IInv, TypeOK, Saved, portal
<1>6. Minted' /\ Mid' = {}
    BY <1>3 DEF Minted, Mid
<1>7. TierMatches'
    BY DEF Restart, IInv, SavedMatches, TierMatches, Effective
<1>8. MidSound'
    BY <1>6 DEF MidSound
<1>9. SavedMatches'
    <2>1. CASE saved' = saved
        BY <2>1 DEF IInv, SavedMatches
    <2>2. CASE saved' = Blank
        BY <2>2, LicenseAssumption, TierIsSet, TokensTyped DEF SavedMatches, Blank
    <2>3. QED
        BY <1>2, <2>1, <2>2
<1>10. QED
    BY <1>5, <1>6, <1>7, <1>8, <1>9 DEF IInv

----------------------------------------------------------------------------
(* The steps that write nothing of it. *)

LEMMA CallKeeps ==
    ASSUME IInv, UNCHANGED <<portal, owned, restarts>>, listed' \subseteq Jtis,
           NEW p \in Procs, call[p].answer = "none", call' \in [Procs -> Call],
           call'[p].answer \notin {"stored", "dropped"},
           call'[p].answer = "token" => call'[p].new \in Token,
           \A q \in Procs \ {p} : call'[q] = call[q]
    PROVE  IInv'
<1>1. TypeOK'
    BY DEF IInv, TypeOK, portal, owned
<1>2. Minted'
    BY DEF IInv, Minted
<1>3. Mid' = Mid /\ \A q \in Mid : call'[q] = call[q]
    BY DEF Mid
<1>4. QED
    BY <1>1, <1>2, <1>3, QuietKeeps DEF owned

LEMMA CallsKeep ==
    ASSUME IInv,
           \/ BeginActivation \/ AnswerActivation \/ BeginLogout
           \/ \E p \in {"web", "loop"} : BeginRefresh(p) \/ Refreshed(p) \/ NotRefreshed(p)
           \/ BeginCheck \/ Listed \/ NotListed
    PROVE  IInv'
<1>1. UNCHANGED <<portal, owned, restarts>> /\ listed' \subseteq Jtis
    BY DEF BeginActivation, AnswerActivation, BeginLogout, BeginRefresh, Refreshed,
           NotRefreshed, BeginCheck, Listed, NotListed, Begin, IInv, TypeOK, portal
<1>2. NoCall.answer = "none" /\ TypeOK
    BY DEF NoCall, IInv
<1>3. ASSUME NEW p \in Procs, NEW op \in {"activate", "refresh", "check", "logout"},
             NEW token \in Token \cup {NoToken}, Begin(p, op, token)
      PROVE  IInv'
    <2>1. call[p].answer = "none"
        BY <1>2, <1>3 DEF Begin
    <2>2. QED
        BY <1>1, <1>2, <1>3, <2>1, BeginTyped, CallKeeps
<1>4. ASSUME NEW p \in Procs, NEW op, Waiting(p, op), Mint(p)
      PROVE  IInv'
    BY <1>1, <1>2, <1>4, MintTyped, CallKeeps DEF Waiting
<1>5. ASSUME NEW p \in Procs, NEW op, Waiting(p, op),
             NEW a \in {"list", "failed", "denied", "expired"}, Answer(p, a)
      PROVE  IInv'
    BY <1>1, <1>2, <1>5, AnswerTyped, CallKeeps DEF Waiting
<1>6. CASE BeginActivation \/ BeginLogout
    BY <1>3, <1>6 DEF BeginActivation, BeginLogout, Procs
<1>7. CASE AnswerActivation
    BY <1>4, <1>5, <1>7 DEF AnswerActivation, Procs
<1>8. ASSUME NEW p \in {"web", "loop"}, BeginRefresh(p)
      PROVE  IInv'
    BY <1>3, <1>8 DEF BeginRefresh, Procs, IInv, TypeOK
<1>9. ASSUME NEW p \in {"web", "loop"}, Refreshed(p) \/ NotRefreshed(p)
      PROVE  IInv'
    BY <1>4, <1>5, <1>9 DEF Refreshed, NotRefreshed, Procs
<1>10. CASE BeginCheck
    <2>1. [NoToken EXCEPT !.jti = held.jti] \in Token \cup {NoToken}
        BY DEF IInv, TypeOK, Token, NoToken, Tiers
    <2>2. QED
        BY <1>3, <1>10, <2>1 DEF BeginCheck, Procs
<1>11. CASE Listed \/ NotListed
    BY <1>5, <1>11 DEF Listed, NotListed, Procs
<1>12. QED
    BY <1>6, <1>7, <1>8, <1>9, <1>10, <1>11

LEMMA QuietStepsKeep ==
    ASSUME IInv,
           \/ UNCHANGED vars \/ StartActivation \/ Save
           \/ \E x \in Tiers : Subscribe(x)
           \/ \E j \in Jtis : Revoke(j)
    PROVE  IInv'
<1>1. /\ UNCHANGED <<held, licence, tier, active, blocked, crossed, torn, call, listed,
                     restarts>>
      /\ pending' \in BOOLEAN /\ load' = load /\ plan' \in Tiers /\ revoked' \subseteq Jtis
    BY DEF vars, portal, owned, StartActivation, Save, Subscribe, Revoke, IInv, TypeOK
<1>2. saved' = saved \/ Persist
    BY DEF vars, owned, StartActivation, Save, Subscribe, Revoke
<1>3. saved' \in Saved /\ saved' \in {saved, Snapshot'}
    BY <1>1, <1>2, PersistTyped DEF IInv, TypeOK
<1>4. TypeOK'
    BY <1>1, <1>3 DEF IInv, TypeOK
<1>5. Minted' /\ Mid' = Mid
    BY <1>1 DEF IInv, Minted, Mid
<1>6. QED
    BY <1>1, <1>3, <1>4, <1>5, QuietKeeps

LEMMA InvInductive == Spec => []IInv
<1>1. Init => IInv
    <2> SUFFICES ASSUME Init PROVE IInv
        OBVIOUS
    <2>1. call \in [Procs -> Call] /\ \A p \in Procs : call[p].answer = "none"
        BY NoCallTyped DEF Init, NoCall
    <2>2. Blank \in Saved
        BY LicenseAssumption, TokensTyped DEF Saved, Blank
    <2>3. restarts \in 0 .. MaxRestarts
        BY LicenseAssumption DEF Init
    <2>4. TypeOK
        BY <2>1, <2>2, <2>3, LicenseAssumption, TokensTyped DEF Init, TypeOK
    <2>5. Minted /\ Mid = {}
        BY <2>1 DEF Minted, Mid
    <2>6. TierMatches /\ SavedMatches
        BY LicenseAssumption, TierIsSet, TokensTyped
        DEF Init, TierMatches, Effective, SavedMatches, Blank
    <2>7. MidSound
        BY <2>5 DEF MidSound
    <2>8. QED
        BY <2>4, <2>5, <2>6, <2>7 DEF IInv
<1>2. IInv /\ [Next]_vars => IInv'
    <2> SUFFICES ASSUME IInv, [Next]_vars PROVE IInv'
        OBVIOUS
    <2>1. CASE UNCHANGED vars
        BY <2>1, QuietStepsKeep
    <2>2. CASE Next
        BY <2>2, QuietStepsKeep, CallsKeep, RestartKeeps, SingleWritesKeep,
           LogoutKeeps, EndCheckKeeps, PropagateKeeps, EndRefreshKeeps,
           ActivatedKeeps, EndActivationKeeps, DroppedKeeps
        DEF Next
    <2>3. QED
        BY <2>1, <2>2
<1>3. QED
    BY <1>1, <1>2, PTL DEF Spec

\* Licence, token, calls and answers stay within their types.
THEOREM TypeCorrect == Spec => []TypeOK
BY InvInductive, PTL DEF IInv

\* While nobody is between its two writes, the active tenant is served with the
\* tier of the token held, for any interleaving of the requests, the refresh loop
\* and the revocation poll, with calls that fail, saves that fail and restarts;
\* except for the five mismatches that TierMatches names.
THEOREM ServedAsHeld == Spec => []TierMatches
BY InvInductive, PTL DEF IInv
=============================================================================
