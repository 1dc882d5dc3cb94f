--------------------------- MODULE SessionsProofs ---------------------------
(***************************************************************************)
(* Proofs about Sessions, for every set of certificates, roots, journeys,  *)
(* actions and requests, every list of caveats that holders append, every  *)
(* lifetime and every bound on the clock and on restarts.                  *)
(***************************************************************************)
EXTENDS Sessions, FiniteSetTheorems, SequenceTheorems, TLAPS

-----------------------------------------------------------------------------
(* Macaroons: the caveats of a grant, and of what a holder made of it.     *)

(* Caveat cav says what grant g was for.                                   *)
Restates(cav, g) ==
  \/ cav.kind \in {"user", "client_app"} /\ cav.value = g.cert
  \/ cav.kind = "journey" /\ cav.value = g.journey /\ g.journey # NoJourney
  \/ cav.kind = "action" /\ cav.value = g.action
  \/ cav.kind = "time" /\ cav.value = g.expires

(* The elements of the shortest lists.                                     *)
LEMMA ListElements ==
  ASSUME NEW S, NEW a \in S
  PROVE  /\ <<>> \in Seq(S) /\ Range(<<>>) = {}
         /\ <<a>> \in Seq(S) /\ Range(<<a>>) = {a}
  <1>1. DOMAIN <<a>> = {1}
    OBVIOUS
  <1> QED
    BY <1>1 DEF Range

(* IssueSession writes a list that restates the whole grant and nothing    *)
(* else.                                                                   *)
LEMMA GrantCaveats ==
  ASSUME NEW g \in Grant
  PROVE  /\ SessionCaveats(g) \in Seq(Caveat)
         /\ \A cav \in Range(SessionCaveats(g)) : Restates(cav, g)
         /\ \A k \in {"user", "action", "time"} :
              \E cav \in Range(SessionCaveats(g)) : cav.kind = k
         /\ g.journey # NoJourney =>
              \E cav \in Range(SessionCaveats(g)) : cav.kind = "journey"
  <1>0. /\ g.cert \in Certs /\ g.action \in Actions /\ g.expires \in Nat
        /\ g.journey \in Journeys \cup {NoJourney}
    BY DEF Grant
  <1>1. PICK user, app, action, time :
          /\ user = [kind |-> "user", value |-> g.cert]
          /\ app = [kind |-> "client_app", value |-> g.cert]
          /\ action = [kind |-> "action", value |-> g.action]
          /\ time = [kind |-> "time", value |-> g.expires]
    OBVIOUS
  <1>2. /\ user \in Caveat /\ user.kind = "user" /\ Restates(user, g)
        /\ app \in Caveat /\ Restates(app, g)
        /\ action \in Caveat /\ action.kind = "action" /\ Restates(action, g)
        /\ time \in Caveat /\ time.kind = "time" /\ Restates(time, g)
    BY <1>0, <1>1 DEF Caveat, Restates
  <1>3. PICK mid \in Seq(Caveat) :
          /\ SessionCaveats(g) = <<user, app>> \o mid \o <<action, time>>
          /\ \A cav \in Range(mid) : Restates(cav, g)
          /\ g.journey # NoJourney => \E cav \in Range(mid) : cav.kind = "journey"
    <2>1. CASE g.journey = NoJourney
      <3>1. SessionCaveats(g) = <<user, app>> \o <<>> \o <<action, time>>
        BY <1>1, <2>1, Zenon DEF SessionCaveats
      <3>2. <<>> \in Seq(Caveat) /\ Range(<<>>) = {}
        BY <1>2, ListElements
      <3> QED
        BY <2>1, <3>1, <3>2
    <2>2. CASE g.journey # NoJourney
      <3>1. PICK journey : journey = [kind |-> "journey", value |-> g.journey]
        OBVIOUS
      <3>2. journey \in Caveat /\ journey.kind = "journey" /\ Restates(journey, g)
        BY <1>0, <2>2, <3>1 DEF Caveat, Restates
      <3>3. SessionCaveats(g) = <<user, app>> \o <<journey>> \o <<action, time>>
        BY <1>1, <2>2, <3>1, Zenon DEF SessionCaveats
      <3>4. <<journey>> \in Seq(Caveat) /\ Range(<<journey>>) = {journey}
        BY <3>2, ListElements
      <3> QED
        BY <3>2, <3>3, <3>4
    <2> QED
      BY <2>1, <2>2
  <1>4. PICK first \in Seq(Caveat), last \in Seq(Caveat) :
          /\ first = <<user, app>> /\ Range(first) = {user, app}
          /\ last = <<action, time>> /\ Range(last) = {action, time}
    <2>0. user \in Caveat /\ app \in Caveat /\ action \in Caveat /\ time \in Caveat
      BY <1>2
    <2>1. <<user, app>> \in Seq(Caveat) /\ Range(<<user, app>>) = {user, app}
      <3>1. DOMAIN <<user, app>> = {1, 2}
        OBVIOUS
      <3> QED
        BY <2>0, <3>1 DEF Range
    <2>2. <<action, time>> \in Seq(Caveat) /\ Range(<<action, time>>) = {action, time}
      <3>1. DOMAIN <<action, time>> = {1, 2}
        OBVIOUS
      <3> QED
        BY <2>0, <3>1 DEF Range
    <2> QED
      BY <2>1, <2>2, Zenon
  <1>5. PICK front \in Seq(Caveat) :
          front = first \o mid /\ Range(front) = Range(first) \cup Range(mid)
    <2>1. first \o mid \in Seq(Caveat)
      BY ConcatProperties, Zenon
    <2>2. Range(first \o mid) = Range(first) \cup Range(mid)
      BY RangeConcatenation, Zenon
    <2> QED
      BY <2>1, <2>2, Zenon
  <1>6. /\ front \o last \in Seq(Caveat)
        /\ Range(front \o last) = Range(front) \cup Range(last)
    <2>1. front \o last \in Seq(Caveat)
      BY ConcatProperties, Zenon
    <2>2. Range(front \o last) = Range(front) \cup Range(last)
      BY RangeConcatenation, Zenon
    <2> QED
      BY <2>1, <2>2
  <1>7. SessionCaveats(g) = front \o last
    BY <1>3, <1>4, <1>5, Zenon
  <1>8. Range(SessionCaveats(g)) = {user, app} \cup Range(mid) \cup {action, time}
    BY <1>4, <1>5, <1>6, <1>7
  <1> QED
    BY <1>2, <1>3, <1>6, <1>7, <1>8

(* A macaroon carries the caveats of its grant and those appended to it,   *)
(* and no others.                                                          *)
LEMMA MacaroonCaveats ==
  ASSUME NEW q, q.grant \in Grant, q.extra \in Attenuations
  PROVE  Range(Caveats(q)) = Range(SessionCaveats(q.grant)) \cup Range(q.extra)
  <1>1. SessionCaveats(q.grant) \in Seq(Caveat) /\ q.extra \in Seq(Caveat)
    BY GrantCaveats, SessionAssumptions
  <1> QED
    BY <1>1, RangeConcatenation DEF Caveats

-----------------------------------------------------------------------------
(* The two checks of a macaroon.                                           *)

(* A macaroon whose constraints are met is used within its grant and within*)
(* every caveat appended to it.                                            *)
LEMMA ConstraintsBind ==
  ASSUME NEW q, q.grant \in Grant, q.extra \in Attenuations, NEW a, NEW j,
         CheckConstraints(q, a, j)
  PROVE  /\ q.identity = q.grant.cert
         /\ a = q.grant.action
         /\ clock < q.grant.expires
         /\ q.grant.journey # NoJourney => j = q.grant.journey
         /\ \A i \in DOMAIN q.extra : EvaluateCaveat(q.extra[i], q, a, j)
  <1>1. \A cav \in Range(Caveats(q)) : EvaluateCaveat(cav, q, a, j)
    BY DEF CheckConstraints, Range
  <1>2. \A cav \in Range(SessionCaveats(q.grant)) :
          EvaluateCaveat(cav, q, a, j) /\ Restates(cav, q.grant)
    BY <1>1, MacaroonCaveats, GrantCaveats
  <1>3. \A cav \in Range(q.extra) : EvaluateCaveat(cav, q, a, j)
    BY <1>1, MacaroonCaveats
  <1>4. q.identity = q.grant.cert
    <2>1. PICK cav \in Range(SessionCaveats(q.grant)) : cav.kind = "user"
      BY GrantCaveats
    <2> QED
      BY <1>2, <2>1 DEF EvaluateCaveat, Restates
  <1>5. a = q.grant.action
    <2>1. PICK cav \in Range(SessionCaveats(q.grant)) : cav.kind = "action"
      BY GrantCaveats
    <2> QED
      BY <1>2, <2>1 DEF EvaluateCaveat, Restates
  <1>6. clock < q.grant.expires
    <2>1. PICK cav \in Range(SessionCaveats(q.grant)) : cav.kind = "time"
      BY GrantCaveats
    <2> QED
      BY <1>2, <2>1 DEF EvaluateCaveat, Restates
  <1>7. ASSUME q.grant.journey # NoJourney
        PROVE  j = q.grant.journey
    <2>1. PICK cav \in Range(SessionCaveats(q.grant)) : cav.kind = "journey"
      BY <1>7, GrantCaveats
    <2> QED
      BY <1>2, <2>1 DEF EvaluateCaveat, Restates
  <1> QED
    BY <1>3, <1>4, <1>5, <1>6, <1>7 DEF Range

(* The macaroon as it was granted passes both checks for what it was       *)
(* granted.                                                                *)
LEMMA GrantPasses ==
  ASSUME NEW q, q.grant \in Grant, q.extra = <<>>
  PROVE  /\ q.grant.root \in OnFile => VerifySignature(q)
         /\ (/\ q.identity = q.grant.cert
             /\ clock < q.grant.expires) =>
                CheckConstraints(q, q.grant.action, q.grant.journey)
  <1>0. Range(Caveats(q)) = Range(SessionCaveats(q.grant))
    <2>1. Range(q.extra) = {}
      BY DEF Range
    <2> QED
      BY <2>1, MacaroonCaveats, SessionAssumptions
  <1>1. \A i \in DOMAIN Caveats(q) : Restates(Caveats(q)[i], q.grant)
    BY <1>0, GrantCaveats DEF Range
  <1>2. \E i \in DOMAIN Caveats(q) : Caveats(q)[i].kind = "time"
    <2>1. PICK cav \in Range(SessionCaveats(q.grant)) : cav.kind = "time"
      BY GrantCaveats
    <2> QED
      BY <1>0, <2>1 DEF Range
  <1>3. q.grant.root \in OnFile => VerifySignature(q)
    <2>1. \A i \in DOMAIN Caveats(q) : Caveats(q)[i].kind \notin {"unknown", "third_party"}
      BY <1>1 DEF Restates
    <2> QED
      BY <1>2, <2>1 DEF VerifySignature, MacaroonRootByID
  <1>4. ASSUME q.identity = q.grant.cert, clock < q.grant.expires
        PROVE  CheckConstraints(q, q.grant.action, q.grant.journey)
    <2>1. ASSUME NEW cav, Restates(cav, q.grant)
          PROVE  EvaluateCaveat(cav, q, q.grant.action, q.grant.journey)
      BY <1>4, <2>1 DEF EvaluateCaveat, Restates
    <2> QED
      BY <1>1, <2>1 DEF CheckConstraints
  <1> QED
    BY <1>3, <1>4

-----------------------------------------------------------------------------
(* What a step does to a request, field by field.                          *)

(* What a request holds at each stage.                                     *)
LEMMA RequestFields ==
  ASSUME SessionTypeOK, NEW r \in Requests
  PROVE  /\ requests[r].stage \in {"identified", "attached"} => requests[r] \in Carried
         /\ requests[r].stage \in {"admitted", "refused"} => requests[r] \in Decided
         /\ requests[r].stage \in {"signed", "unsigned"} => requests[r] \in Verified
         /\ requests[r] = Idle \/ requests[r].stage
              \in {"identified", "attached", "admitted", "refused", "signed", "unsigned"}
         /\ Idle.stage = "idle"
  BY DEF SessionTypeOK, Carried, Decided, Verified, Idle

(* Request r is given the identity of its certificate.                     *)
Identifies(r, q) ==
  /\ requests[r] = Idle
  /\ server.stage = "serving"
  /\ q \in Carried
  /\ q.stage = "identified"
  /\ q.grant \in grants \cup {NoGrant}
  /\ \/ q.identity = q.cert /\ q.cert \notin revoked
     \/ q.identity = NoIdentity /\ (q.failed \/ q.cert \in revoked)

(* The macaroon of request r is verified.                                  *)
Attaches(r, q) ==
  /\ requests[r].stage = "identified"
  /\ q \in Carried
  /\ q.stage = "attached"
  /\ q.cert = requests[r].cert
  /\ q.identity = requests[r].identity
  /\ q.grant = requests[r].grant
  /\ q.extra = requests[r].extra
  /\ requests[r].failed => q.failed
  /\ q.verified => q.grant # NoGrant
  /\ q.grant # NoGrant /\ VerifySignature(requests[r]) => q.failed \/ q.verified

(* The guard of a journey's route decides.                                 *)
Decides(r, q) ==
  /\ requests[r].stage = "attached"
  /\ q \in Decided
  /\ q.cert = requests[r].cert
  /\ q.identity = requests[r].identity
  /\ q.grant = requests[r].grant
  /\ q.extra = requests[r].extra
  /\ q.failed = requests[r].failed
  /\ q.at = clock
  /\ \/ /\ q.stage = "admitted"
        /\ requests[r].verified
        /\ CheckConstraints(requests[r], q.action, q.journey)
     \/ /\ q.stage = "refused"
        /\ ~(requests[r].verified /\ CheckConstraints(requests[r], q.action, q.journey))

(* A handler verifies the signed payload of request r.                     *)
VerifiesPayload(r, q) ==
  /\ \/ requests[r].stage = "admitted"
     \/ requests[r].stage = "attached" /\ requests[r].identity # NoIdentity
  /\ q.envelope \in Envelope
  /\ q.cert = requests[r].cert
  /\ q.identity = requests[r].identity
  /\ \/ /\ q.stage = "signed"
        /\ q.envelope.claimed = q.identity
        /\ q.envelope.keyId = q.identity
        /\ q.envelope.madeBy = q.identity
        /\ q.identity \notin revoked
     \/ /\ q.stage = "unsigned"
        /\ \/ q.failed
           \/ q.envelope.claimed # q.identity
           \/ q.envelope.keyId # q.identity
           \/ q.envelope.madeBy # q.identity
           \/ q.identity \in revoked
  /\ q.identity \in Certs => q \in Verified

(* A step takes on one request, or makes some idle.                        *)
Becomes(r, q) ==
  /\ requests' = [requests EXCEPT ![r] = q]
  /\ UNCHANGED <<clock, roots, server, starts, revoked, grants>>

(* AttachIdentity does what Identifies says.                               *)
LEMMA AttachIdentityStep ==
  ASSUME NEW r \in Requests, NEW c \in Certs, NEW g \in grants \cup {NoGrant},
         NEW extra \in Attenuations, NEW failed \in BOOLEAN, grants \subseteq Grant,
         AttachIdentity(r, c, g, extra, failed)
  PROVE  \E q : Identifies(r, q) /\ Becomes(r, q)
  <1>1. PICK q :
          /\ q = [stage |-> "identified", cert |-> c,
                  identity |-> IF IdentityBySerial(c) /\ ~failed THEN c ELSE NoIdentity,
                  grant |-> g, extra |-> extra, verified |-> FALSE, failed |-> failed]
          /\ Becomes(r, q)
    BY DEF AttachIdentity, Becomes
  <1>2. PICK id \in Certs \cup {NoIdentity} :
          /\ id = IF IdentityBySerial(c) /\ ~failed THEN c ELSE NoIdentity
          /\ \/ id = c /\ c \notin revoked
             \/ id = NoIdentity /\ (failed \/ c \in revoked)
    BY DEF IdentityBySerial
  <1>3. q = [stage |-> "identified", cert |-> c, identity |-> id,
             grant |-> g, extra |-> extra, verified |-> FALSE, failed |-> failed]
    BY <1>1, <1>2
  <1>4. q \in Carried
    BY <1>3 DEF Carried
  <1>5. /\ q.stage = "identified" /\ q.cert = c /\ q.identity = id /\ q.grant = g
        /\ q.failed = failed
    BY <1>3
  <1>6. requests[r] = Idle /\ server.stage = "serving"
    BY DEF AttachIdentity
  <1> QED
    BY <1>1, <1>2, <1>4, <1>5, <1>6 DEF Identifies

(* AttachSession does what Attaches says.                                  *)
LEMMA AttachSessionStep ==
  ASSUME SessionTypeOK, NEW r \in Requests, NEW failed \in BOOLEAN,
         AttachSession(r, failed)
  PROVE  \E q : Attaches(r, q) /\ Becomes(r, q)
  <1>1. requests[r].stage = "identified" /\ requests[r] \in Carried
    BY RequestFields DEF AttachSession
  <1>2. PICK p \in Carried : p = requests[r]
    BY <1>1
  <1>3. PICK ok \in BOOLEAN : ok = (p.grant # NoGrant /\ ~failed /\ VerifySignature(p))
    BY Zenon
  <1>4. PICK f \in BOOLEAN : f = (p.failed \/ failed)
    BY Zenon
  <1>5. PICK q : q = [p EXCEPT !.stage = "attached", !.verified = ok, !.failed = f]
    OBVIOUS
  <1>6. requests' = [requests EXCEPT ![r] = q]
    <2>1. requests' = [requests EXCEPT ![r].stage = "attached", ![r].verified = ok,
                                       ![r].failed = @ \/ failed]
      BY <1>2, <1>3, Zenon DEF AttachSession
    <2>2. requests' = [requests EXCEPT ![r].stage = "attached", ![r].verified = ok,
                                       ![r].failed = f]
      BY <1>2, <1>4, <2>1 DEF SessionTypeOK, Carried
    <2> QED
      BY <1>2, <1>5, <2>2
  <1>7. q \in Carried
    BY <1>2, <1>3, <1>4, <1>5 DEF Carried
  <1>8. /\ q.stage = "attached" /\ q.cert = p.cert /\ q.identity = p.identity
        /\ q.grant = p.grant /\ q.extra = p.extra /\ q.verified = ok /\ q.failed = f
    BY <1>5 DEF Carried
  <1> QED
    BY <1>1, <1>2, <1>3, <1>4, <1>6, <1>7, <1>8
    DEF Attaches, Becomes, AttachSession

(* RequireSession does what Decides says.                                  *)
LEMMA RequireSessionStep ==
  ASSUME SessionTypeOK, NEW r \in Requests, NEW a \in JourneyActions, NEW j \in Journeys,
         RequireSession(r, a, j)
  PROVE  \E q : Decides(r, q) /\ Becomes(r, q)
  <1>1. requests[r].stage = "attached" /\ requests[r] \in Carried
    BY RequestFields DEF RequireSession
  <1>2. PICK p \in Carried : p = requests[r]
    BY <1>1
  <1>3. PICK stage \in {"admitted", "refused"} :
          /\ stage = IF p.verified /\ CheckConstraints(p, a, j)
                        THEN "admitted" ELSE "refused"
          /\ \/ stage = "admitted" /\ p.verified /\ CheckConstraints(p, a, j)
             \/ stage = "refused" /\ ~(p.verified /\ CheckConstraints(p, a, j))
    OBVIOUS
  <1>4. PICK q : q = [stage |-> stage, cert |-> p.cert, identity |-> p.identity,
                      grant |-> p.grant, extra |-> p.extra, verified |-> p.verified,
                      failed |-> p.failed, action |-> a, journey |-> j, at |-> clock]
    OBVIOUS
  <1>5. requests' = [requests EXCEPT ![r] = q]
    BY <1>2, <1>3, <1>4, Zenon DEF RequireSession
  <1>6. q \in Decided
    <2>1. clock \in Nat
      BY DEF SessionTypeOK
    <2> QED
      BY <1>2, <1>3, <1>4, <2>1 DEF Carried, Decided
  <1>7. /\ q.stage = stage /\ q.cert = p.cert /\ q.identity = p.identity
        /\ q.grant = p.grant /\ q.extra = p.extra /\ q.failed = p.failed
        /\ q.action = a /\ q.journey = j /\ q.at = clock
    BY <1>4
  <1>8. Decides(r, q)
    BY <1>1, <1>2, <1>3, <1>6, <1>7 DEF Decides
  <1> QED
    BY <1>5, <1>8 DEF Becomes, RequireSession

(* VerifySignedPayload does what VerifiesPayload says.                     *)
LEMMA VerifySignedPayloadStep ==
  ASSUME SessionTypeOK, NEW r \in Requests, NEW env \in Envelope, NEW failed \in BOOLEAN,
         VerifySignedPayload(r, env, failed)
  PROVE  \E q : VerifiesPayload(r, q) /\ Becomes(r, q)
  <1>1. /\ \/ requests[r].stage = "admitted"
           \/ requests[r].stage = "attached" /\ requests[r].identity # NoIdentity
        /\ requests[r].cert \in Certs
    BY RequestFields DEF VerifySignedPayload, RequireIdentity, Carried, Decided
  <1>2. PICK p : p = requests[r]
    OBVIOUS
  <1>3. PICK stage \in {"signed", "unsigned"} :
          /\ stage = IF /\ env.claimed = p.identity
                        /\ ~failed /\ EnrolledCertByClientAppID(env.keyId)
                        /\ SignerIsClaimedUser(env)
                        /\ VerifyPayloadWithKey(env, env.keyId)
                     THEN "signed" ELSE "unsigned"
          /\ \/ /\ stage = "signed"
                /\ env.claimed = p.identity
                /\ env.keyId = p.identity
                /\ env.madeBy = p.identity
                /\ p.identity \notin revoked
             \/ /\ stage = "unsigned"
                /\ \/ failed
                   \/ env.claimed # p.identity
                   \/ env.keyId # p.identity
                   \/ env.madeBy # p.identity
                   \/ p.identity \in revoked
    BY DEF EnrolledCertByClientAppID, SignerIsClaimedUser, VerifyPayloadWithKey
  <1>4. PICK q : q = [stage |-> stage, cert |-> p.cert, identity |-> p.identity,
                      envelope |-> env, failed |-> failed]
    OBVIOUS
  <1>5. requests' = [requests EXCEPT ![r] = q]
    BY <1>2, <1>3, <1>4, Zenon DEF VerifySignedPayload
  <1>6. q.identity \in Certs => q \in Verified
    BY <1>1, <1>2, <1>4 DEF Verified
  <1>7. /\ q.stage = stage /\ q.cert = p.cert /\ q.identity = p.identity
        /\ q.envelope = env /\ q.failed = failed
    BY <1>4
  <1>8. VerifiesPayload(r, q)
    BY <1>1, <1>2, <1>3, <1>6, <1>7 DEF VerifiesPayload
  <1> QED
    BY <1>5, <1>8 DEF Becomes, VerifySignedPayload

(* POST /v1/sessions grants g to the client of request r.                  *)
GrantsSession(r, g) ==
  /\ requests[r].stage = "attached"
  /\ requests[r].identity # NoIdentity
  /\ g \in Grant
  /\ g.root = server.issuer
  /\ g.cert = requests[r].identity
  /\ g.action \in JourneyActions => g.journey # NoJourney
  /\ g.expires <= g.at + MaxLifetime
  /\ grants' = grants \cup {g}
  /\ requests' = [requests EXCEPT ![r] = Idle]
  /\ UNCHANGED <<clock, roots, server, starts, revoked>>

(* A requested lifetime is cut to the maximum.                             *)
LEMMA LifetimeIsBounded ==
  ASSUME NEW hint \in Hints
  PROVE  /\ NormalizeSessionLifetime(hint) \in Nat
         /\ NormalizeSessionLifetime(hint) <= MaxLifetime
  BY SessionAssumptions DEF NormalizeSessionLifetime

(* HandleSessionCreate does what GrantsSession says.                       *)
LEMMA HandleSessionCreateStep ==
  ASSUME SessionTypeOK, RequestsNeedServer, NEW r \in Requests, NEW a \in Actions,
         NEW j \in Journeys \cup {NoJourney}, NEW hint \in Hints,
         HandleSessionCreate(r, a, j, hint)
  PROVE  \E g : GrantsSession(r, g)
  <1>1. /\ requests[r].stage = "attached"
        /\ requests[r].identity # NoIdentity
        /\ requests[r].identity \in Certs
    BY RequestFields DEF HandleSessionCreate, RequireIdentity, Carried
  <1>2. server.issuer \in Roots
    BY <1>1, RequestFields DEF RequestsNeedServer, SessionTypeOK, Server
  <1>3. clock \in Nat
    BY DEF SessionTypeOK
  <1>4. PICK expires \in Nat :
          expires = clock + NormalizeSessionLifetime(hint) /\ expires <= clock + MaxLifetime
    BY <1>3, LifetimeIsBounded, SessionAssumptions
  <1>5. PICK g : g = [root |-> server.issuer, cert |-> requests[r].identity, journey |-> j,
                      action |-> a, at |-> clock, expires |-> expires]
    OBVIOUS
  <1>6. g \in Grant
    BY <1>1, <1>2, <1>3, <1>4, <1>5 DEF Grant
  <1>7. /\ g.root = server.issuer /\ g.cert = requests[r].identity /\ g.journey = j
        /\ g.action = a /\ g.at = clock /\ g.expires = expires
    BY <1>5
  <1>8. /\ a \in JourneyActions => j # NoJourney
        /\ grants' = grants \cup {g}
        /\ requests' = [requests EXCEPT ![r] = Idle]
        /\ UNCHANGED <<clock, roots, server, starts, revoked>>
    BY <1>4, <1>5 DEF HandleSessionCreate, ValidSessionParams
  <1> QED
    BY <1>1, <1>4, <1>6, <1>7, <1>8 DEF GrantsSession

(* Request r is taken on by the step, and nothing else changes.            *)
Moves(r) ==
  /\ UNCHANGED <<clock, roots, server, starts, revoked, grants>>
  /\ \/ Identifies(r, requests'[r])
     \/ Attaches(r, requests'[r])
     \/ Decides(r, requests'[r])
     \/ VerifiesPayload(r, requests'[r])

(* A step leaves a request alone, ends it, or takes it on.                 *)
LEMMA RequestSteps ==
  ASSUME SessionTypeOK, [Next]_vars, NEW r \in Requests
  PROVE  requests'[r] = requests[r] \/ requests'[r] = Idle \/ Moves(r)
  <1>0. grants \subseteq Grant
    BY DEF SessionTypeOK
  <1>1. ASSUME NEW z \in Requests, NEW q, Becomes(z, q),
               Identifies(z, q) \/ Attaches(z, q) \/ Decides(z, q) \/ VerifiesPayload(z, q)
        PROVE  requests'[r] = requests[r] \/ Moves(r)
    <2>1. CASE z = r
      <3>1. requests'[r] = q
        BY <1>1, <2>1 DEF Becomes, SessionTypeOK
      <3> QED
        BY <1>1, <2>1, <3>1 DEF Moves, Becomes
    <2>2. CASE z # r
      BY <1>1, <2>2 DEF Becomes, SessionTypeOK
    <2> QED
      BY <2>1, <2>2
  <1>2. ASSUME NEW z \in Requests, requests' = [requests EXCEPT ![z] = Idle]
        PROVE  requests'[r] = requests[r] \/ requests'[r] = Idle
    BY <1>2 DEF SessionTypeOK
  <1>3. ASSUME NEW z \in Requests, NEW c \in Certs, NEW failed \in BOOLEAN,
               \/ AttachIdentity(z, c, NoGrant, <<>>, failed)
               \/ \E g \in grants, extra \in Attenuations :
                    AttachIdentity(z, c, g, extra, failed)
        PROVE  requests'[r] = requests[r] \/ Moves(r)
    <2>1. <<>> \in Attenuations
      BY SessionAssumptions
    <2>2. PICK g \in grants \cup {NoGrant}, extra \in Attenuations :
            AttachIdentity(z, c, g, extra, failed)
      BY <1>3, <2>1
    <2>3. PICK q : Identifies(z, q) /\ Becomes(z, q)
      BY <1>0, <2>2, AttachIdentityStep
    <2> QED
      BY <1>1, <2>3
  <1>4. ASSUME NEW z \in Requests, NEW failed \in BOOLEAN, AttachSession(z, failed)
        PROVE  requests'[r] = requests[r] \/ Moves(r)
    BY <1>1, <1>4, AttachSessionStep
  <1>5. ASSUME NEW z \in Requests, NEW a \in JourneyActions, NEW j \in Journeys,
               RequireSession(z, a, j)
        PROVE  requests'[r] = requests[r] \/ Moves(r)
    BY <1>1, <1>5, RequireSessionStep
  <1>6. ASSUME NEW z \in Requests, NEW env \in Envelope, NEW failed \in BOOLEAN,
               VerifySignedPayload(z, env, failed)
        PROVE  requests'[r] = requests[r] \/ Moves(r)
    BY <1>1, <1>6, VerifySignedPayloadStep
  <1>7. CASE Tick \/ (\E c \in Certs : RevokeCertificate(c))
             \/ (\E k \in Roots : RotateMacaroonRoot(k)) \/ Start \/ LoadMacaroonRoot
             \/ (\E k \in Roots : IssueMacaroonRoot(k)) \/ Crash \/ UNCHANGED vars
    BY <1>7 DEF Tick, RevokeCertificate, RotateMacaroonRoot, Start, LoadMacaroonRoot,
                IssueMacaroonRoot, Crash, vars
  <1>8. CASE \E z \in Requests :
               \/ Answer(z)
               \/ \E a \in Actions, j \in Journeys \cup {NoJourney}, hint \in Hints :
                    HandleSessionCreate(z, a, j, hint)
               \/ RejectSession(z)
    BY <1>2, <1>8 DEF Answer, HandleSessionCreate, RejectSession
  <1> QED
    BY <1>3, <1>4, <1>5, <1>6, <1>7, <1>8 DEF Next

(* Rows stay on file, revocations stand, grants are on record.             *)
LEMMA GrowingSets ==
  ASSUME SessionTypeOK, RequestsNeedServer, [Next]_vars
  PROVE  /\ revoked \subseteq revoked'
         /\ OnFile \subseteq OnFile'
         /\ \/ grants' = grants
            \/ \E r \in Requests, g \in Grant :
                 GrantsSession(r, g) /\ grants' = grants \cup {g}
  <1>1. revoked \subseteq revoked'
    BY DEF Next, vars, Tick, RevokeCertificate, RotateMacaroonRoot, Start,
           LoadMacaroonRoot, IssueMacaroonRoot, Crash, AttachIdentity, AttachSession,
           RequireSession, VerifySignedPayload, Answer, HandleSessionCreate, RejectSession
  <1>2. OnFile \subseteq OnFile'
    <2>0. \A k \in Roots : roots[k] # NoRoot => roots[k] \in RootRow
      BY DEF SessionTypeOK
    <2>1. ASSUME NEW k \in Roots, RotateMacaroonRoot(k)
          PROVE  OnFile \subseteq OnFile'
      <3>1. ASSUME NEW j \in OnFile
            PROVE  roots'[j] # NoRoot
        <4>1. j \in Roots /\ j # k /\ roots[j] \in RootRow
          BY <2>0, <2>1 DEF OnFile, RotateMacaroonRoot
        <4>2. roots'[j] = [roots[j] EXCEPT !.rotated = TRUE]
          BY <2>1, <4>1 DEF RotateMacaroonRoot
        <4>3. roots'[j] \in RootRow
          BY <4>1, <4>2 DEF RootRow
        <4> QED
          BY <4>3, MarkerAssumptions
      <3> QED
        BY <3>1 DEF OnFile
    <2>2. ASSUME NEW k \in Roots, IssueMacaroonRoot(k)
          PROVE  OnFile \subseteq OnFile'
      BY <2>2 DEF IssueMacaroonRoot, OnFile, SessionTypeOK
    <2>3. CASE UNCHANGED roots
      BY <2>3 DEF OnFile
    <2> QED
      BY <2>1, <2>2, <2>3
      DEF Next, vars, Tick, RevokeCertificate, Start, LoadMacaroonRoot, Crash,
          AttachIdentity, AttachSession, RequireSession, VerifySignedPayload, Answer,
          HandleSessionCreate, RejectSession
  <1>3. \/ grants' = grants
        \/ \E r \in Requests, g \in Grant :
             GrantsSession(r, g) /\ grants' = grants \cup {g}
    <2>1. ASSUME NEW r \in Requests, NEW a \in Actions,
                 NEW j \in Journeys \cup {NoJourney}, NEW hint \in Hints,
                 HandleSessionCreate(r, a, j, hint)
          PROVE  \E g \in Grant : GrantsSession(r, g) /\ grants' = grants \cup {g}
      BY <2>1, HandleSessionCreateStep DEF GrantsSession
    <2> QED
      BY <2>1
      DEF Next, vars, Tick, RevokeCertificate, RotateMacaroonRoot, Start,
          LoadMacaroonRoot, IssueMacaroonRoot, Crash, AttachIdentity, AttachSession,
          RequireSession, VerifySignedPayload, Answer, RejectSession
  <1> QED
    BY <1>1, <1>2, <1>3

-----------------------------------------------------------------------------
(* Types, the process and its roots.                                       *)

(* A new root row is well typed.                                           *)
LEMMA NewRootType ==
  /\ NewRoot \in RootRow
  /\ NewRoot # NoRoot
  /\ NewRoot.rotated = FALSE
  <1>1. OnFile \subseteq Roots /\ IsFiniteSet(Roots)
    BY SessionAssumptions DEF OnFile
  <1>2. Cardinality(OnFile) \in Nat
    BY <1>1, FS_Subset, FS_CardinalityType
  <1>3. NewRoot \in RootRow /\ NewRoot.rotated = FALSE
    BY <1>2 DEF NewRoot, RootRow
  <1> QED
    BY <1>3, MarkerAssumptions

(* Rotation writes well-typed rows, of which only the successor is active. *)
LEMMA RotationStep ==
  ASSUME SessionTypeOK, NEW k \in Roots, RotateMacaroonRoot(k)
  PROVE  /\ roots' \in [Roots -> RootRow \cup {NoRoot}]
         /\ \A j \in Roots : j # k /\ roots'[j] # NoRoot => roots'[j].rotated
  <1>1. ASSUME NEW j \in Roots
        PROVE  /\ roots'[j] \in RootRow \cup {NoRoot}
               /\ j # k /\ roots'[j] # NoRoot => roots'[j].rotated
    <2>1. CASE j = k
      BY <2>1, NewRootType DEF RotateMacaroonRoot
    <2>2. CASE j # k /\ j \in OnFile
      <3>1. roots[j] \in RootRow /\ roots'[j] = [roots[j] EXCEPT !.rotated = TRUE]
        BY <2>2 DEF RotateMacaroonRoot, OnFile, SessionTypeOK
      <3> QED
        BY <3>1 DEF RootRow
    <2>3. CASE j # k /\ j \notin OnFile
      BY <2>3 DEF RotateMacaroonRoot
    <2> QED
      BY <2>1, <2>2, <2>3
  <1>2. roots' = [j \in Roots |-> roots'[j]]
    BY DEF RotateMacaroonRoot
  <1> QED
    BY <1>1, <1>2

(* Every step keeps the types.                                             *)
LEMMA NextSessionType ==
  ASSUME SessionTypeOK, RequestsNeedServer, IdentityIsPresented, [Next]_vars
  PROVE  SessionTypeOK'
  <1>1. clock' \in 0..MaxTime
    <2>0. clock \in 0..MaxTime
      BY DEF SessionTypeOK
    <2>1. CASE Tick
      BY <2>0, <2>1, SessionAssumptions DEF Tick
    <2>2. CASE UNCHANGED clock
      BY <2>0, <2>2
    <2> QED
      BY <2>1, <2>2
      DEF Next, vars, RevokeCertificate, RotateMacaroonRoot, Start, LoadMacaroonRoot,
          IssueMacaroonRoot, Crash, AttachIdentity, AttachSession, RequireSession,
          VerifySignedPayload, Answer, HandleSessionCreate, RejectSession
  <1>2. roots' \in [Roots -> RootRow \cup {NoRoot}]
    <2>1. ASSUME NEW k \in Roots, IssueMacaroonRoot(k)
          PROVE  roots' \in [Roots -> RootRow \cup {NoRoot}]
      BY <2>1, NewRootType DEF IssueMacaroonRoot, SessionTypeOK
    <2>2. CASE UNCHANGED roots
      BY <2>2 DEF SessionTypeOK
    <2> QED
      BY <2>1, <2>2, RotationStep
      DEF Next, vars, Tick, RevokeCertificate, Start, LoadMacaroonRoot, Crash,
          AttachIdentity, AttachSession, RequireSession, VerifySignedPayload, Answer,
          HandleSessionCreate, RejectSession
  <1>3. server' \in Server /\ starts' \in 0..MaxStarts
    <2>1. CASE Start
      BY <2>1, SessionAssumptions DEF Start, Server, SessionTypeOK
    <2>2. CASE LoadMacaroonRoot
      BY <2>2 DEF LoadMacaroonRoot, ActiveMacaroonRoot, ActiveRoots, OnFile, Server,
                  SessionTypeOK
    <2>3. ASSUME NEW k \in Roots, IssueMacaroonRoot(k)
          PROVE  server' \in Server /\ starts' \in 0..MaxStarts
      BY <2>3 DEF IssueMacaroonRoot, Server, SessionTypeOK
    <2>4. CASE Crash
      BY <2>4 DEF Crash, Server, SessionTypeOK
    <2>5. CASE UNCHANGED <<server, starts>>
      BY <2>5 DEF SessionTypeOK
    <2> QED
      BY <2>1, <2>2, <2>3, <2>4, <2>5
      DEF Next, vars, Tick, RevokeCertificate, RotateMacaroonRoot, AttachIdentity,
          AttachSession, RequireSession, VerifySignedPayload, Answer,
          HandleSessionCreate, RejectSession
  <1>4. revoked' \subseteq Certs
    BY DEF Next, vars, Tick, RevokeCertificate, RotateMacaroonRoot, Start,
           LoadMacaroonRoot, IssueMacaroonRoot, Crash, AttachIdentity, AttachSession,
           RequireSession, VerifySignedPayload, Answer, HandleSessionCreate,
           RejectSession, SessionTypeOK
  <1>5. grants' \subseteq Grant
    BY GrowingSets DEF SessionTypeOK
  <1>6. requests' \in [Requests -> {Idle} \cup Carried \cup Decided \cup Verified]
    <2>1. requests' = [r \in Requests |-> requests'[r]]
      <3>1. ASSUME NEW z \in Requests, NEW q, requests' = [requests EXCEPT ![z] = q]
            PROVE  requests' = [r \in Requests |-> requests'[r]]
        BY <3>1 DEF SessionTypeOK
      <3>2. ASSUME NEW z \in Requests, NEW failed \in BOOLEAN, AttachSession(z, failed)
            PROVE  requests' = [r \in Requests |-> requests'[r]]
        BY <3>1, <3>2, AttachSessionStep DEF Becomes
      <3>3. CASE Crash \/ UNCHANGED requests
        BY <3>3 DEF Crash, SessionTypeOK
      <3>4. CASE \E z \in Requests :
              \/ \E c \in Certs, failed \in BOOLEAN :
                   \/ AttachIdentity(z, c, NoGrant, <<>>, failed)
                   \/ \E g \in grants, extra \in Attenuations :
                        AttachIdentity(z, c, g, extra, failed)
              \/ \E a \in JourneyActions, j \in Journeys : RequireSession(z, a, j)
              \/ \E env \in Envelope, failed \in BOOLEAN :
                   VerifySignedPayload(z, env, failed)
        BY <3>1, <3>4, Zenon DEF AttachIdentity, RequireSession, VerifySignedPayload
      <3>5. CASE \E z \in Requests :
              \/ Answer(z)
              \/ \E a \in Actions, j \in Journeys \cup {NoJourney}, hint \in Hints :
                   HandleSessionCreate(z, a, j, hint)
              \/ RejectSession(z)
        BY <3>1, <3>5, Zenon DEF Answer, HandleSessionCreate, RejectSession
      <3> QED
        BY <3>2, <3>3, <3>4, <3>5
        DEF Next, vars, Tick, RevokeCertificate, RotateMacaroonRoot, Start,
            LoadMacaroonRoot, IssueMacaroonRoot
    <2>2. ASSUME NEW r \in Requests
          PROVE  requests'[r] \in {Idle} \cup Carried \cup Decided \cup Verified
      <3>1. CASE requests'[r] = requests[r]
        BY <3>1 DEF SessionTypeOK
      <3>2. ASSUME VerifiesPayload(r, requests'[r])
            PROVE  requests'[r] \in Verified
        <4>1. requests[r].cert \in Certs /\ requests[r] # Idle
          BY <3>2, RequestFields DEF VerifiesPayload, Carried, Decided
        <4>2. requests[r].identity \in Certs
          BY <3>2, <4>1 DEF VerifiesPayload, IdentityIsPresented
        <4> QED
          BY <3>2, <4>2 DEF VerifiesPayload
      <3> QED
        BY <3>1, <3>2, RequestSteps DEF Moves, Identifies, Attaches, Decides
    <2> QED
      BY <2>1, <2>2
  <1> QED
    BY <1>1, <1>2, <1>3, <1>4, <1>5, <1>6 DEF SessionTypeOK

(* loadOrMintMacaroonIssuer mints only where nothing is active, and what   *)
(* rotation inserts is then the only active root.                          *)
LEMMA NextRootsInv ==
  ASSUME SessionTypeOK, RequestsNeedServer, RootsInv, [Next]_vars
  PROVE  RootsInv'
  <1>0. OnFile \subseteq OnFile'
    BY GrowingSets
  <1>1. ASSUME NEW k \in Roots, RotateMacaroonRoot(k)
        PROVE  RootsInv'
    <2>1. ActiveRoots' \subseteq {k}
      BY <1>1, RotationStep DEF ActiveRoots, OnFile
    <2>2. server' = server /\ ActiveRoots # {}
      BY <1>1 DEF RotateMacaroonRoot
    <2> QED
      BY <1>0, <2>1, <2>2 DEF RootsInv
  <1>2. CASE LoadMacaroonRoot
    <2>1. ActiveRoots' = ActiveRoots /\ OnFile' = OnFile
      BY <1>2 DEF LoadMacaroonRoot, ActiveRoots, OnFile
    <2>2. ActiveMacaroonRoot = {} => ActiveRoots = {}
      <3>1. ASSUME NEW k \in ActiveRoots
            PROVE  k \in ActiveMacaroonRoot
        <4>1. roots[k].created \in Nat
          BY DEF ActiveRoots, OnFile, SessionTypeOK, RootRow
        <4> QED
          BY <4>1 DEF ActiveMacaroonRoot, RootsInv
      <3> QED
        BY <3>1
    <2>3. \/ \E k \in ActiveMacaroonRoot : server' = [stage |-> "serving", issuer |-> k]
          \/ ActiveMacaroonRoot = {} /\ server' = [stage |-> "minting"]
      BY <1>2 DEF LoadMacaroonRoot
    <2>4. ActiveMacaroonRoot \subseteq OnFile
      BY DEF ActiveMacaroonRoot, ActiveRoots
    <2> QED
      BY <2>1, <2>2, <2>3, <2>4 DEF RootsInv
  <1>3. ASSUME NEW k \in Roots, IssueMacaroonRoot(k)
        PROVE  RootsInv'
    <2>1. ActiveRoots = {}
      BY <1>3 DEF IssueMacaroonRoot, RootsInv
    <2>2. ActiveRoots' \subseteq {k}
      BY <1>3, <2>1 DEF IssueMacaroonRoot, ActiveRoots, OnFile, SessionTypeOK
    <2>3. k \in OnFile'
      BY <1>3, NewRootType DEF IssueMacaroonRoot, OnFile, SessionTypeOK
    <2>4. server'.stage = "serving" /\ server'.issuer = k
      BY <1>3 DEF IssueMacaroonRoot
    <2> QED
      BY <2>2, <2>3, <2>4 DEF RootsInv
  <1>4. CASE Start \/ Crash
    BY <1>4 DEF Start, Crash, RootsInv, ActiveRoots, OnFile
  <1>5. CASE UNCHANGED <<roots, server>>
    BY <1>5 DEF RootsInv, ActiveRoots, OnFile
  <1> QED
    BY <1>1, <1>2, <1>3, <1>4, <1>5
    DEF Next, vars, Tick, RevokeCertificate, AttachIdentity, AttachSession,
        RequireSession, VerifySignedPayload, Answer, HandleSessionCreate, RejectSession

(* Requests are begun and taken on by a serving process, and end with it.  *)
LEMMA NextSessionsNeedServer ==
  ASSUME SessionTypeOK, RequestsNeedServer, [Next]_vars
  PROVE  RequestsNeedServer'
  <1>1. CASE Crash
    BY <1>1 DEF Crash, RequestsNeedServer
  <1>2. CASE ~Crash
    <2>1. server.stage = "serving" => server' = server
      BY <1>2
      DEF Next, vars, Tick, RevokeCertificate, RotateMacaroonRoot, Start,
          LoadMacaroonRoot, IssueMacaroonRoot, AttachIdentity, AttachSession,
          RequireSession, VerifySignedPayload, Answer, HandleSessionCreate, RejectSession
    <2>2. ASSUME NEW r \in Requests, server'.stage # "serving"
          PROVE  requests'[r] = Idle
      <3>1. server.stage # "serving" /\ requests[r] = Idle /\ requests[r].stage = "idle"
        BY <2>1, <2>2, RequestFields DEF RequestsNeedServer
      <3> QED
        BY <3>1, RequestSteps DEF Moves, Identifies, Attaches, Decides, VerifiesPayload
    <2> QED
      BY <2>2 DEF RequestsNeedServer
  <1> QED
    BY <1>1, <1>2

(* A grant is made by a serving process with the root it holds, and within *)
(* the limits of validate and normalizeSessionLifetime.                    *)
LEMMA NextGrantsAreSound ==
  ASSUME SessionTypeOK, RequestsNeedServer, RootsInv, GrantsAreSound, [Next]_vars
  PROVE  GrantsAreSound'
  <1>1. OnFile \subseteq OnFile'
    BY GrowingSets
  <1>2. ASSUME NEW r \in Requests, NEW g \in Grant, GrantsSession(r, g)
        PROVE  /\ g.root \in OnFile
               /\ g.action \in JourneyActions => g.journey # NoJourney
               /\ g.expires <= g.at + MaxLifetime
    <2>1. requests[r] # Idle
      BY <1>2, RequestFields DEF GrantsSession
    <2>2. server.stage = "serving"
      BY <2>1 DEF RequestsNeedServer
    <2> QED
      BY <1>2, <2>2 DEF GrantsSession, RootsInv
  <1> QED
    BY <1>1, <1>2, GrowingSets DEF GrantsAreSound

-----------------------------------------------------------------------------
(* The requests.                                                           *)

(* A request is admitted for the holder of the grant.                      *)
LEMMA AdmissionIsOwn ==
  ASSUME SessionTypeOK, IdentityIsPresented, MacaroonsAreGranted, NEW r \in Requests,
         NEW q, Decides(r, q), q.stage = "admitted"
  PROVE  /\ q.grant \in grants /\ q.grant \in Grant /\ q.extra \in Attenuations
         /\ q.identity = q.cert /\ q.grant.cert = q.cert
         /\ q.action = q.grant.action
         /\ clock < q.grant.expires
         /\ q.grant.journey # NoJourney => q.journey = q.grant.journey
         /\ \A i \in DOMAIN q.extra :
              EvaluateCaveat(q.extra[i], requests[r], q.action, q.journey)
  <1>1. /\ requests[r].stage = "attached" /\ requests[r] # Idle
        /\ requests[r].extra \in Attenuations
        /\ requests[r].cert \in Certs
    BY RequestFields DEF Decides, Carried
  <1>2. requests[r].grant \in grants /\ requests[r].grant \in Grant
    BY <1>1 DEF Decides, MacaroonsAreGranted, SessionTypeOK
  <1>3. /\ requests[r].identity = requests[r].grant.cert
        /\ q.action = requests[r].grant.action
        /\ clock < requests[r].grant.expires
        /\ requests[r].grant.journey # NoJourney => q.journey = requests[r].grant.journey
        /\ \A i \in DOMAIN requests[r].extra :
             EvaluateCaveat(requests[r].extra[i], requests[r], q.action, q.journey)
    BY <1>1, <1>2, ConstraintsBind DEF Decides
  <1>4. requests[r].grant.cert \in Certs
    BY <1>2 DEF Grant
  <1>5. requests[r].identity = requests[r].cert
    BY <1>1, <1>3, <1>4, SessionAssumptions DEF IdentityIsPresented
  <1> QED
    BY <1>1, <1>2, <1>3, <1>5 DEF Decides

(* No pass attaches an identity other than that of the certificate.        *)
LEMMA NextIdentityIsPresented ==
  ASSUME SessionTypeOK, RequestsNeedServer, IdentityIsPresented, MacaroonsAreGranted,
         [Next]_vars
  PROVE  IdentityIsPresented'
  <1> DEFINE Presented(q, rev) ==
        /\ q # Idle => q.identity \in {q.cert, NoIdentity}
        /\ q.stage \in {"admitted", "signed", "unsigned"} => q.identity = q.cert
        /\ q.stage \in {"identified", "attached"} =>
             q.failed \/ q.cert \in rev \/ q.identity = q.cert
  <1>0. \A r \in Requests : Presented(requests[r], revoked)
    BY DEF IdentityIsPresented
  <1>1. ASSUME NEW r \in Requests
        PROVE  Presented(requests'[r], revoked')
    <2>1. CASE requests'[r] = requests[r]
      BY <1>0, <2>1, GrowingSets
    <2>2. CASE requests'[r] = Idle
      BY <2>2, RequestFields
    <2>3. CASE Moves(r) /\ Identifies(r, requests'[r])
      BY <2>3 DEF Moves, Identifies
    <2>4. CASE Moves(r) /\ Attaches(r, requests'[r])
      <3>1. requests[r].stage = "identified" /\ requests[r] # Idle
        BY <2>4, RequestFields DEF Attaches
      <3> QED
        BY <1>0, <2>4, <3>1 DEF Moves, Attaches
    <2>5. CASE Moves(r) /\ Decides(r, requests'[r])
      <3>1. requests[r].stage = "attached" /\ requests[r] # Idle
        BY <2>5, RequestFields DEF Decides
      <3>2. requests'[r].stage = "admitted" => requests'[r].identity = requests'[r].cert
        BY <2>5, AdmissionIsOwn
      <3> QED
        BY <1>0, <2>5, <3>1, <3>2 DEF Decides
    <2>6. CASE Moves(r) /\ VerifiesPayload(r, requests'[r])
      <3>1. requests[r].stage \in {"attached", "admitted"} /\ requests[r] # Idle
        BY <2>6, RequestFields DEF VerifiesPayload
      <3>2. requests[r].identity = requests[r].cert
        BY <1>0, <2>6, <3>1 DEF VerifiesPayload
      <3> QED
        BY <2>6, <3>2 DEF VerifiesPayload
    <2> QED
      BY <2>1, <2>2, <2>3, <2>4, <2>5, <2>6, RequestSteps DEF Moves
  <1> QED
    BY <1>1 DEF IdentityIsPresented

(* The macaroon of a request is one that was granted, and AttachSession    *)
(* verifies it.                                                            *)
LEMMA NextMacaroonsAreGranted ==
  ASSUME SessionTypeOK, RequestsNeedServer, GrantsAreSound, MacaroonsAreGranted,
         [Next]_vars
  PROVE  MacaroonsAreGranted'
  <1> DEFINE Granted(q, gs) ==
        /\ q.stage \in {"identified", "attached", "admitted", "refused"} =>
             q.grant \in gs \cup {NoGrant}
        /\ q.stage = "attached" =>
             /\ q.verified => q.grant # NoGrant
             /\ q.grant # NoGrant /\ q.extra = <<>> => q.failed \/ q.verified
  <1>0. \A r \in Requests : Granted(requests[r], grants)
    BY DEF MacaroonsAreGranted
  <1>1. ASSUME NEW r \in Requests
        PROVE  Granted(requests'[r], grants')
    <2>0. grants \subseteq grants'
      BY GrowingSets
    <2>1. CASE requests'[r] = requests[r]
      BY <1>0, <2>0, <2>1
    <2>2. CASE requests'[r] = Idle
      BY <2>2, RequestFields
    <2>3. CASE Moves(r) /\ Identifies(r, requests'[r])
      BY <2>3 DEF Moves, Identifies
    <2>4. CASE Moves(r) /\ Attaches(r, requests'[r])
      <3>1. requests[r].stage = "identified" /\ requests'[r].stage = "attached"
            /\ requests'[r].grant = requests[r].grant /\ requests'[r].extra = requests[r].extra
        BY <2>4 DEF Attaches
      <3>2. requests'[r].grant \in grants \cup {NoGrant} /\ grants' = grants
        BY <1>0, <2>4, <3>1 DEF Moves
      <3>3. requests'[r].verified => requests'[r].grant # NoGrant
        BY <2>4 DEF Attaches
      <3>4. ASSUME requests'[r].grant # NoGrant, requests'[r].extra = <<>>
            PROVE  requests'[r].failed \/ requests'[r].verified
        <4>1. /\ requests[r].grant \in Grant /\ requests[r].grant.root \in OnFile
              /\ requests[r].extra = <<>>
          BY <3>1, <3>2, <3>4 DEF GrantsAreSound, SessionTypeOK
        <4>2. VerifySignature(requests[r])
          BY <4>1, GrantPasses
        <4> QED
          BY <2>4, <3>4, <4>2 DEF Attaches
      <3> QED
        BY <3>1, <3>2, <3>3, <3>4
    <2>5. CASE Moves(r) /\ Decides(r, requests'[r])
      <3>1. requests[r].stage = "attached" /\ requests'[r].stage \in {"admitted", "refused"}
            /\ requests'[r].grant = requests[r].grant
        BY <2>5 DEF Decides
      <3> QED
        BY <1>0, <2>0, <3>1
    <2>6. CASE Moves(r) /\ VerifiesPayload(r, requests'[r])
      <3>1. requests'[r].stage \in {"signed", "unsigned"}
        BY <2>6 DEF VerifiesPayload
      <3> QED
        BY <3>1
    <2> QED
      BY <2>1, <2>2, <2>3, <2>4, <2>5, <2>6, RequestSteps DEF Moves
  <1> QED
    BY <1>1 DEF MacaroonsAreGranted

(* A request that is decided after a step was so before, or is decided now.*)
LEMMA Deciding ==
  ASSUME SessionTypeOK, [Next]_vars, NEW r \in Requests,
         requests'[r].stage \in {"admitted", "refused"}
  PROVE  requests'[r] = requests[r] \/ (Moves(r) /\ Decides(r, requests'[r]))
  BY RequestSteps, RequestFields DEF Moves, Identifies, Attaches, VerifiesPayload

(* Admission stays within the grant.                                       *)
LEMMA NextAdmittedWithinGrant ==
  ASSUME SessionTypeOK, IdentityIsPresented, MacaroonsAreGranted, GrantsAreSound,
         AdmittedWithinGrant, [Next]_vars
  PROVE  AdmittedWithinGrant'
  <1> DEFINE Within(q) == /\ q.grant.cert = q.cert
                          /\ q.grant.action = q.action
                          /\ q.grant.journey = q.journey
                          /\ q.at < q.grant.expires
                          /\ q.at < q.grant.at + MaxLifetime
  <1>1. ASSUME NEW r \in Requests, requests'[r].stage = "admitted"
        PROVE  Within(requests'[r])
    <2>1. CASE requests'[r] = requests[r]
      BY <1>1, <2>1 DEF AdmittedWithinGrant, Admitted
    <2>2. CASE Decides(r, requests'[r])
      <3>1. PICK q : q = requests'[r] /\ q \in Decided /\ q.at = clock
        BY <2>2 DEF Decides
      <3>2. /\ q.grant \in grants /\ q.grant \in Grant
            /\ q.grant.cert = q.cert
            /\ q.action = q.grant.action
            /\ clock < q.grant.expires
            /\ q.grant.journey # NoJourney => q.journey = q.grant.journey
        BY <1>1, <2>2, <3>1, AdmissionIsOwn
      <3>3. q.action \in JourneyActions
        BY <3>1 DEF Decided
      <3>4. q.grant.journey = q.journey /\ q.grant.expires <= q.grant.at + MaxLifetime
        BY <3>2, <3>3 DEF GrantsAreSound
      <3>5. clock < q.grant.at + MaxLifetime
        <4>1. /\ clock \in Nat /\ q.grant.expires \in Nat /\ q.grant.at \in Nat
              /\ MaxLifetime \in Nat
          BY <3>2, SessionAssumptions DEF SessionTypeOK, Grant
        <4> QED
          BY <3>2, <3>4, <4>1
      <3> QED
        BY <3>1, <3>2, <3>4, <3>5
    <2> QED
      BY <1>1, <2>1, <2>2, Deciding
  <1> QED
    BY <1>1 DEF AdmittedWithinGrant, Admitted

(* Admission meets every appended caveat.                                  *)
LEMMA NextAttenuationBinds ==
  ASSUME SessionTypeOK, IdentityIsPresented, MacaroonsAreGranted, AttenuationBinds,
         [Next]_vars
  PROVE  AttenuationBinds'
  <1> DEFINE Meets(cav, q) ==
        \/ cav.kind = "time" /\ q.at < cav.value
        \/ cav.kind = "journey" /\ cav.value = q.journey
        \/ cav.kind = "action" /\ cav.value = q.action
        \/ cav.kind \in {"user", "client_app"} /\ cav.value = q.cert
  <1>1. ASSUME NEW r \in Requests, requests'[r].stage = "admitted"
        PROVE  \A i \in DOMAIN requests'[r].extra :
                 Meets(requests'[r].extra[i], requests'[r])
    <2>1. CASE requests'[r] = requests[r]
      BY <1>1, <2>1 DEF AttenuationBinds, Admitted
    <2>2. CASE Decides(r, requests'[r])
      <3>1. PICK q : q = requests'[r] /\ q.at = clock /\ q.identity = requests[r].identity
        BY <2>2 DEF Decides
      <3>2. q.identity = q.cert
        BY <1>1, <2>2, <3>1, AdmissionIsOwn
      <3>3. ASSUME NEW cav, EvaluateCaveat(cav, requests[r], q.action, q.journey)
            PROVE  Meets(cav, q)
        BY <3>1, <3>2, <3>3 DEF EvaluateCaveat
      <3>4. \A i \in DOMAIN q.extra :
              EvaluateCaveat(q.extra[i], requests[r], q.action, q.journey)
        BY <1>1, <2>2, <3>1, AdmissionIsOwn
      <3> HIDE DEF Meets
      <3> QED
        BY <3>1, <3>3, <3>4
    <2> QED
      BY <1>1, <2>1, <2>2, Deciding
  <1> QED
    BY <1>1 DEF AttenuationBinds, Admitted

(* A refusal has a reason when it is made, and a certificate stays revoked.*)
LEMMA NextRefusalsHaveAReason ==
  ASSUME SessionTypeOK, RequestsNeedServer, IdentityIsPresented, MacaroonsAreGranted,
         RefusalsHaveAReason, [Next]_vars
  PROVE  RefusalsHaveAReason'
  <1> DEFINE Reason(q, rev) ==
        \/ q.failed
        \/ q.cert \in rev
        \/ q.cert # q.grant.cert
        \/ q.at >= q.grant.expires
        \/ q.action # q.grant.action
        \/ q.journey # q.grant.journey
  <1>1. ASSUME NEW r \in Requests, requests'[r].stage = "refused",
               requests'[r].grant # NoGrant, requests'[r].extra = <<>>
        PROVE  Reason(requests'[r], revoked')
    <2>0. revoked \subseteq revoked'
      BY GrowingSets
    <2>1. CASE requests'[r] = requests[r]
      BY <1>1, <2>0, <2>1 DEF RefusalsHaveAReason
    <2>2. CASE Decides(r, requests'[r])
      <3>1. PICK q : /\ q = requests'[r] /\ q.at = clock /\ q.grant # NoGrant
                     /\ q.extra = <<>> /\ q.stage = "refused" /\ Decides(r, q)
        BY <1>1, <2>2 DEF Decides
      <3>2. SUFFICES ASSUME ~Reason(q, revoked)
                     PROVE  FALSE
        BY <2>0, <3>1
      <3>3. PICK p : /\ p = requests[r] /\ p.stage = "attached"
                     /\ p.cert = q.cert /\ p.identity = q.identity /\ p.grant = q.grant
                     /\ p.extra = <<>> /\ p.failed = q.failed
        BY <3>1 DEF Decides
      <3>4. p.grant \in grants /\ p.grant \in Grant
        BY <3>1, <3>3 DEF MacaroonsAreGranted, SessionTypeOK
      <3>5. p.identity = p.cert
        BY <3>2, <3>3 DEF IdentityIsPresented
      <3>6. p.verified
        BY <3>1, <3>2, <3>3 DEF MacaroonsAreGranted
      <3>7. clock < p.grant.expires
        <4>1. clock \in Nat /\ p.grant.expires \in Nat
          BY <3>4 DEF SessionTypeOK, Grant
        <4> QED
          BY <3>1, <3>2, <3>3, <4>1
      <3>8. CheckConstraints(p, p.grant.action, p.grant.journey)
        BY <3>2, <3>3, <3>4, <3>5, <3>7, GrantPasses
      <3>9. q.action = p.grant.action /\ q.journey = p.grant.journey
        BY <3>2, <3>3
      <3> QED
        BY <3>1, <3>3, <3>6, <3>8, <3>9 DEF Decides
    <2> QED
      BY <1>1, <2>1, <2>2, Deciding
  <1> QED
    BY <1>1 DEF RefusalsHaveAReason

(* A payload that is verified after a step was so before, or is now.       *)
LEMMA Verifying ==
  ASSUME SessionTypeOK, [Next]_vars, NEW r \in Requests,
         requests'[r].stage \in {"signed", "unsigned"}
  PROVE  requests'[r] = requests[r] \/ (Moves(r) /\ VerifiesPayload(r, requests'[r]))
  BY RequestSteps, RequestFields DEF Moves, Identifies, Attaches, Decides

(* The identity that a payload is verified for is the caller's.            *)
LEMMA VerifyingIsOwn ==
  ASSUME SessionTypeOK, IdentityIsPresented, NEW r \in Requests, NEW q,
         VerifiesPayload(r, q)
  PROVE  q.identity = q.cert
  <1>1. requests[r] # Idle
    BY RequestFields DEF VerifiesPayload
  <1> QED
    BY <1>1 DEF VerifiesPayload, IdentityIsPresented

(* What is passed on was signed by the caller for the caller.              *)
LEMMA NextSignedPayloadsAreGenuine ==
  ASSUME SessionTypeOK, RequestsNeedServer, IdentityIsPresented,
         SignedPayloadsAreGenuine, [Next]_vars
  PROVE  SignedPayloadsAreGenuine'
  <1> DEFINE Own(q) == [claimed |-> q.cert, keyId |-> q.cert, madeBy |-> q.cert]
  <1> DEFINE Genuine(q, rev) ==
        /\ q.stage = "signed" => q.envelope = Own(q)
        /\ (q.stage = "unsigned" /\ q.envelope = Own(q)) => q.failed \/ q.cert \in rev
  <1>0. \A r \in Requests : Genuine(requests[r], revoked)
    BY DEF SignedPayloadsAreGenuine, Passed
  <1>1. ASSUME NEW r \in Requests, requests'[r].stage \in {"signed", "unsigned"}
        PROVE  Genuine(requests'[r], revoked')
    <2>0. revoked \subseteq revoked'
      BY GrowingSets
    <2>1. CASE requests'[r] = requests[r]
      <3>1. Genuine(requests[r], revoked)
        BY <1>0
      <3> QED
        BY <2>0, <2>1, <3>1
    <2>2. CASE VerifiesPayload(r, requests'[r])
      <3>1. PICK q : q = requests'[r] /\ VerifiesPayload(r, q)
        BY <2>2
      <3>2. q.identity = q.cert
        BY <3>1, VerifyingIsOwn
      <3>3. PICK e : e = q.envelope /\ e \in Envelope
        BY <3>1 DEF VerifiesPayload
      <3>4. q.stage = "signed" => e = Own(q)
        <4>1. e = [claimed |-> e.claimed, keyId |-> e.keyId, madeBy |-> e.madeBy]
          BY <3>3 DEF Envelope
        <4> QED
          BY <3>1, <3>2, <3>3, <4>1 DEF VerifiesPayload
      <3>5. ASSUME q.stage = "unsigned", e = Own(q)
            PROVE  q.failed \/ q.cert \in revoked
        <4>1. e.claimed = q.cert /\ e.keyId = q.cert /\ e.madeBy = q.cert
          BY <3>5
        <4> QED
          BY <3>1, <3>2, <3>3, <3>5, <4>1 DEF VerifiesPayload
      <3> HIDE DEF Own
      <3>6. Genuine(q, revoked')
        BY <2>0, <3>3, <3>4, <3>5
      <3> QED
        BY <3>1, <3>6
    <2> QED
      BY <1>1, <2>1, <2>2, Verifying
  <1>2. ASSUME NEW r \in Requests
        PROVE  Genuine(requests'[r], revoked')
    BY <1>1
  <1> QED
    BY <1>2 DEF SignedPayloadsAreGenuine, Passed

-----------------------------------------------------------------------------
(* The invariant.                                                          *)

(* A database without roots, and no process.                               *)
LEMMA InitSessionInv ==
  ASSUME Init
  PROVE  SessionInv
  <1>0. /\ clock = 0 /\ roots = [k \in Roots |-> NoRoot] /\ server.stage = "down"
        /\ starts = 0 /\ revoked = {} /\ grants = {}
        /\ server = [stage |-> "down"]
        /\ requests = [r \in Requests |-> Idle]
    BY DEF Init
  <1>1. \A r \in Requests : requests[r] = Idle /\ requests[r].stage = "idle"
    BY <1>0 DEF Idle
  <1>2. SessionTypeOK
    BY <1>0, SessionAssumptions DEF SessionTypeOK, Server
  <1>3. RootsInv
    BY <1>0 DEF RootsInv, ActiveRoots, OnFile
  <1>4. RequestsNeedServer /\ IdentityIsPresented /\ MacaroonsAreGranted
    BY <1>1 DEF RequestsNeedServer, IdentityIsPresented, MacaroonsAreGranted
  <1>5. GrantsAreSound
    BY <1>0 DEF GrantsAreSound
  <1>6. /\ AdmittedWithinGrant /\ AttenuationBinds /\ RefusalsHaveAReason
        /\ SignedPayloadsAreGenuine
    BY <1>1
    DEF AdmittedWithinGrant, AttenuationBinds, RefusalsHaveAReason,
        SignedPayloadsAreGenuine, Admitted, Passed
  <1> QED
    BY <1>2, <1>3, <1>4, <1>5, <1>6 DEF SessionInv

(* Each part of the invariant survives every step.                         *)
LEMMA NextSessionInv ==
  ASSUME SessionInv, [Next]_vars
  PROVE  SessionInv'
  BY NextSessionType, NextRootsInv, NextSessionsNeedServer, NextGrantsAreSound,
     NextIdentityIsPresented, NextMacaroonsAreGranted, NextAdmittedWithinGrant,
     NextAttenuationBinds, NextRefusalsHaveAReason, NextSignedPayloadsAreGenuine
  DEF SessionInv

(* The inductive invariant of the session machinery holds of every run of  *)
(* the server, whatever is revoked, rotated or restarted between two steps *)
(* of a request.                                                           *)
THEOREM SessionInvHolds == Spec => []SessionInv
  <1>1. Init => SessionInv
    BY InitSessionInv
  <1>2. SessionInv /\ [Next]_vars => SessionInv'
    BY NextSessionInv
  <1> QED
    BY <1>1, <1>2, PTL DEF Spec

(* RequireSession admits a request to a journey's handler only within the  *)
(* grant that its macaroon goes back to.                                   *)
THEOREM AdmissionStaysWithinGrant == Spec => []AdmittedWithinGrant
  <1>1. SessionInv => AdmittedWithinGrant
    BY DEF SessionInv
  <1> QED
    BY <1>1, SessionInvHolds, PTL

(* Every caveat appended to a macaroon binds whoever bears it, whatever the*)
(* caveats are and however many of a kind there are (RequireSession).      *)
THEOREM AppendedCaveatsBind == Spec => []AttenuationBinds
  <1>1. SessionInv => AttenuationBinds
    BY DEF SessionInv
  <1> QED
    BY <1>1, SessionInvHolds, PTL

(* RequireSession refuses the unattenuated macaroon of its own client only *)
(* for a reason, and rotation or a restart is none.                        *)
THEOREM RefusalsKeepTheirReason == Spec => []RefusalsHaveAReason
  <1>1. SessionInv => RefusalsHaveAReason
    BY DEF SessionInv
  <1> QED
    BY <1>1, SessionInvHolds, PTL

(* loadOrMintMacaroonIssuer and rotation leave at most one unrotated root, *)
(* wherever the process crashes.                                           *)
THEOREM OneRootStaysActive == Spec => []OneActiveRoot
  <1>1. ASSUME SessionInv
        PROVE  OneActiveRoot
    <2>1. \A j, k \in ActiveRoots : j = k
      BY <1>1 DEF SessionInv, RootsInv
    <2>2. ActiveRoots = {} \/ \E k : ActiveRoots = {k}
      BY <2>1
    <2>3. Cardinality({}) = 0 /\ \A k : Cardinality({k}) = 1
      BY FS_EmptySet, FS_Singleton, Zenon
    <2>4. Cardinality(ActiveRoots) = 0 \/ Cardinality(ActiveRoots) = 1
      BY <2>2, <2>3, Zenon
    <2> QED
      BY <2>4 DEF OneActiveRoot
  <1> QED
    BY <1>1, SessionInvHolds, PTL

(* The handlers of signed payloads pass on what the caller signed for      *)
(* itself, and turn that away only for a failed lookup or a revocation.    *)
THEOREM PayloadsStayGenuine == Spec => []SignedPayloadsAreGenuine
  <1>1. SessionInv => SignedPayloadsAreGenuine
    BY DEF SessionInv
  <1> QED
    BY <1>1, SessionInvHolds, PTL

-----------------------------------------------------------------------------
(* Revocation.                                                             *)

(* No pass gives the identity of a revoked certificate to a request.       *)
LEMMA IdentitiesOnlyFade ==
  ASSUME SessionInv, [Next]_vars, NEW c \in revoked
  PROVE  IdentifiedAs(c)' \subseteq IdentifiedAs(c)
  <1>1. SessionTypeOK /\ c \in Certs /\ c # NoIdentity
    BY SessionAssumptions DEF SessionInv, SessionTypeOK
  <1>2. SUFFICES ASSUME NEW r \in Requests, requests'[r] # Idle,
                        requests'[r].identity = c
                 PROVE  requests[r] # Idle /\ requests[r].identity = c
    BY DEF IdentifiedAs
  <1>3. CASE requests'[r] = requests[r]
    BY <1>2, <1>3
  <1>4. CASE Moves(r)
    BY <1>1, <1>2, <1>4, RequestFields
    DEF Moves, Identifies, Attaches, Decides, VerifiesPayload
  <1> QED
    BY <1>1, <1>2, <1>3, <1>4, RequestSteps

(* What a revoked certificate signed passes no lookup.                     *)
LEMMA RevokedKeyPassesNothing ==
  ASSUME SessionInv, [Next]_vars, NEW c \in revoked, NEW r \in Requests,
         requests'[r].stage = "signed", requests[r].stage # "signed"
  PROVE  requests'[r].envelope.madeBy # c
  <1>1. SessionTypeOK
    BY DEF SessionInv
  <1> QED
    BY <1>1, Verifying DEF VerifiesPayload

(* Without an identified request nothing is granted to a certificate and   *)
(* nothing is admitted for it.                                             *)
LEMMA NobodyActsAs ==
  ASSUME SessionInv, [Next]_vars, NEW c \in Certs, IdentifiedAs(c) = {}
  PROVE  /\ \A g \in grants' \ grants : g.cert # c
         /\ \A r \in Requests :
              requests'[r].stage = "admitted" => requests'[r].grant.cert # c
  <1>0. /\ SessionTypeOK /\ RequestsNeedServer /\ IdentityIsPresented
        /\ MacaroonsAreGranted /\ AdmittedWithinGrant
    BY DEF SessionInv
  <1>1. \A r \in Requests : requests[r] # Idle => requests[r].identity # c
    BY DEF IdentifiedAs
  <1>2. ASSUME NEW g \in grants' \ grants
        PROVE  g.cert # c
    <2>1. PICK r \in Requests, h \in Grant :
            GrantsSession(r, h) /\ grants' = grants \cup {h}
      BY <1>0, GrowingSets
    <2>2. g = h /\ requests[r] # Idle
      BY <1>0, <2>1, RequestFields DEF GrantsSession
    <2> QED
      BY <1>1, <2>1, <2>2 DEF GrantsSession
  <1>3. ASSUME NEW r \in Requests, requests'[r].stage = "admitted"
        PROVE  requests'[r].grant.cert # c
    <2>1. CASE requests'[r] = requests[r]
      <3>1. requests[r] # Idle /\ requests[r].stage = "admitted"
        BY <1>0, <1>3, <2>1, RequestFields
      <3>2. requests[r].identity = requests[r].cert
        BY <1>0, <3>1 DEF IdentityIsPresented
      <3>3. requests[r].grant.cert = requests[r].cert
        BY <1>0, <3>1 DEF AdmittedWithinGrant, Admitted
      <3> QED
        BY <1>1, <2>1, <3>1, <3>2, <3>3
    <2>2. CASE Decides(r, requests'[r])
      <3>1. PICK q : q = requests'[r] /\ Decides(r, q) /\ q.stage = "admitted"
        BY <1>3, <2>2
      <3>2. q.identity = q.cert /\ q.grant.cert = q.cert
        BY <1>0, <3>1, AdmissionIsOwn
      <3>3. requests[r] # Idle /\ requests[r].identity = q.identity
        BY <1>0, <3>1, RequestFields DEF Decides
      <3> QED
        BY <1>1, <3>1, <3>2, <3>3
    <2> QED
      BY <1>0, <1>3, <2>1, <2>2, Deciding
  <1> QED
    BY <1>2, <1>3

(* A revoked certificate is shut out although no macaroon is recalled: the *)
(* lookups of AttachIdentity and of the signed payloads see the revocation,*)
(* and everything else rests on the identity they attach.                  *)
THEOREM RevocationShutsOut == Spec => RevokedCertificateIsShutOut
  <1> DEFINE ShutOut(c) ==
        /\ IdentifiedAs(c)' \subseteq IdentifiedAs(c)
        /\ \A r \in Requests :
             Passed(r)' /\ ~Passed(r) => requests'[r].envelope.madeBy # c
        /\ IdentifiedAs(c) = {} =>
             /\ \A g \in grants' \ grants : g.cert # c
             /\ \A r \in Requests :
                  Admitted(r)' => requests'[r].grant.cert # c
  <1>1. ASSUME SessionInv, [Next]_vars, NEW c \in revoked
        PROVE  ShutOut(c)
    <2>1. c \in Certs
      BY <1>1 DEF SessionInv, SessionTypeOK
    <2> QED
      BY <1>1, <2>1, IdentitiesOnlyFade, RevokedKeyPassesNothing, NobodyActsAs
      DEF Passed, Admitted
  <1>2. SessionInv /\ [Next]_vars => [\A c \in revoked : ShutOut(c)]_vars
    BY <1>1
  <1> QED
    BY <1>2, SessionInvHolds, PTL DEF Spec, RevokedCertificateIsShutOut
=============================================================================
