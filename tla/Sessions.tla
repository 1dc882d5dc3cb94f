------------------------------ MODULE Sessions ------------------------------
(***************************************************************************)
(* Session macaroons: the root keys of internal/platform/storage           *)
(* (macaroon_root.go), the issuer and verifier of                          *)
(* internal/platform/auth/macaroon, the attach and require passes of       *)
(* internal/server/middleware, POST /v1/sessions (sessions.go) and the     *)
(* start of the serve process (cmd/spivot-server, loadOrMintMacaroonIssuer)*)
(* and the signed payloads of the handlers (integrity_verify.go and        *)
(* internal/platform/auth/integrity).                                      *)
(*                                                                         *)
(* Every request passes AttachIdentity and AttachSession, one Store call   *)
(* each, then the guard of its route, and a handler of signed payloads     *)
(* looks the signer's certificate up once more.  Certificates are revoked, *)
(* roots are rotated, time passes and the process restarts between these   *)
(* steps.                                                                  *)
(*                                                                         *)
(* A macaroon is the grant it was issued for plus the caveats its holders  *)
(* have appended: the HMAC chain lets anybody append and nobody remove.    *)
(* Enrollment mints a user and a client app for each certificate, so the   *)
(* certificate names both.                                                 *)
(***************************************************************************)
EXTENDS Integers, FiniteSets, Sequences

CONSTANTS
  Certs,           \* enrolled certificates, and the users and apps behind them
  Roots,           \* macaroon root ids
  Journeys,        \* journey ids
  JourneyActions,  \* the session actions that make sense for one journey only
  OtherActions,    \* the other session actions
  Requests,        \* slots for requests that are being served
  Hints,           \* the lifetimes that clients ask for
  DefaultLifetime, \* defaultSessionLifetime
  MaxLifetime,     \* maxSessionLifetime
  Attenuations,    \* the lists of caveats that holders append
  MaxGrants,       \* bound: how many sessions are granted
  MaxTime,         \* bound: the last reading of the clock
  MaxStarts,       \* bound: how often the server is started
  NoRoot,          \* marks a root id without a row
  NoIdentity,      \* no identity attached to the request
  NoJourney,       \* the journey of a session that names none
  NoGrant,         \* no Authorization header, or one that does not decode
  NoValue          \* the value of a caveat nobody understands; a malformed signature

Actions == JourneyActions \cup OtherActions

Caveat ==
  [kind : {"user", "client_app"}, value : Certs]
    \cup [kind : {"journey"}, value : Journeys]
    \cup [kind : {"action"}, value : Actions]
    \cup [kind : {"time"}, value : Nat]
    \cup [kind : {"unknown", "third_party"}, value : {NoValue}]

ASSUME SessionAssumptions ==
  /\ Hints \subseteq Int
  /\ DefaultLifetime \in Nat \ {0}
  /\ MaxLifetime \in Nat \ {0}
  /\ DefaultLifetime <= MaxLifetime
  /\ Attenuations \subseteq Seq(Caveat)
  /\ <<>> \in Attenuations
  /\ JourneyActions \cap OtherActions = {}
  /\ NoIdentity \notin Certs
  /\ NoJourney \notin Journeys
  /\ IsFiniteSet(Roots)
  /\ MaxTime \in Nat
  /\ MaxStarts \in Nat

VARIABLES
  clock,     \* the wall clock
  roots,     \* the rows of macaroon_roots
  server,    \* the serve process, with the root its Issuer holds
  starts,    \* how often it has been started
  revoked,   \* the certificates whose row has a revoked_at
  grants,    \* what sessions were granted, one macaroon each
  requests   \* the requests between two of their steps

vars == <<clock, roots, server, starts, revoked, grants, requests>>

RootRow == [created : Nat, rotated : BOOLEAN]

Server ==
  [stage : {"down", "starting", "minting"}]
    \cup [stage : {"serving"}, issuer : Roots]

Grant ==
  [root : Roots, cert : Certs, journey : Journeys \cup {NoJourney},
   action : Actions, at : Nat, expires : Nat]

ASSUME MarkerAssumptions ==
  /\ NoRoot \notin RootRow
  /\ NoGrant \notin Grant

Idle == [stage |-> "idle"]

(* cert is what the client presented, identity what it resolved to; failed *)
(* tells that a Store call of the request failed.                          *)
Carried ==
  [stage : {"identified", "attached"}, cert : Certs,
   identity : Certs \cup {NoIdentity}, grant : Grant \cup {NoGrant},
   extra : Attenuations, verified : BOOLEAN, failed : BOOLEAN]

Decided ==
  [stage : {"admitted", "refused"}, cert : Certs,
   identity : Certs \cup {NoIdentity}, grant : Grant \cup {NoGrant},
   extra : Attenuations, verified : BOOLEAN, failed : BOOLEAN,
   action : JourneyActions, journey : Journeys, at : Nat]

(* The user a payload claims, the app its envelope names, and the key the  *)
(* signature was made with over these very bytes.                          *)
Envelope == [claimed : Certs, keyId : Certs, madeBy : Certs \cup {NoValue}]

Verified ==
  [stage : {"signed", "unsigned"}, cert : Certs, identity : Certs,
   envelope : Envelope, failed : BOOLEAN]

SessionTypeOK ==
  /\ clock \in 0..MaxTime
  /\ roots \in [Roots -> RootRow \cup {NoRoot}]
  /\ server \in Server
  /\ starts \in 0..MaxStarts
  /\ revoked \subseteq Certs
  /\ grants \subseteq Grant
  /\ requests \in [Requests -> {Idle} \cup Carried \cup Decided \cup Verified]

Init ==
  /\ clock = 0
  /\ roots = [k \in Roots |-> NoRoot]
  /\ server = [stage |-> "down"]
  /\ starts = 0
  /\ revoked = {}
  /\ grants = {}
  /\ requests = [r \in Requests |-> Idle]

-----------------------------------------------------------------------------
(* The environment: the clock, and what operators do to the database.      *)

Tick ==
  /\ clock < MaxTime
  /\ clock' = clock + 1
  /\ UNCHANGED <<roots, server, starts, revoked, grants, requests>>

RevokeCertificate(c) ==
  /\ revoked' = revoked \cup {c}
  /\ UNCHANGED <<clock, roots, server, starts, grants, requests>>

OnFile == {k \in Roots : roots[k] # NoRoot}

ActiveRoots == {k \in OnFile : ~roots[k].rotated}

NewRoot == [created |-> Cardinality(OnFile), rotated |-> FALSE]

(* One transaction inserts the successor and sets rotated_time on the rest.*)
(* The Issuer of a running process is not told.                            *)
RotateMacaroonRoot(k) ==
  /\ ActiveRoots # {}
  /\ roots[k] = NoRoot
  /\ roots' = [j \in Roots |->
       IF j = k THEN NewRoot
       ELSE IF j \in OnFile THEN [roots[j] EXCEPT !.rotated = TRUE]
       ELSE NoRoot]
  /\ UNCHANGED <<clock, server, starts, revoked, grants, requests>>

-----------------------------------------------------------------------------
(* The serve process.                                                      *)

Start ==
  /\ server.stage = "down"
  /\ starts < MaxStarts
  /\ starts' = starts + 1
  /\ server' = [stage |-> "starting"]
  /\ UNCHANGED <<clock, roots, revoked, grants, requests>>

NoRootIsActive == {}

(* The newest unrotated row: a singleton, or empty.                        *)
ActiveMacaroonRoot ==
  {k \in ActiveRoots : \A j \in ActiveRoots : roots[j].created <= roots[k].created}

(* loadOrMintMacaroonIssuer: first Store call.                             *)
LoadMacaroonRoot ==
  /\ server.stage = "starting"
  /\ \/ \E k \in ActiveMacaroonRoot : server' = [stage |-> "serving", issuer |-> k]
     \/ ActiveMacaroonRoot = {} /\ server' = [stage |-> "minting"]
  /\ UNCHANGED <<clock, roots, starts, revoked, grants, requests>>

(* ErrNoActiveMacaroonRoot: second Store call.                             *)
IssueMacaroonRoot(k) ==
  /\ server.stage = "minting"
  /\ roots[k] = NoRoot
  /\ roots' = [roots EXCEPT ![k] = NewRoot]
  /\ server' = [stage |-> "serving", issuer |-> k]
  /\ UNCHANGED <<clock, starts, revoked, grants, requests>>

Crash ==
  /\ server.stage # "down"
  /\ server' = [stage |-> "down"]
  /\ requests' = [r \in Requests |-> Idle]
  /\ UNCHANGED <<clock, roots, starts, revoked, grants>>

-----------------------------------------------------------------------------
(* The attach passes, which never refuse.                                  *)

AnyIssuedCertificate(c) == TRUE

(* revoked_at IS NULL.                                                     *)
IdentityBySerial(c) == c \notin revoked

(* A failing lookup and a revoked serial leave the request without an      *)
(* identity.                                                               *)
AttachIdentity(r, c, g, extra, failed) ==
  /\ server.stage = "serving"
  /\ requests[r] = Idle
  /\ requests' = [requests EXCEPT ![r] =
       [stage |-> "identified", cert |-> c,
        identity |-> IF IdentityBySerial(c) /\ ~failed THEN c ELSE NoIdentity,
        grant |-> g, extra |-> extra, verified |-> FALSE, failed |-> failed]]
  /\ UNCHANGED <<clock, roots, server, starts, revoked, grants>>

OnlyActiveRootResolves(k) == k \in ActiveRoots

(* Rotated rows resolve too.                                               *)
MacaroonRootByID(k) == k \in OnFile

(* IssueSession: the canonical caveats of a grant.                         *)
SessionCaveats(g) ==
  <<[kind |-> "user", value |-> g.cert], [kind |-> "client_app", value |-> g.cert]>>
    \o (IF g.journey = NoJourney THEN <<>>
        ELSE <<[kind |-> "journey", value |-> g.journey]>>)
    \o <<[kind |-> "action", value |-> g.action],
         [kind |-> "time", value |-> g.expires]>>

Caveats(q) == SessionCaveats(q.grant) \o q.extra

(* VerifySignature: a known root, no caveat of another kind, a time<T.     *)
VerifySignature(q) ==
  /\ MacaroonRootByID(q.grant.root)
  /\ \A i \in DOMAIN Caveats(q) : Caveats(q)[i].kind \notin {"unknown", "third_party"}
  /\ \E i \in DOMAIN Caveats(q) : Caveats(q)[i].kind = "time"

AttachSession(r, failed) ==
  LET q == requests[r] IN
  /\ q.stage = "identified"
  /\ failed => q.grant # NoGrant
  /\ requests' = [requests EXCEPT
       ![r].stage = "attached",
       ![r].verified = q.grant # NoGrant /\ ~failed /\ VerifySignature(q),
       ![r].failed = @ \/ failed]
  /\ UNCHANGED <<clock, roots, server, starts, revoked, grants>>

-----------------------------------------------------------------------------
(* RequireSession: the constraints are the route's action, the journey of  *)
(* the path and the attached identity.                                     *)

EvaluateCaveat(cav, q, a, j) ==
  CASE cav.kind = "time" -> clock < cav.value
    [] cav.kind = "journey" -> j = cav.value
    [] cav.kind \in {"user", "client_app"} -> q.identity = cav.value
    [] cav.kind = "action" -> a = cav.value
    [] OTHER -> FALSE

FirstOfEachKind(q, a, j) ==
  \A i \in DOMAIN Caveats(q) :
    \/ EvaluateCaveat(Caveats(q)[i], q, a, j)
    \/ \E k \in DOMAIN Caveats(q) : k < i /\ Caveats(q)[k].kind = Caveats(q)[i].kind

(* Every caveat, appended ones too.                                        *)
CheckConstraints(q, a, j) ==
  \A i \in DOMAIN Caveats(q) : EvaluateCaveat(Caveats(q)[i], q, a, j)

RequireIdentity(q) == q.identity # NoIdentity

RequireSession(r, a, j) ==
  LET q == requests[r] IN
  /\ q.stage = "attached"
  /\ requests' = [requests EXCEPT ![r] =
       [stage |-> IF q.verified /\ CheckConstraints(q, a, j)
                    THEN "admitted" ELSE "refused",
        cert |-> q.cert, identity |-> q.identity, grant |-> q.grant,
        extra |-> q.extra, verified |-> q.verified, failed |-> q.failed,
        action |-> a, journey |-> j, at |-> clock]]
  /\ UNCHANGED <<clock, roots, server, starts, revoked, grants>>

-----------------------------------------------------------------------------
(* Signed payloads.                                                        *)

(* revoked_at IS NULL, once more.                                          *)
EnrolledCertByClientAppID(app) == app \notin revoked

AnySigner(env) == TRUE

(* The certificate found belongs to the user the payload claims.           *)
SignerIsClaimedUser(env) == env.keyId = env.claimed

(* A well-formed signature, made with the key of the certificate found.    *)
VerifyPayloadWithKey(env, key) == env.madeBy = key

(* Behind RequireSession, or behind RequireIdentity alone for garages: the *)
(* handler compares the claimed user with the caller, then looks the       *)
(* signer's certificate up and verifies with the key it found.             *)
VerifySignedPayload(r, env, failed) ==
  LET q == requests[r] IN
  /\ \/ q.stage = "admitted"
     \/ q.stage = "attached" /\ RequireIdentity(q)
  /\ failed => env.claimed = q.identity
  /\ requests' = [requests EXCEPT ![r] =
       [stage |-> IF /\ env.claimed = q.identity
                     /\ ~failed /\ EnrolledCertByClientAppID(env.keyId)
                     /\ SignerIsClaimedUser(env)
                     /\ VerifyPayloadWithKey(env, env.keyId)
                  THEN "signed" ELSE "unsigned",
        cert |-> q.cert, identity |-> q.identity, envelope |-> env,
        failed |-> failed]]
  /\ UNCHANGED <<clock, roots, server, starts, revoked, grants>>

Answer(r) ==
  /\ requests[r].stage \in {"admitted", "refused", "signed", "unsigned"}
  /\ requests' = [requests EXCEPT ![r] = Idle]
  /\ UNCHANGED <<clock, roots, server, starts, revoked, grants>>

-----------------------------------------------------------------------------
(* POST /v1/sessions, behind RequireIdentity.                              *)

NormalizeSessionLifetime(hint) ==
  IF hint <= 0 THEN DefaultLifetime
  ELSE IF hint >= MaxLifetime THEN MaxLifetime
  ELSE hint

AnyScope(a, j, expires) == expires > clock

(* SessionParams.validate.                                                 *)
ValidSessionParams(a, j, expires) ==
  /\ a \in JourneyActions => j # NoJourney
  /\ expires > clock

HandleSessionCreate(r, a, j, hint) ==
  LET q == requests[r]
      expires == clock + NormalizeSessionLifetime(hint)
  IN
  /\ q.stage = "attached"
  /\ RequireIdentity(q)
  /\ ValidSessionParams(a, j, expires)
  /\ Cardinality(grants) < MaxGrants
  /\ grants' = grants \cup
       {[root |-> server.issuer, cert |-> q.identity, journey |-> j, action |-> a,
         at |-> clock, expires |-> expires]}
  /\ requests' = [requests EXCEPT ![r] = Idle]
  /\ UNCHANGED <<clock, roots, server, starts, revoked>>

(* No identity, several actions, a journey action without a journey.       *)
RejectSession(r) ==
  /\ requests[r].stage = "attached"
  /\ requests' = [requests EXCEPT ![r] = Idle]
  /\ UNCHANGED <<clock, roots, server, starts, revoked, grants>>

-----------------------------------------------------------------------------

Next ==
  \/ Tick
  \/ \E c \in Certs : RevokeCertificate(c)
  \/ \E k \in Roots : RotateMacaroonRoot(k)
  \/ Start
  \/ LoadMacaroonRoot
  \/ \E k \in Roots : IssueMacaroonRoot(k)
  \/ Crash
  \/ \E r \in Requests :
       \/ \E c \in Certs, failed \in BOOLEAN :
            \/ AttachIdentity(r, c, NoGrant, <<>>, failed)
            \/ \E g \in grants, extra \in Attenuations :
                 AttachIdentity(r, c, g, extra, failed)
       \/ \E failed \in BOOLEAN : AttachSession(r, failed)
       \/ \E a \in JourneyActions, j \in Journeys : RequireSession(r, a, j)
       \/ \E env \in Envelope, failed \in BOOLEAN : VerifySignedPayload(r, env, failed)
       \/ Answer(r)
       \/ \E a \in Actions, j \in Journeys \cup {NoJourney}, hint \in Hints :
            HandleSessionCreate(r, a, j, hint)
       \/ RejectSession(r)

Spec == Init /\ [][Next]_vars

-----------------------------------------------------------------------------

Admitted(r) == requests[r].stage = "admitted"

(* A request reaches a journey's handler only within the grant its macaroon*)
(* goes back to: the client that was granted it, the same action, that very*)
(* journey (telemetry.go: "so we know the macaroon is for THIS journey"),  *)
(* before it expires, and never later than the maximum lifetime after it   *)
(* was granted.  No guard compares the journey of a session that has none: *)
(* it is issuance that must not hand one out.                              *)
AdmittedWithinGrant ==
  \A r \in Requests :
    Admitted(r) =>
      LET q == requests[r]
          g == q.grant
      IN /\ g.cert = q.cert
         /\ g.action = q.action
         /\ g.journey = q.journey
         /\ q.at < g.expires
         /\ q.at < g.at + MaxLifetime

(* What a holder appended binds every later bearer: an admitted request    *)
(* satisfies each appended caveat as well as the issued ones, also where   *)
(* two caveats of a kind disagree (session.go, RequireSession: "every      *)
(* caveat must be satisfied independently").                               *)
AttenuationBinds ==
  \A r \in Requests :
    Admitted(r) =>
      LET q == requests[r] IN
      \A i \in DOMAIN q.extra :
        LET cav == q.extra[i] IN
        \/ cav.kind = "time" /\ q.at < cav.value
        \/ cav.kind = "journey" /\ cav.value = q.journey
        \/ cav.kind = "action" /\ cav.value = q.action
        \/ cav.kind \in {"user", "client_app"} /\ cav.value = q.cert

(* A session is good until it expires: the unattenuated macaroon of the    *)
(* client it was granted to is refused only because a lookup failed, the   *)
(* certificate was revoked, the session expired, or it was granted for     *)
(* something else; never because the root was rotated or the server        *)
(* restarted (macaroon_root.go: rotated rows are retained).                *)
RefusalsHaveAReason ==
  \A r \in Requests :
    LET q == requests[r] IN
    (q.stage = "refused" /\ q.grant # NoGrant /\ q.extra = <<>>) =>
      \/ q.failed
      \/ q.cert \in revoked
      \/ q.cert # q.grant.cert
      \/ q.at >= q.grant.expires
      \/ q.action # q.grant.action
      \/ q.journey # q.grant.journey

(* At most one root is unrotated, whenever the process crashes between     *)
(* looking for one and minting one (loadOrMintMacaroonIssuer is "not       *)
(* transactional").                                                        *)
OneActiveRoot == Cardinality(ActiveRoots) <= 1

Passed(r) == requests[r].stage = "signed"

(* A payload is passed on to be recorded only if it was signed with the    *)
(* caller's own key and names the caller; and one that was is turned away  *)
(* only if the lookup failed or the certificate was revoked meanwhile      *)
(* (integrity_verify.go: "the cert that signed this payload belongs to that*)
(* user").                                                                 *)
SignedPayloadsAreGenuine ==
  \A r \in Requests :
    LET q == requests[r]
        own == [claimed |-> q.cert, keyId |-> q.cert, madeBy |-> q.cert]
    IN /\ Passed(r) => q.envelope = own
       /\ (q.stage = "unsigned" /\ q.envelope = own) => q.failed \/ q.cert \in revoked

(* The requests that carry the identity of a certificate.                  *)
IdentifiedAs(c) ==
  {r \in Requests : requests[r] # Idle /\ requests[r].identity = c}

(* A revoked certificate ends its sessions although no macaroon is recalled*)
(* (middleware/doc.go: a revoked cert "effectively becomes no Identity"):  *)
(* no further request gets its identity, once those that had it are done   *)
(* nothing is admitted or granted to it, and what it signs no longer       *)
(* passes, not even in a request that was admitted before.                 *)
RevokedCertificateIsShutOut ==
  [][\A c \in revoked :
       /\ IdentifiedAs(c)' \subseteq IdentifiedAs(c)
       /\ \A r \in Requests :
            Passed(r)' /\ ~Passed(r) => requests'[r].envelope.madeBy # c
       /\ IdentifiedAs(c) = {} =>
            /\ \A g \in grants' \ grants : g.cert # c
            /\ \A r \in Requests :
                 Admitted(r)' => requests'[r].grant.cert # c]_vars

-----------------------------------------------------------------------------
(* What makes the invariants above inductive.                              *)

(* A process mints a root only while none is active, and the root of its   *)
(* Issuer stays on file.                                                   *)
RootsInv ==
  /\ \A j, k \in ActiveRoots : j = k
  /\ server.stage = "minting" => ActiveRoots = {}
  /\ server.stage = "serving" => server.issuer \in OnFile

(* Requests do not outlive the process that serves them.                   *)
RequestsNeedServer ==
  server.stage # "serving" => \A r \in Requests : requests[r] = Idle

GrantsAreSound ==
  \A g \in grants :
    /\ g.root \in OnFile
    /\ g.action \in JourneyActions => g.journey # NoJourney
    /\ g.expires <= g.at + MaxLifetime

(* The identity of a request is the certificate it came with, or none, and *)
(* none only for a reason.                                                 *)
IdentityIsPresented ==
  \A r \in Requests :
    LET q == requests[r] IN
    /\ q # Idle => q.identity \in {q.cert, NoIdentity}
    /\ q.stage \in {"admitted", "signed", "unsigned"} => q.identity = q.cert
    /\ q.stage \in {"identified", "attached"} =>
         q.failed \/ q.cert \in revoked \/ q.identity = q.cert

(* A macaroon is one that was granted, and verifies unless a lookup failed *)
(* or a holder appended to it.                                             *)
MacaroonsAreGranted ==
  \A r \in Requests :
    LET q == requests[r] IN
    /\ q.stage \in {"identified", "attached", "admitted", "refused"} =>
         q.grant \in grants \cup {NoGrant}
    /\ q.stage = "attached" =>
         /\ q.verified => q.grant # NoGrant
         /\ q.grant # NoGrant /\ q.extra = <<>> => q.failed \/ q.verified

SessionInv ==
  /\ SessionTypeOK
  /\ RootsInv
  /\ RequestsNeedServer
  /\ GrantsAreSound
  /\ IdentityIsPresented
  /\ MacaroonsAreGranted
  /\ AdmittedWithinGrant
  /\ AttenuationBinds
  /\ RefusalsHaveAReason
  /\ SignedPayloadsAreGenuine
=============================================================================
