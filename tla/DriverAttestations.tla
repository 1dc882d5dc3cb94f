------------------------- MODULE DriverAttestations -------------------------
(***************************************************************************)
(* Driver attestations: driver_attestation.go of internal/platform/storage *)
(* behind driver_attestations.go and driver_attestation_trust.go of        *)
(* internal/server/api, over the vehicles and ACLs of JourneyVehicles.     *)
(*                                                                         *)
(* A driver signs an attestation on a device, perhaps offline, and it is   *)
(* delivered later and more than once.  Recording one takes up to seven    *)
(* Store calls; owners publish ACLs, participants come and go and the same *)
(* attestation arrives again between any two of them.                      *)
(*                                                                         *)
(* acl_version_consulted is the client's own number, stored and compared   *)
(* with nothing, and left out.  In its place deliveries and rows carry a   *)
(* history field inForce: the version of the ACL that was in force for the *)
(* attested time when the driver signed, 0 when there was none.  Only      *)
(* properties read it.                                                     *)
(***************************************************************************)
EXTENDS JourneyVehicles

CONSTANTS
  Deliveries,   \* slots for attestations that are under way or being served
  Readers,      \* slots for current-driver reads
  HandoffTimes, \* the effective times that drivers attest to
  Priors,       \* digests that a prior_attestation_hash can name
  NoPrior       \* the NULL prior_attestation_hash

ASSUME AttestationAssumptions ==
  /\ HandoffTimes \subseteq Times
  /\ NoPrior \notin Priors

VARIABLES
  attestations,  \* the rows of driver_attestations, by vehicle
  deliveries,    \* attestations between two steps
  readers,       \* current-driver reads between their two Store calls
  reported       \* <<k, siblings>>: the siblings answered for replay key k

attestationVars == <<attestations, deliveries, readers, reported>>

allVars == <<vars, attestationVars>>

Trusts == {"authorized", "emergency_fallback", "acl_violation"}

Attestation ==
  [driver : Users, effective : Times, inForce : 0..MaxACL,
   prior : Priors \cup {NoPrior}, trust : Trusts]

Stages ==
  {"signed", "loaded", "new", "fallback", "classified", "collided", "recorded"}

Delivery ==
  [stage : Stages, vehicle : Vehicles, driver : Users, effective : Times,
   inForce : 0..MaxACL, prior : Priors \cup {NoPrior},
   trust : Trusts \cup {"none"}]

(* The UNIQUE replay key, within a vehicle.                                *)
ReplayKey(a) == <<a.driver, a.effective>>

ReplayKeys == Users \X Times

(* A read that has found the current driver's attestation.                 *)
CurrentDriverRead == [vehicle : Vehicles, row : Attestation]

AttestationTypeOK ==
  /\ TypeOK
  /\ attestations \in [Vehicles -> SUBSET Attestation]
  /\ deliveries \in [Deliveries -> {Idle} \cup Delivery]
  /\ readers \in [Readers -> {Idle} \cup CurrentDriverRead]
  /\ reported \in [Vehicles -> SUBSET (ReplayKeys \X SUBSET ReplayKeys)]

AttestationInit ==
  /\ Init
  /\ attestations = [v \in Vehicles |-> {}]
  /\ deliveries = [d \in Deliveries |-> Idle]
  /\ readers = [r \in Readers |-> Idle]
  /\ reported = [v \in Vehicles |-> {}]

(* A delivery that waits at a stage, and what it moves on to.              *)
InStage(d, stage) == deliveries[d] # Idle /\ deliveries[d].stage = stage

MoveOn(d, q) == deliveries' = [deliveries EXCEPT ![d] = q]

-----------------------------------------------------------------------------
(* The ACL at a time.                                                      *)

OldestACL(v, t) ==
  LET past == {acl \in acls[v] : acl.effective <= t} IN
  {acl \in past : \A other \in past : acl.version <= other.version}

(* JourneyVehicleACLAt: of the ACLs effective by then, the highest version.*)
(* A singleton, or empty when no ACL is that old.                          *)
ACLAt(v, t) ==
  LET past == {acl \in acls[v] : acl.effective <= t} IN
  {acl \in past : \A other \in past : other.version <= acl.version}

-----------------------------------------------------------------------------

(* n is the newest version that is effective by time t, or 0.              *)
InForce(v, t, n) ==
  /\ \A acl \in acls[v] : acl.effective <= t => acl.version <= n
  /\ n # 0 => \E acl \in acls[v] : acl.version = n /\ acl.effective <= t

(* The driver's device signs for a vehicle it knows of.                    *)
SignAttestation(d, u, v, t, p) ==
  /\ deliveries[d] = Idle
  /\ vehicles[v] # NoVehicle
  /\ \E n \in 0..MaxACL :
       /\ InForce(v, t, n)
       /\ MoveOn(d, [stage |-> "signed", vehicle |-> v, driver |-> u,
                     effective |-> t, inForce |-> n, prior |-> p,
                     trust |-> "none"])
  /\ UNCHANGED <<vars, attestations, readers, reported>>

(* JourneyVehicleByID; driver and path are compared with the session.      *)
DeliverAttestation(d) ==
  /\ InStage(d, "signed")
  /\ vehicles[deliveries[d].vehicle] # NoVehicle
  /\ MoveOn(d, [deliveries[d] EXCEPT !.stage = "loaded"])
  /\ UNCHANGED <<vars, attestations, readers, reported>>

(* The row a delivery replays, if it is on file.                           *)
Existing(q) ==
  {a \in attestations[q.vehicle] : ReplayKey(a) = ReplayKey(q)}

EchoRequest(q, a) == [q EXCEPT !.stage = "recorded"]

(* The answer will be made of the stored row.                              *)
AnswerWith(q, a) ==
  [q EXCEPT !.stage = "recorded", !.prior = a.prior, !.trust = a.trust,
            !.inForce = a.inForce]

ReplayHit(d) ==
  /\ InStage(d, "loaded")
  /\ \E a \in Existing(deliveries[d]) : MoveOn(d, AnswerWith(deliveries[d], a))
  /\ UNCHANGED <<vars, attestations, readers, reported>>

ReplayMiss(d) ==
  /\ InStage(d, "loaded")
  /\ Existing(deliveries[d]) = {}
  /\ MoveOn(d, [deliveries[d] EXCEPT !.stage = "new"])
  /\ UNCHANGED <<vars, attestations, readers, reported>>

(* The owner is authorized whether listed or not.                          *)
IsAuthorized(q, acl) ==
  q.driver = vehicles[q.vehicle].owner \/ q.driver \in acl.drivers

(* classify, first Store call.                                             *)
ResolveACL(d) ==
  LET q == deliveries[d] IN
  /\ InStage(d, "new")
  /\ \E acl \in ACLAt(q.vehicle, q.effective) :
       MoveOn(d,
         IF IsAuthorized(q, acl)
           THEN [q EXCEPT !.stage = "classified", !.trust = "authorized"]
         ELSE IF acl.emergency
           THEN [q EXCEPT !.stage = "fallback"]
         ELSE [q EXCEPT !.stage = "classified", !.trust = "acl_violation"])
  /\ UNCHANGED <<vars, attestations, readers, reported>>

FallbackTrust(q) ==
  IF q.driver \in joined[vehicles[q.vehicle].journey]
    THEN "emergency_fallback" ELSE "acl_violation"

(* classify, second Store call: is the driver a joined participant.        *)
CheckFallback(d) ==
  LET q == deliveries[d] IN
  /\ InStage(d, "fallback")
  /\ MoveOn(d, [q EXCEPT !.stage = "classified", !.trust = FallbackTrust(q)])
  /\ UNCHANGED <<vars, attestations, readers, reported>>

Row(q) ==
  [driver |-> q.driver, effective |-> q.effective, inForce |-> q.inForce,
   prior |-> q.prior, trust |-> q.trust]

RecordOverwrites(d) ==
  LET q == deliveries[d] IN
  /\ InStage(d, "classified")
  /\ attestations' = [attestations EXCEPT
       ![q.vehicle] = (@ \ Existing(q)) \cup {Row(q)}]
  /\ MoveOn(d, [q EXCEPT !.stage = "recorded"])
  /\ UNCHANGED <<vars, readers, reported>>

(* The INSERT, when the replay key is free.                                *)
RecordDriverAttestation(d) ==
  LET q == deliveries[d] IN
  /\ InStage(d, "classified")
  /\ Existing(q) = {}
  /\ attestations' = [attestations EXCEPT ![q.vehicle] = @ \cup {Row(q)}]
  /\ MoveOn(d, [q EXCEPT !.stage = "recorded"])
  /\ UNCHANGED <<vars, readers, reported>>

(* ErrDriverAttestationDuplicate: another delivery won the race.           *)
RecordCollides(d) ==
  /\ InStage(d, "classified")
  /\ Existing(deliveries[d]) # {}
  /\ MoveOn(d, [deliveries[d] EXCEPT !.stage = "collided"])
  /\ UNCHANGED <<vars, attestations, readers, reported>>

FetchWinner(d) ==
  /\ InStage(d, "collided")
  /\ \E a \in Existing(deliveries[d]) : MoveOn(d, AnswerWith(deliveries[d], a))
  /\ UNCHANGED <<vars, attestations, readers, reported>>

OwnSiblings(v, q) ==
  {a \in attestations[v] : a.prior = q.prior /\ a.driver = q.driver}

(* DriverAttestationForkSiblings, the answered row among them.             *)
ForkSiblings(v, q) == {a \in attestations[v] : a.prior = q.prior}

(* The last Store call, and the answer; a first attestation has none.      *)
AnswerAttestation(d) ==
  LET q == deliveries[d]
      siblings == {ReplayKey(a) : a \in ForkSiblings(q.vehicle, q)}
  IN
  /\ InStage(d, "recorded")
  /\ reported' = IF q.prior = NoPrior THEN reported
                 ELSE [reported EXCEPT
                        ![q.vehicle] = @ \cup {<<ReplayKey(q), siblings>>}]
  /\ MoveOn(d, Idle)
  /\ UNCHANGED <<vars, attestations, readers>>

(* Lost on the way, refused (no vehicle, not the driver, no ACL that old,  *)
(* a bad signature), a failing database, or a failing sibling lookup.      *)
DropDelivery(d) ==
  /\ deliveries[d] # Idle
  /\ MoveOn(d, Idle)
  /\ UNCHANGED <<vars, attestations, readers, reported>>

-----------------------------------------------------------------------------
(* GET current-driver, two Store calls.                                    *)

(* CurrentDriverForJourneyVehicle: of the rows effective by then, those    *)
(* with the latest time.  Between rows of one time received_at decides,    *)
(* which each recorder reads before it waits for the database: any of them.*)
CurrentDriver(v, t) ==
  LET past == {a \in attestations[v] : a.effective <= t} IN
  {a \in past : \A other \in past : other.effective <= a.effective}

ReadCurrentDriver(r, v, t) ==
  /\ readers[r] = Idle
  /\ vehicles[v] # NoVehicle
  /\ \E a \in CurrentDriver(v, t) :
       readers' = [readers EXCEPT ![r] = [vehicle |-> v, row |-> a]]
  /\ UNCHANGED <<vars, attestations, deliveries, reported>>

(* The other claims on the same predecessor, and the answer.               *)
AnswerCurrentDriver(r) ==
  LET v == readers[r].vehicle
      a == readers[r].row
      others == {ReplayKey(b) : b \in ForkSiblings(v, a) \ {a}}
  IN
  /\ readers[r] # Idle
  /\ reported' = IF a.prior = NoPrior THEN reported
                 ELSE [reported EXCEPT ![v] = @ \cup {<<ReplayKey(a), others>>}]
  /\ readers' = [readers EXCEPT ![r] = Idle]
  /\ UNCHANGED <<vars, attestations, deliveries>>

AttestationNext ==
  \/ JourneyNext /\ UNCHANGED attestationVars
  \/ \E d \in Deliveries, u \in Users, v \in Vehicles, t \in HandoffTimes,
        p \in Priors \cup {NoPrior} : SignAttestation(d, u, v, t, p)
  \/ \E d \in Deliveries : DeliverAttestation(d)
  \/ \E d \in Deliveries : ReplayHit(d)
  \/ \E d \in Deliveries : ReplayMiss(d)
  \/ \E d \in Deliveries : ResolveACL(d)
  \/ \E d \in Deliveries : CheckFallback(d)
  \/ \E d \in Deliveries : RecordDriverAttestation(d)
  \/ \E d \in Deliveries : RecordCollides(d)
  \/ \E d \in Deliveries : FetchWinner(d)
  \/ \E d \in Deliveries : AnswerAttestation(d)
  \/ \E d \in Deliveries : DropDelivery(d)
  \/ \E r \in Readers, v \in Vehicles, t \in Times : ReadCurrentDriver(r, v, t)
  \/ \E r \in Readers : AnswerCurrentDriver(r)

AttestationSpec == AttestationInit /\ [][AttestationNext]_allVars

-----------------------------------------------------------------------------

(* A recorded attestation is final: no replay, racing delivery or later ACL*)
(* drops it or changes its trust_flag (docs/vehicles.md, "The server never *)
(* deletes a signed payload on trust failure").                            *)
RecordedIsFinal ==
  [][\A v \in Vehicles : attestations[v] \subseteq attestations'[v]]_allVars

JustifiedBy(v, a, acl) ==
  LET listed == a.driver = vehicles[v].owner \/ a.driver \in acl.drivers IN
  /\ acl.version >= a.inForce
  /\ acl.effective <= a.effective
  /\ a.trust = "authorized" <=> listed
  /\ a.trust = "emergency_fallback" => acl.emergency

(* The stored trust_flag follows from an ACL that was in force for the     *)
(* attested time at some moment since the driver signed: the one in force  *)
(* then, or one published after it, and never one that it had replaced,    *)
(* although the flag is computed in other Store calls than the row is      *)
(* written and ACLs with other effective times come in between             *)
(* (driver_attestation_trust.go, classify).                                *)
TrustIsJustified ==
  \A v \in Vehicles : \A a \in attestations[v] :
    \E acl \in acls[v] : JustifiedBy(v, a, acl)

(* However often and however concurrently the same attestation is          *)
(* delivered, a delivery that lost the race, and one that is about to      *)
(* answer, find exactly one row, and the answer is that row                *)
(* (driver_attestations.go: the replay check is "best-effort, not a lock").*)
AnswersComeFromStore ==
  \A d \in Deliveries :
    InStage(d, "collided") \/ InStage(d, "recorded") =>
      LET q == deliveries[d] IN
      /\ Cardinality(Existing(q)) = 1
      /\ InStage(d, "recorded") => Existing(q) = {Row(q)}

(* A fork never goes unnoticed: of two drivers who claim the same          *)
(* predecessor, once anybody has been given an answer about each, recording*)
(* it or asking who drives, at least one of the answers names the other    *)
(* claim (driver_attestations.go, the fork siblings of both answers, unless*)
(* the lookup fails, which the handlers log and leave out).                *)
ForksAreNoticed ==
  \A v \in Vehicles : \A a, b \in attestations[v] :
    a # b /\ a.prior = b.prior /\ a.prior # NoPrior =>
      \A x, y \in reported[v] :
        x[1] = ReplayKey(a) /\ y[1] = ReplayKey(b) =>
          ReplayKey(b) \in x[2] \/ ReplayKey(a) \in y[2]

-----------------------------------------------------------------------------
(* What makes these inductive.                                             *)

(* The UNIQUE replay key.                                                  *)
OneRowPerKey ==
  \A v \in Vehicles : \A a, b \in attestations[v] :
    ReplayKey(a) = ReplayKey(b) => a = b

(* The ACL that was in force when the driver signed is on file.            *)
SignedUnderACL(q) ==
  q.inForce # 0 =>
    \E acl \in acls[q.vehicle] :
      acl.version = q.inForce /\ acl.effective <= q.effective

(* What the Store calls behind a delivery have established.                *)
DeliveryRests(q) ==
  /\ vehicles[q.vehicle] # NoVehicle
  /\ q.stage \in {"signed", "loaded", "new"} => SignedUnderACL(q)
  /\ q.stage = "fallback" =>
       \E acl \in acls[q.vehicle] :
         /\ acl.version >= q.inForce
         /\ acl.effective <= q.effective
         /\ acl.emergency
         /\ ~IsAuthorized(q, acl)
  /\ q.stage = "classified" =>
       /\ q.trust \in Trusts
       /\ \E acl \in acls[q.vehicle] : JustifiedBy(q.vehicle, q, acl)
  /\ q.stage = "collided" => Existing(q) # {}
  /\ q.stage = "recorded" => Row(q) \in attestations[q.vehicle]

DeliveriesRest ==
  \A d \in Deliveries : deliveries[d] # Idle => DeliveryRests(deliveries[d])

ReadsAreOnFile ==
  \A r \in Readers :
    readers[r] # Idle => readers[r].row \in attestations[readers[r].vehicle]

(* Nothing is reported of an attestation that is not on file.              *)
ReportsAreOnFile ==
  \A v \in Vehicles : \A x \in reported[v] :
    \E a \in attestations[v] : ReplayKey(a) = x[1]

AttestationInv ==
  /\ JourneyInv
  /\ AttestationTypeOK
  /\ OneRowPerKey
  /\ DeliveriesRest
  /\ ReadsAreOnFile
  /\ ReportsAreOnFile
  /\ TrustIsJustified
  /\ ForksAreNoticed

-----------------------------------------------------------------------------
(* What the documentation says, and the program does not do.               *)

(* docs/vehicles.md: "a driver who was authorized at attestation time stays*)
(* authorized when their attestation finally syncs".                       *)
LateSyncStaysAuthorized ==
  \A v \in Vehicles : \A a \in attestations[v] :
    (\E acl \in acls[v] : acl.version = a.inForce /\ a.driver \in acl.drivers)
      => a.trust = "authorized"
=============================================================================
