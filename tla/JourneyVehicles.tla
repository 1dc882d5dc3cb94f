-------------------------- MODULE JourneyVehicles --------------------------
(***************************************************************************)
(* Journeys and the vehicles uploaded to them: journey.go and              *)
(* journey_vehicle.go of internal/platform/storage behind journeys.go and  *)
(* journey_vehicles.go of internal/server/api.                             *)
(*                                                                         *)
(* A vehicle carries two independent histories of signed revisions, its    *)
(* metadata and its ACL.  Publishing to either is three Store calls: load  *)
(* the vehicle and compare its owner with the caller, look the owner up    *)
(* among the joined participants, append.  Requests interleave between     *)
(* them, and people leave and rejoin the journey.                          *)
(*                                                                         *)
(* Of an ACL the model keeps version, effective_time, drivers, emergency   *)
(* rule and owner_user_id; of a metadata bundle version and owner_user_id. *)
(* Times are the whole numbers 1..MaxTime, chosen by the clients: nothing  *)
(* in the code compares them with a clock.                                 *)
(***************************************************************************)
EXTENDS Naturals, FiniteSets

CONSTANTS
  Users,          \* enrolled accounts
  Journeys,       \* journey ids
  Vehicles,       \* vehicle ids, chosen by the clients
  Requests,       \* slots for requests that are being served
  MaxRevision,    \* bound: the largest metadata revision_version
  MaxACL,         \* bound: the largest acl_version
  MaxTime,        \* bound: the largest effective_time
  DriverLists,    \* the authorized_drivers lists that owners publish
  EmergencyRules, \* whether their emergency rule is any_journey_participant
  NoVehicle       \* marks a vehicle id without a row

ASSUME JourneyAssumptions ==
  /\ MaxRevision \in Nat \ {0}
  /\ MaxACL \in Nat \ {0}
  /\ MaxTime \in Nat \ {0}
  /\ DriverLists \subseteq SUBSET Users
  /\ EmergencyRules \subseteq BOOLEAN

VARIABLES
  journeys,   \* the journeys that exist
  joined,     \* the participants of each journey whose state is 'joined'
  vehicles,   \* the rows of journey_vehicles
  revisions,  \* journey_vehicle_revisions
  acls,       \* journey_vehicle_acl_revisions
  requests    \* the requests between two of their Store calls

vars == <<journeys, joined, vehicles, revisions, acls, requests>>

Times == 1..MaxTime

VehicleRow ==
  [journey : Journeys, owner : Users, revision : 1..MaxRevision, acl : 1..MaxACL]

ASSUME NoVehicleAssumption == NoVehicle \notin VehicleRow

MetadataRevision == [version : 1..MaxRevision, owner : Users]

ACL ==
  [version : 1..MaxACL, effective : Times, drivers : DriverLists,
   emergency : EmergencyRules, owner : Users]

Idle == [op |-> "idle"]

PublishOps == {"revision", "acl"}

PublishRequest ==
  [op : PublishOps, authorized : BOOLEAN, user : Users, vehicle : Vehicles]

JourneyTypeOK ==
  /\ journeys \subseteq Journeys
  /\ joined \in [Journeys -> SUBSET Users]
  /\ vehicles \in [Vehicles -> VehicleRow \cup {NoVehicle}]
  /\ revisions \in [Vehicles -> SUBSET MetadataRevision]
  /\ acls \in [Vehicles -> SUBSET ACL]

TypeOK ==
  /\ JourneyTypeOK
  /\ requests \in [Requests -> {Idle} \cup PublishRequest]

Init ==
  /\ journeys = {}
  /\ joined = [j \in Journeys |-> {}]
  /\ vehicles = [v \in Vehicles |-> NoVehicle]
  /\ revisions = [v \in Vehicles |-> {}]
  /\ acls = [v \in Vehicles |-> {}]
  /\ requests = [r \in Requests |-> Idle]

-----------------------------------------------------------------------------

(* The journey and its host participant are one transaction.               *)
CreateJourney(u, j) ==
  /\ j \notin journeys
  /\ journeys' = journeys \cup {j}
  /\ joined' = [joined EXCEPT ![j] = {u}]
  /\ UNCHANGED <<vehicles, revisions, acls, requests>>

(* Participants join, leave and rejoin; the code that will do it is not in *)
(* the repository, which only reads the state it leaves.                   *)
SetParticipantState(u, j) ==
  /\ j \in journeys
  /\ joined' = [joined EXCEPT ![j] = IF u \in @ THEN @ \ {u} ELSE @ \cup {u}]
  /\ UNCHANGED <<journeys, vehicles, revisions, acls, requests>>

(* UNIQUE (journey_id, owner_user_id).                                     *)
OwnerHasNoVehicle(j, u) ==
  \A v \in Vehicles :
    vehicles[v] # NoVehicle => <<vehicles[v].journey, vehicles[v].owner>> # <<j, u>>

HeadStartsAtZero(u, j) == [journey |-> j, owner |-> u, revision |-> 0, acl |-> 1]

NewVehicle(u, j) == [journey |-> j, owner |-> u, revision |-> 1, acl |-> 1]

(* The payloads the upload handler lets through: both of version 1, both   *)
(* naming and signed by the uploader as owner.                             *)
GenesisPayloads(u, acl) ==
  /\ acl.version = 1
  /\ acl.owner = u

(* The head row, revision 1 and ACL 1 are one transaction.  Participation  *)
(* is not asked for.                                                       *)
CreateJourneyVehicle(u, j, v, acl) ==
  /\ j \in journeys
  /\ GenesisPayloads(u, acl)
  /\ vehicles[v] = NoVehicle
  /\ OwnerHasNoVehicle(j, u)
  /\ vehicles' = [vehicles EXCEPT ![v] = NewVehicle(u, j)]
  /\ revisions' = [revisions EXCEPT ![v] = {[version |-> 1, owner |-> u]}]
  /\ acls' = [acls EXCEPT ![v] = {acl}]
  /\ UNCHANGED <<journeys, joined, requests>>

-----------------------------------------------------------------------------
(* Publishing a revision or an ACL.                                        *)

AnyoneMayPublish(u, v) == vehicles[v] # NoVehicle

(* authorizeJourneyVehicleOwner, first Store call: JourneyVehicleByID and  *)
(* the comparison of its owner with the session's user.                    *)
OwnsVehicle(u, v) ==
  /\ vehicles[v] # NoVehicle
  /\ vehicles[v].owner = u

LoadVehicle(r, op, u, v) ==
  /\ requests[r] = Idle
  /\ OwnsVehicle(u, v)
  /\ requests' = [requests EXCEPT
       ![r] = [op |-> op, authorized |-> FALSE, user |-> u, vehicle |-> v]]
  /\ UNCHANGED <<journeys, joined, vehicles, revisions, acls>>

NeverFrozen(v) == TRUE

(* Second Store call, the owner-departure freeze.                          *)
OwnerIsJoined(v) == vehicles[v].owner \in joined[vehicles[v].journey]

CheckParticipant(r) ==
  /\ requests[r].op \in PublishOps
  /\ ~requests[r].authorized
  /\ OwnerIsJoined(requests[r].vehicle)
  /\ requests' = [requests EXCEPT ![r].authorized = TRUE]
  /\ UNCHANGED <<journeys, joined, vehicles, revisions, acls>>

(* The owner has left, the payload is malformed, not the path's or not     *)
(* signed by the owner, the version is stale, the database fails.          *)
RejectPublish(r) ==
  /\ requests[r].op \in PublishOps
  /\ requests' = [requests EXCEPT ![r] = Idle]
  /\ UNCHANGED <<journeys, joined, vehicles, revisions, acls>>

(* The SELECT, the UNIQUE key and the conditional UPDATE, one transaction. *)
AdvancesRevision(v, n) ==
  /\ n > vehicles[v].revision
  /\ \A rev \in revisions[v] : rev.version # n

(* The bundle the handler lets through names the session's user as owner.  *)
SignedRevision(q, n) == [version |-> n, owner |-> q.user]

AppendJourneyVehicleRevision(r, n) ==
  LET q == requests[r] IN
  /\ q.op = "revision"
  /\ q.authorized
  /\ AdvancesRevision(q.vehicle, n)
  /\ revisions' = [revisions EXCEPT
       ![q.vehicle] = @ \cup {SignedRevision(q, n)}]
  /\ vehicles' = [vehicles EXCEPT ![q.vehicle].revision = n]
  /\ requests' = [requests EXCEPT ![r] = Idle]
  /\ UNCHANGED <<journeys, joined, acls>>

ACLIsFresh(v, n) == \A acl \in acls[v] : acl.version # n

AdvancesACL(v, n) ==
  /\ n > vehicles[v].acl
  /\ \A acl \in acls[v] : acl.version # n

(* The ACL the handler lets through names the session's user as owner.     *)
ACLIsOwners(q, acl) == acl.owner = q.user

(* Any effective_time is taken, also one before that of an earlier ACL.    *)
AppendJourneyVehicleACL(r, acl) ==
  LET q == requests[r] IN
  /\ q.op = "acl"
  /\ q.authorized
  /\ ACLIsOwners(q, acl)
  /\ AdvancesACL(q.vehicle, acl.version)
  /\ acls' = [acls EXCEPT ![q.vehicle] = @ \cup {acl}]
  /\ vehicles' = [vehicles EXCEPT ![q.vehicle].acl = acl.version]
  /\ requests' = [requests EXCEPT ![r] = Idle]
  /\ UNCHANGED <<journeys, joined, revisions>>

JourneyNext ==
  \/ \E u \in Users, j \in Journeys : CreateJourney(u, j)
  \/ \E u \in Users, j \in Journeys : SetParticipantState(u, j)
  \/ \E u \in Users, j \in Journeys, v \in Vehicles, acl \in ACL :
       CreateJourneyVehicle(u, j, v, acl)
  \/ \E r \in Requests, op \in PublishOps, u \in Users, v \in Vehicles :
       LoadVehicle(r, op, u, v)
  \/ \E r \in Requests : CheckParticipant(r)
  \/ \E r \in Requests : RejectPublish(r)
  \/ \E r \in Requests, n \in 1..MaxRevision : AppendJourneyVehicleRevision(r, n)
  \/ \E r \in Requests, acl \in ACL : AppendJourneyVehicleACL(r, acl)

JourneySpec == Init /\ [][JourneyNext]_vars

-----------------------------------------------------------------------------

(* Everything in a vehicle's two histories names the owner of its row,     *)
(* although the owner is compared two Store calls before the append        *)
(* (journey_vehicles.go, authorizeJourneyVehicleOwner).                    *)
OnlyOwnerPublishes ==
  \A v \in Vehicles :
    \A rev \in revisions[v] \cup acls[v] :
      vehicles[v] # NoVehicle /\ rev.owner = vehicles[v].owner

(* What makes it inductive: the owner that LoadVehicle compared with the   *)
(* caller is still the owner when the request publishes.                   *)
RequestsOwnVehicle ==
  \A r \in Requests :
    requests[r].op \in PublishOps => OwnsVehicle(requests[r].user, requests[r].vehicle)

JourneyInv ==
  /\ TypeOK
  /\ RequestsOwnVehicle
  /\ OnlyOwnerPublishes

PassedCheck(v) ==
  {r \in Requests : /\ requests[r].op \in PublishOps
                    /\ requests[r].vehicle = v
                    /\ requests[r].authorized}

(* The owner-departure freeze (docs/vehicles.md): once the owner has left, *)
(* no further request for the vehicle passes the participant check, and    *)
(* every publication uses up one that had passed it before, so no more is  *)
(* published than was already on its way (journey_vehicles.go,             *)
(* authorizeJourneyVehicleOwner, does not check again at the append).      *)
DepartedOwnersVehicleIsFrozen ==
  [][\A v \in Vehicles :
       /\ vehicles[v] # NoVehicle
       /\ vehicles[v].owner \notin joined[vehicles[v].journey]
       => /\ PassedCheck(v)' \subseteq PassedCheck(v)
          /\ <<revisions[v], acls[v]>>' # <<revisions[v], acls[v]>> =>
               PassedCheck(v)' # PassedCheck(v)]_vars

MetadataChain ==
  INSTANCE RevisionChain
    WITH Chains <- Vehicles,
         MaxVersion <- MaxRevision,
         head <- [v \in Vehicles |->
                   IF vehicles[v] = NoVehicle THEN 0 ELSE vehicles[v].revision],
         recorded <- [v \in Vehicles |-> {rev.version : rev \in revisions[v]}]

ACLChain ==
  INSTANCE RevisionChain
    WITH Chains <- Vehicles,
         MaxVersion <- MaxACL,
         head <- [v \in Vehicles |->
                   IF vehicles[v] = NoVehicle THEN 0 ELSE vehicles[v].acl],
         recorded <- [v \in Vehicles |-> {acl.version : acl \in acls[v]}]

(* Each of a vehicle's two histories implements the abstract chain of      *)
(* signed revisions, whatever is published to the other one                *)
(* (journey_vehicle.go, AppendJourneyVehicleRevision and                   *)
(* AppendJourneyVehicleACL).                                               *)
HistoriesFormChains == MetadataChain!Spec /\ ACLChain!Spec
=============================================================================
