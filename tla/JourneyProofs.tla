--------------------------- MODULE JourneyProofs ---------------------------
(***************************************************************************)
(* Proofs about JourneyVehicles, for every set of users, journeys,         *)
(* vehicles and requests and every bound on versions and times.            *)
(***************************************************************************)
EXTENDS JourneyVehicles, TLAPS

(* What a slot holds while it publishes.                                   *)
LEMMA PublishFields ==
  ASSUME TypeOK, NEW r \in Requests, requests[r].op \in PublishOps
  PROVE  requests[r] \in PublishRequest
  BY DEF TypeOK, Idle, PublishOps

(* A stored vehicle is a row.                                              *)
LEMMA StoredRow ==
  ASSUME TypeOK, NEW v \in Vehicles, vehicles[v] # NoVehicle
  PROVE  /\ vehicles[v] \in VehicleRow
         /\ vehicles[v].owner \in Users
         /\ vehicles[v].journey \in Journeys
         /\ vehicles[v].revision \in Nat \ {0}
         /\ vehicles[v].acl \in Nat \ {0}
  BY JourneyAssumptions DEF TypeOK, JourneyTypeOK, VehicleRow

-----------------------------------------------------------------------------
(* What the publishing steps do.                                           *)

(* A first upload: row, revision 1 and ACL 1 of vehicle v.                 *)
FirstUpload(u, j, v, acl) ==
  /\ vehicles[v] = NoVehicle
  /\ acl.version = 1
  /\ acl.owner = u
  /\ NewVehicle(u, j) \in VehicleRow
  /\ vehicles' = [vehicles EXCEPT ![v] = NewVehicle(u, j)]
  /\ revisions' = [revisions EXCEPT ![v] = {[version |-> 1, owner |-> u]}]
  /\ acls' = [acls EXCEPT ![v] = {acl}]
  /\ UNCHANGED requests

(* The owner u of vehicle v publishes metadata revision n.                 *)
PublishesRevision(u, v, n) ==
  /\ OwnsVehicle(u, v)
  /\ n > vehicles[v].revision
  /\ [vehicles[v] EXCEPT !.revision = n] \in VehicleRow
  /\ revisions' = [revisions EXCEPT ![v] = @ \cup {[version |-> n, owner |-> u]}]
  /\ vehicles' = [vehicles EXCEPT ![v] = [@ EXCEPT !.revision = n]]
  /\ UNCHANGED acls

(* The owner u of vehicle v publishes an ACL.                              *)
PublishesACL(u, v, acl) ==
  /\ OwnsVehicle(u, v)
  /\ acl.owner = u
  /\ acl.version > vehicles[v].acl
  /\ [vehicles[v] EXCEPT !.acl = acl.version] \in VehicleRow
  /\ acls' = [acls EXCEPT ![v] = @ \cup {acl}]
  /\ vehicles' = [vehicles EXCEPT ![v] = [@ EXCEPT !.acl = acl.version]]
  /\ UNCHANGED revisions

(* CreateJourneyVehicle stores a new vehicle of the uploader.              *)
LEMMA CreateVehicleEffect ==
  ASSUME NEW u \in Users, NEW j \in Journeys, NEW v \in Vehicles, NEW acl \in ACL,
         CreateJourneyVehicle(u, j, v, acl)
  PROVE  FirstUpload(u, j, v, acl)
  BY JourneyAssumptions
  DEF CreateJourneyVehicle, GenesisPayloads, FirstUpload, NewVehicle, VehicleRow

(* AppendJourneyVehicleRevision publishes for the owner of the row,        *)
(* compared two Store calls before.                                        *)
LEMMA AppendRevisionEffect ==
  ASSUME TypeOK, RequestsOwnVehicle, NEW r \in Requests, NEW n \in 1..MaxRevision,
         AppendJourneyVehicleRevision(r, n)
  PROVE  /\ requests[r].user \in Users /\ requests[r].vehicle \in Vehicles
         /\ PublishesRevision(requests[r].user, requests[r].vehicle, n)
  <1> DEFINE u == requests[r].user
             v == requests[r].vehicle
  <1>1. u \in Users /\ v \in Vehicles
    BY PublishFields DEF AppendJourneyVehicleRevision, PublishOps, PublishRequest
  <1>2. OwnsVehicle(u, v)
    BY DEF AppendJourneyVehicleRevision, PublishOps, RequestsOwnVehicle
  <1>3. vehicles[v] \in VehicleRow
    BY <1>1, <1>2, StoredRow DEF OwnsVehicle
  <1>4. [vehicles[v] EXCEPT !.revision = n] \in VehicleRow
    BY <1>3 DEF VehicleRow
  <1> QED
    BY <1>1, <1>2, <1>4
    DEF AppendJourneyVehicleRevision, AdvancesRevision, SignedRevision,
        PublishesRevision

(* The same for AppendJourneyVehicleACL.                                   *)
LEMMA AppendACLEffect ==
  ASSUME TypeOK, RequestsOwnVehicle, NEW r \in Requests, NEW acl \in ACL,
         AppendJourneyVehicleACL(r, acl)
  PROVE  /\ requests[r].user \in Users /\ requests[r].vehicle \in Vehicles
         /\ PublishesACL(requests[r].user, requests[r].vehicle, acl)
  <1> DEFINE u == requests[r].user
             v == requests[r].vehicle
  <1>1. u \in Users /\ v \in Vehicles
    BY PublishFields DEF AppendJourneyVehicleACL, PublishOps, PublishRequest
  <1>2. OwnsVehicle(u, v)
    BY DEF AppendJourneyVehicleACL, PublishOps, RequestsOwnVehicle
  <1>3. vehicles[v] \in VehicleRow
    BY <1>1, <1>2, StoredRow DEF OwnsVehicle
  <1>4. [vehicles[v] EXCEPT !.acl = acl.version] \in VehicleRow
    BY <1>3 DEF VehicleRow, ACL
  <1> QED
    BY <1>1, <1>2, <1>4
    DEF AppendJourneyVehicleACL, AdvancesACL, ACLIsOwners, PublishesACL

(* The steps that touch a vehicle or its histories are the first upload    *)
(* and the two appends.                                                    *)
LEMMA VehicleSteps ==
  ASSUME TypeOK, RequestsOwnVehicle, [JourneyNext]_vars
  PROVE  \/ \E u \in Users, j \in Journeys, v \in Vehicles, acl \in ACL :
              FirstUpload(u, j, v, acl)
         \/ \E u \in Users, v \in Vehicles, n \in 1..MaxRevision :
              PublishesRevision(u, v, n)
         \/ \E u \in Users, v \in Vehicles, acl \in ACL : PublishesACL(u, v, acl)
         \/ UNCHANGED <<vehicles, revisions, acls>>
  <1>1. CASE \E u \in Users, j \in Journeys, v \in Vehicles, acl \in ACL :
               CreateJourneyVehicle(u, j, v, acl)
    BY <1>1, CreateVehicleEffect
  <1>2. CASE \E r \in Requests, n \in 1..MaxRevision :
               AppendJourneyVehicleRevision(r, n)
    BY <1>2, AppendRevisionEffect
  <1>3. CASE \E r \in Requests, acl \in ACL : AppendJourneyVehicleACL(r, acl)
    BY <1>3, AppendACLEffect
  <1> QED
    BY <1>1, <1>2, <1>3
    DEF JourneyNext, vars, CreateJourney, SetParticipantState, LoadVehicle,
        CheckParticipant, RejectPublish

(* A vehicle row is never deleted and never changes owner or journey, and  *)
(* the only new rows are first uploads.                                    *)
LEMMA VehiclesStay ==
  ASSUME TypeOK, RequestsOwnVehicle, [JourneyNext]_vars, NEW v \in Vehicles,
         vehicles[v] # NoVehicle
  PROVE  /\ vehicles'[v] # NoVehicle
         /\ vehicles'[v].owner = vehicles[v].owner
         /\ vehicles'[v].journey = vehicles[v].journey
         /\ revisions[v] \subseteq revisions'[v]
         /\ acls[v] \subseteq acls'[v]
  <1> DEFINE Stays == /\ vehicles'[v] # NoVehicle
                      /\ vehicles'[v].owner = vehicles[v].owner
                      /\ vehicles'[v].journey = vehicles[v].journey
                      /\ revisions[v] \subseteq revisions'[v]
                      /\ acls[v] \subseteq acls'[v]
  <1> USE NoVehicleAssumption
  <1>1. ASSUME NEW u \in Users, NEW j \in Journeys, NEW w \in Vehicles,
               NEW acl \in ACL, FirstUpload(u, j, w, acl)
        PROVE  Stays
    BY <1>1 DEF FirstUpload, TypeOK, JourneyTypeOK
  <1>2. ASSUME NEW u \in Users, NEW w \in Vehicles, NEW n \in 1..MaxRevision,
               PublishesRevision(u, w, n)
        PROVE  Stays
    BY <1>2, StoredRow DEF PublishesRevision, OwnsVehicle, TypeOK, JourneyTypeOK, VehicleRow
  <1>3. ASSUME NEW u \in Users, NEW w \in Vehicles, NEW acl \in ACL,
               PublishesACL(u, w, acl)
        PROVE  Stays
    BY <1>3, StoredRow DEF PublishesACL, OwnsVehicle, TypeOK, JourneyTypeOK, VehicleRow
  <1>4. CASE UNCHANGED <<vehicles, revisions, acls>>
    BY <1>4
  <1> QED
    BY <1>1, <1>2, <1>3, <1>4, VehicleSteps
-----------------------------------------------------------------------------
(* The inductive invariant, one conjunct at a time.                        *)

(* Every handler writes well-typed rows and requests.                      *)
LEMMA NextJourneyType ==
  ASSUME TypeOK, RequestsOwnVehicle, [JourneyNext]_vars
  PROVE  TypeOK'
  <1>1. requests' \in [Requests -> {Idle} \cup PublishRequest]
    <2>1. ASSUME NEW r \in Requests, NEW op \in PublishOps, NEW u \in Users,
                 NEW v \in Vehicles, LoadVehicle(r, op, u, v)
          PROVE  requests' \in [Requests -> {Idle} \cup PublishRequest]
      BY <2>1 DEF LoadVehicle, TypeOK, PublishRequest
    <2>2. ASSUME NEW r \in Requests, CheckParticipant(r)
          PROVE  requests' \in [Requests -> {Idle} \cup PublishRequest]
      <3>1. requests[r] \in PublishRequest
        BY <2>2, PublishFields DEF CheckParticipant
      <3>2. [requests[r] EXCEPT !.authorized = TRUE] \in PublishRequest
        BY <3>1 DEF PublishRequest
      <3> QED
        BY <2>2, <3>2 DEF CheckParticipant, TypeOK
    <2>3. ASSUME NEW r \in Requests, requests' = [requests EXCEPT ![r] = Idle]
          PROVE  requests' \in [Requests -> {Idle} \cup PublishRequest]
      BY <2>3 DEF TypeOK
    <2>4. CASE UNCHANGED requests
      BY <2>4 DEF TypeOK
    <2> QED
      BY <2>1, <2>2, <2>3, <2>4
      DEF JourneyNext, vars, CreateJourney, SetParticipantState,
          CreateJourneyVehicle, RejectPublish, AppendJourneyVehicleRevision,
          AppendJourneyVehicleACL
  <1>2. journeys' \subseteq Journeys /\ joined' \in [Journeys -> SUBSET Users]
    <2>1. ASSUME NEW u \in Users, NEW j \in Journeys, CreateJourney(u, j)
          PROVE  journeys' \subseteq Journeys /\ joined' \in [Journeys -> SUBSET Users]
      BY <2>1 DEF CreateJourney, TypeOK, JourneyTypeOK
    <2>2. ASSUME NEW u \in Users, NEW j \in Journeys, SetParticipantState(u, j)
          PROVE  journeys' \subseteq Journeys /\ joined' \in [Journeys -> SUBSET Users]
      BY <2>2 DEF SetParticipantState, TypeOK, JourneyTypeOK
    <2>3. CASE UNCHANGED <<journeys, joined>>
      BY <2>3 DEF TypeOK, JourneyTypeOK
    <2> QED
      BY <2>1, <2>2, <2>3
      DEF JourneyNext, vars, CreateJourneyVehicle, LoadVehicle, CheckParticipant,
          RejectPublish, AppendJourneyVehicleRevision, AppendJourneyVehicleACL
  <1> DEFINE Rows == /\ vehicles' \in [Vehicles -> VehicleRow \cup {NoVehicle}]
                     /\ revisions' \in [Vehicles -> SUBSET MetadataRevision]
                     /\ acls' \in [Vehicles -> SUBSET ACL]
  <1>3. ASSUME NEW u \in Users, NEW j \in Journeys, NEW v \in Vehicles,
               NEW acl \in ACL, FirstUpload(u, j, v, acl)
        PROVE  Rows
    <2>1. [version |-> 1, owner |-> u] \in MetadataRevision
      BY JourneyAssumptions DEF MetadataRevision
    <2> QED
      BY <1>3, <2>1 DEF FirstUpload, TypeOK, JourneyTypeOK
  <1>4. ASSUME NEW u \in Users, NEW v \in Vehicles, NEW n \in 1..MaxRevision,
               PublishesRevision(u, v, n)
        PROVE  Rows
    <2>1. [version |-> n, owner |-> u] \in MetadataRevision
      BY DEF MetadataRevision
    <2> QED
      BY <1>4, <2>1 DEF PublishesRevision, TypeOK, JourneyTypeOK
  <1>5. ASSUME NEW u \in Users, NEW v \in Vehicles, NEW acl \in ACL,
               PublishesACL(u, v, acl)
        PROVE  Rows
    BY <1>5 DEF PublishesACL, TypeOK, JourneyTypeOK
  <1>6. ASSUME UNCHANGED <<vehicles, revisions, acls>>
        PROVE  Rows
    BY <1>6 DEF TypeOK, JourneyTypeOK
  <1>7. Rows
    <2> HIDE DEF Rows
    <2> QED
      BY <1>3, <1>4, <1>5, <1>6, VehicleSteps
  <1> QED
    BY <1>1, <1>2, <1>7 DEF TypeOK, JourneyTypeOK

(* A publishing slot was taken in by LoadVehicle for the owner, and owners *)
(* do not change.                                                          *)
LEMMA NextRequestsOwn ==
  ASSUME TypeOK, RequestsOwnVehicle, [JourneyNext]_vars
  PROVE  RequestsOwnVehicle'
  <1> SUFFICES ASSUME NEW r \in Requests, requests'[r].op \in PublishOps
               PROVE  OwnsVehicle(requests[r].user, requests[r].vehicle)'
    BY DEF RequestsOwnVehicle
  <1>1. /\ requests'[r].vehicle \in Vehicles
        /\ OwnsVehicle(requests'[r].user, requests'[r].vehicle)
    <2>1. CASE requests'[r] = requests[r]
      BY <2>1, PublishFields DEF RequestsOwnVehicle, PublishRequest
    <2>2. ASSUME NEW s \in Requests, NEW op \in PublishOps, NEW u \in Users,
                 NEW v \in Vehicles, LoadVehicle(s, op, u, v),
                 requests'[r] # requests[r]
          PROVE  /\ requests'[r].vehicle \in Vehicles
                 /\ OwnsVehicle(requests'[r].user, requests'[r].vehicle)
      <3>1. requests'[r] = [op |-> op, authorized |-> FALSE, user |-> u, vehicle |-> v]
        BY <2>2 DEF LoadVehicle, TypeOK
      <3> QED
        BY <2>2, <3>1 DEF LoadVehicle
    <2>3. ASSUME NEW s \in Requests, CheckParticipant(s), requests'[r] # requests[r]
          PROVE  /\ requests'[r].vehicle \in Vehicles
                 /\ OwnsVehicle(requests'[r].user, requests'[r].vehicle)
      <3>1. requests[r] \in PublishRequest /\ requests[r].op \in PublishOps
        BY <2>3, PublishFields DEF CheckParticipant, TypeOK
      <3>2. requests'[r] = [requests[r] EXCEPT !.authorized = TRUE]
        BY <2>3 DEF CheckParticipant, TypeOK
      <3>3. /\ requests'[r].user = requests[r].user
            /\ requests'[r].vehicle = requests[r].vehicle
            /\ requests[r].vehicle \in Vehicles
        BY <3>1, <3>2 DEF PublishRequest
      <3> QED
        BY <3>1, <3>3 DEF RequestsOwnVehicle
    <2>4. ASSUME NEW s \in Requests, requests' = [requests EXCEPT ![s] = Idle],
                 requests'[r] # requests[r]
          PROVE  FALSE
      BY <2>4 DEF TypeOK, Idle, PublishOps
    <2> QED
      BY <2>1, <2>2, <2>3, <2>4
      DEF JourneyNext, vars, CreateJourney, SetParticipantState,
          CreateJourneyVehicle, RejectPublish, AppendJourneyVehicleRevision,
          AppendJourneyVehicleACL
  <1> QED
    BY <1>1, VehiclesStay DEF OwnsVehicle

(* What is appended names the owner, and the owner of a row is for good.   *)
LEMMA NextOnlyOwner ==
  ASSUME TypeOK, RequestsOwnVehicle, OnlyOwnerPublishes, [JourneyNext]_vars
  PROVE  OnlyOwnerPublishes'
  <1> SUFFICES ASSUME NEW w \in Vehicles, NEW rev \in revisions'[w] \cup acls'[w]
               PROVE  vehicles'[w] # NoVehicle /\ rev.owner = vehicles'[w].owner
    BY DEF OnlyOwnerPublishes
  <1>0. CASE rev \in revisions[w] \cup acls[w]
    BY <1>0, VehiclesStay DEF OnlyOwnerPublishes
  <1>1. ASSUME NEW u \in Users, NEW j \in Journeys, NEW v \in Vehicles,
               NEW acl \in ACL, FirstUpload(u, j, v, acl),
               rev \notin revisions[w] \cup acls[w]
        PROVE  vehicles'[w] # NoVehicle /\ rev.owner = vehicles'[w].owner
    <2>1. w = v /\ rev \in {[version |-> 1, owner |-> u], acl}
      BY <1>1 DEF FirstUpload, TypeOK, JourneyTypeOK
    <2>2. vehicles'[w] = NewVehicle(u, j) /\ vehicles'[w] \in VehicleRow
      BY <1>1, <2>1 DEF FirstUpload, TypeOK, JourneyTypeOK
    <2> QED
      BY <1>1, <2>1, <2>2, NoVehicleAssumption DEF FirstUpload, NewVehicle
  <1>2. ASSUME NEW u \in Users, NEW v \in Vehicles, NEW n \in 1..MaxRevision,
               PublishesRevision(u, v, n), rev \notin revisions[w] \cup acls[w]
        PROVE  vehicles'[w] # NoVehicle /\ rev.owner = vehicles'[w].owner
    <2>1. w = v /\ rev.owner = u
      BY <1>2 DEF PublishesRevision, TypeOK, JourneyTypeOK
    <2> QED
      BY <1>2, <2>1, VehiclesStay DEF PublishesRevision, OwnsVehicle
  <1>3. ASSUME NEW u \in Users, NEW v \in Vehicles, NEW acl \in ACL,
               PublishesACL(u, v, acl), rev \notin revisions[w] \cup acls[w]
        PROVE  vehicles'[w] # NoVehicle /\ rev.owner = vehicles'[w].owner
    <2>1. w = v /\ rev.owner = u
      BY <1>3 DEF PublishesACL, TypeOK, JourneyTypeOK
    <2> QED
      BY <1>3, <2>1, VehiclesStay DEF PublishesACL, OwnsVehicle
  <1>4. CASE UNCHANGED <<vehicles, revisions, acls>>
    BY <1>0, <1>4
  <1> QED
    BY <1>0, <1>1, <1>2, <1>3, <1>4, VehicleSteps

(* JourneyInv is an inductive invariant of the journey handlers.           *)
LEMMA JourneyInvInductive ==
  /\ Init => JourneyInv
  /\ JourneyInv /\ [JourneyNext]_vars => JourneyInv'
  <1>1. Init => JourneyInv
    <2> SUFFICES ASSUME Init PROVE JourneyInv
      OBVIOUS
    <2>1. TypeOK
      BY DEF Init, TypeOK, JourneyTypeOK
    <2>2. RequestsOwnVehicle /\ OnlyOwnerPublishes
      BY DEF Init, RequestsOwnVehicle, OnlyOwnerPublishes, Idle, PublishOps
    <2> QED
      BY <2>1, <2>2 DEF JourneyInv
  <1>2. JourneyInv /\ [JourneyNext]_vars => JourneyInv'
    BY NextJourneyType, NextRequestsOwn, NextOnlyOwner DEF JourneyInv
  <1> QED
    BY <1>1, <1>2

-----------------------------------------------------------------------------
(* The theorems.                                                           *)

(* JourneyInv holds in every reachable state, for every value of the       *)
(* constants.                                                              *)
THEOREM JourneyInvHolds == JourneySpec => []JourneyInv
  BY JourneyInvInductive, PTL DEF JourneySpec

(* Every row a handler writes is well typed (journey.go,                   *)
(* journey_vehicle.go).                                                    *)
THEOREM JourneyTypeCorrect == JourneySpec => []TypeOK
  <1>1. JourneyInv => TypeOK
    BY DEF JourneyInv
  <1> QED
    BY <1>1, JourneyInvHolds, PTL

(* Both histories of a vehicle hold the owner's payloads only, although    *)
(* ownership is compared two Store calls before the append                 *)
(* (journey_vehicles.go, authorizeJourneyVehicleOwner).                    *)
THEOREM HistoriesAreTheOwners == JourneySpec => []OnlyOwnerPublishes
  <1>1. JourneyInv => OnlyOwnerPublishes
    BY DEF JourneyInv
  <1> QED
    BY <1>1, JourneyInvHolds, PTL

(* While the owner is not a joined participant, no request for the vehicle *)
(* passes the participant check, and only a request that has passed it     *)
(* publishes, and is over with that.                                       *)
LEMMA FrozenStep ==
  ASSUME JourneyInv, [JourneyNext]_vars, NEW v \in Vehicles,
         vehicles[v] # NoVehicle,
         vehicles[v].owner \notin joined[vehicles[v].journey]
  PROVE  /\ PassedCheck(v)' \subseteq PassedCheck(v)
         /\ <<revisions[v], acls[v]>>' # <<revisions[v], acls[v]>> =>
              PassedCheck(v)' # PassedCheck(v)
  <1>0. TypeOK /\ RequestsOwnVehicle
    BY DEF JourneyInv
  <1>1. PassedCheck(v)' \subseteq PassedCheck(v)
    <2> SUFFICES ASSUME NEW r \in Requests, requests'[r].op \in PublishOps,
                        requests'[r].vehicle = v, requests'[r].authorized
                 PROVE  r \in PassedCheck(v)
      BY DEF PassedCheck
    <2>1. CASE requests'[r] = requests[r]
      BY <2>1 DEF PassedCheck
    <2>2. ASSUME NEW s \in Requests, NEW op \in PublishOps, NEW u \in Users,
                 NEW w \in Vehicles, LoadVehicle(s, op, u, w),
                 requests'[r] # requests[r]
          PROVE  FALSE
      BY <1>0, <2>2 DEF LoadVehicle, TypeOK
    <2>3. ASSUME NEW s \in Requests, CheckParticipant(s), requests'[r] # requests[r]
          PROVE  FALSE
      <3>1. requests[r] \in PublishRequest /\ OwnerIsJoined(requests[r].vehicle)
        BY <1>0, <2>3, PublishFields DEF CheckParticipant, TypeOK
      <3>2. requests'[r] = [requests[r] EXCEPT !.authorized = TRUE]
        BY <1>0, <2>3 DEF CheckParticipant, TypeOK
      <3>3. requests[r].vehicle = v
        BY <3>1, <3>2 DEF PublishRequest
      <3> QED
        BY <3>1, <3>3 DEF OwnerIsJoined
    <2>4. ASSUME NEW s \in Requests, requests' = [requests EXCEPT ![s] = Idle],
                 requests'[r] # requests[r]
          PROVE  FALSE
      BY <1>0, <2>4 DEF TypeOK, Idle, PublishOps
    <2> QED
      BY <2>1, <2>2, <2>3, <2>4
      DEF JourneyNext, vars, CreateJourney, SetParticipantState,
          CreateJourneyVehicle, RejectPublish, AppendJourneyVehicleRevision,
          AppendJourneyVehicleACL
  <1>2. ASSUME PassedCheck(v)' = PassedCheck(v)
        PROVE  revisions'[v] = revisions[v] /\ acls'[v] = acls[v]
    <2>0. ASSUME NEW r \in Requests, requests[r].op \in PublishOps,
                 requests[r].authorized, requests' = [requests EXCEPT ![r] = Idle]
          PROVE  requests[r].vehicle # v
      <3>1. r \notin PassedCheck(v)'
        BY <1>0, <2>0 DEF PassedCheck, TypeOK, Idle, PublishOps
      <3> QED
        BY <1>2, <2>0, <3>1 DEF PassedCheck
    <2>1. ASSUME NEW u \in Users, NEW j \in Journeys, NEW w \in Vehicles,
                 NEW acl \in ACL, CreateJourneyVehicle(u, j, w, acl)
          PROVE  revisions'[v] = revisions[v] /\ acls'[v] = acls[v]
      BY <1>0, <2>1 DEF CreateJourneyVehicle, TypeOK, JourneyTypeOK
    <2>2. ASSUME NEW r \in Requests, NEW n \in 1..MaxRevision,
                 AppendJourneyVehicleRevision(r, n)
          PROVE  revisions'[v] = revisions[v] /\ acls'[v] = acls[v]
      <3>1. requests[r].vehicle # v
        BY <2>0, <2>2 DEF AppendJourneyVehicleRevision, PublishOps
      <3> QED
        BY <1>0, <2>2, <3>1 DEF AppendJourneyVehicleRevision, TypeOK, JourneyTypeOK
    <2>3. ASSUME NEW r \in Requests, NEW acl \in ACL, AppendJourneyVehicleACL(r, acl)
          PROVE  revisions'[v] = revisions[v] /\ acls'[v] = acls[v]
      <3>1. requests[r].vehicle # v
        BY <2>0, <2>3 DEF AppendJourneyVehicleACL, PublishOps
      <3> QED
        BY <1>0, <2>3, <3>1 DEF AppendJourneyVehicleACL, TypeOK, JourneyTypeOK
    <2> QED
      BY <2>1, <2>2, <2>3
      DEF JourneyNext, vars, CreateJourney, SetParticipantState, LoadVehicle,
          CheckParticipant, RejectPublish
  <1> QED
    BY <1>1, <1>2

(* The owner-departure freeze holds although participation is read in one  *)
(* Store call and the append is another (journey_vehicles.go,              *)
(* authorizeJourneyVehicleOwner).                                          *)
THEOREM DepartureFreezes == JourneySpec => DepartedOwnersVehicleIsFrozen
  <1>1. JourneyInv /\ [JourneyNext]_vars =>
          [\A v \in Vehicles :
             /\ vehicles[v] # NoVehicle
             /\ vehicles[v].owner \notin joined[vehicles[v].journey]
             => /\ PassedCheck(v)' \subseteq PassedCheck(v)
                /\ <<revisions[v], acls[v]>>' # <<revisions[v], acls[v]>> =>
                     PassedCheck(v)' # PassedCheck(v)]_vars
    BY FrozenStep
  <1> QED
    BY <1>1, JourneyInvHolds, PTL DEF JourneySpec, DepartedOwnersVehicleIsFrozen

-----------------------------------------------------------------------------
(* Refinement.                                                             *)

(* The metadata history of every vehicle is a chain: a first upload is     *)
(* Create, AppendJourneyVehicleRevision is Append, every other handler     *)
(* stutters.                                                               *)
LEMMA MetadataStep ==
  ASSUME JourneyInv, [JourneyNext]_vars
  PROVE  [MetadataChain!Next]_MetadataChain!chainVars
  <1> DEFINE hd == [v \in Vehicles |->
                     IF vehicles[v] = NoVehicle THEN 0 ELSE vehicles[v].revision]
             rec == [v \in Vehicles |-> {rev.version : rev \in revisions[v]}]
  <1>0. TypeOK /\ RequestsOwnVehicle
    BY DEF JourneyInv
  <1> USE NoVehicleAssumption
  <1>1. ASSUME NEW u \in Users, NEW j \in Journeys, NEW v \in Vehicles,
               NEW acl \in ACL, FirstUpload(u, j, v, acl)
        PROVE  MetadataChain!Create(v)
    <2>1. /\ vehicles[v] = NoVehicle
          /\ vehicles'[v] \in VehicleRow /\ vehicles'[v].revision = 1
          /\ revisions'[v] = {[version |-> 1, owner |-> u]}
          /\ \A w \in Vehicles \ {v} :
               vehicles'[w] = vehicles[w] /\ revisions'[w] = revisions[w]
      BY <1>0, <1>1 DEF FirstUpload, NewVehicle, TypeOK, JourneyTypeOK
    <2>2. hd[v] = 0 /\ hd' = [hd EXCEPT ![v] = 1]
      BY <2>1
    <2>3. rec' = [rec EXCEPT ![v] = {1}]
      <3>1. {rev.version : rev \in revisions'[v]} = {1}
        BY <2>1
      <3> QED
        BY <2>1, <3>1
    <2> QED
      BY <2>2, <2>3 DEF MetadataChain!Create
  <1>2. ASSUME NEW u \in Users, NEW v \in Vehicles, NEW n \in 1..MaxRevision,
               PublishesRevision(u, v, n)
        PROVE  MetadataChain!Append(v, n)
    <2>1. vehicles[v] # NoVehicle /\ vehicles[v] \in VehicleRow
          /\ vehicles[v].revision # 0 /\ n > vehicles[v].revision
      BY <1>0, <1>2, StoredRow DEF PublishesRevision, OwnsVehicle
    <2>2. /\ vehicles'[v] \in VehicleRow /\ vehicles'[v].revision = n
          /\ revisions'[v] = revisions[v] \cup {[version |-> n, owner |-> u]}
          /\ \A w \in Vehicles \ {v} :
               vehicles'[w] = vehicles[w] /\ revisions'[w] = revisions[w]
      BY <1>0, <1>2, <2>1 DEF PublishesRevision, TypeOK, JourneyTypeOK, VehicleRow
    <2>3. hd[v] # 0 /\ n > hd[v] /\ hd' = [hd EXCEPT ![v] = n]
      BY <2>1, <2>2
    <2>4. rec' = [rec EXCEPT ![v] = @ \cup {n}]
      <3>1. PICK x : x.version = n /\ revisions'[v] = revisions[v] \cup {x}
        BY <2>2
      <3>2. {rev.version : rev \in revisions'[v]}
              = {rev.version : rev \in revisions[v]} \cup {n}
        BY <3>1
      <3> QED
        BY <2>2, <3>2
    <2> QED
      BY <2>3, <2>4 DEF MetadataChain!Append
  <1>3. ASSUME NEW u \in Users, NEW v \in Vehicles, NEW acl \in ACL,
               PublishesACL(u, v, acl)
        PROVE  UNCHANGED MetadataChain!chainVars
    <2>1. vehicles[v] # NoVehicle /\ vehicles[v] \in VehicleRow
      BY <1>0, <1>3, StoredRow DEF PublishesACL, OwnsVehicle
    <2>2. /\ vehicles'[v] \in VehicleRow
          /\ vehicles'[v].revision = vehicles[v].revision
          /\ \A w \in Vehicles \ {v} : vehicles'[w] = vehicles[w]
          /\ revisions' = revisions
      BY <1>0, <1>3, <2>1 DEF PublishesACL, TypeOK, JourneyTypeOK, VehicleRow
    <2>3. hd' = hd
      BY <2>1, <2>2
    <2> QED
      BY <2>2, <2>3 DEF MetadataChain!chainVars
  <1>4. ASSUME UNCHANGED <<vehicles, revisions, acls>>
        PROVE  UNCHANGED MetadataChain!chainVars
    BY <1>4 DEF MetadataChain!chainVars
  <1> QED
    BY <1>0, <1>1, <1>2, <1>3, <1>4, VehicleSteps
    DEF MetadataChain!Next, MetadataChain!Versions

(* The ACL history is a chain of its own, in the same way.                 *)
LEMMA ACLStep ==
  ASSUME JourneyInv, [JourneyNext]_vars
  PROVE  [ACLChain!Next]_ACLChain!chainVars
  <1> DEFINE hd == [v \in Vehicles |->
                     IF vehicles[v] = NoVehicle THEN 0 ELSE vehicles[v].acl]
             rec == [v \in Vehicles |-> {acl.version : acl \in acls[v]}]
  <1>0. TypeOK /\ RequestsOwnVehicle
    BY DEF JourneyInv
  <1> USE NoVehicleAssumption
  <1>1. ASSUME NEW u \in Users, NEW j \in Journeys, NEW v \in Vehicles,
               NEW acl \in ACL, FirstUpload(u, j, v, acl)
        PROVE  ACLChain!Create(v)
    <2>1. /\ vehicles[v] = NoVehicle
          /\ vehicles'[v] \in VehicleRow /\ vehicles'[v].acl = 1
          /\ acls'[v] = {acl} /\ acl.version = 1
          /\ \A w \in Vehicles \ {v} :
               vehicles'[w] = vehicles[w] /\ acls'[w] = acls[w]
      BY <1>0, <1>1 DEF FirstUpload, NewVehicle, TypeOK, JourneyTypeOK
    <2>2. hd[v] = 0 /\ hd' = [hd EXCEPT ![v] = 1]
      BY <2>1
    <2>3. rec' = [rec EXCEPT ![v] = {1}]
      <3>1. {x.version : x \in acls'[v]} = {1}
        BY <2>1
      <3> QED
        BY <2>1, <3>1
    <2> QED
      BY <2>2, <2>3 DEF ACLChain!Create
  <1>2. ASSUME NEW u \in Users, NEW v \in Vehicles, NEW acl \in ACL,
               PublishesACL(u, v, acl)
        PROVE  ACLChain!Append(v, acl.version)
    <2>1. vehicles[v] # NoVehicle /\ vehicles[v] \in VehicleRow
          /\ vehicles[v].acl # 0 /\ acl.version > vehicles[v].acl
      BY <1>0, <1>2, StoredRow DEF PublishesACL, OwnsVehicle
    <2>2. /\ vehicles'[v] \in VehicleRow /\ vehicles'[v].acl = acl.version
          /\ acls'[v] = acls[v] \cup {acl}
          /\ \A w \in Vehicles \ {v} :
               vehicles'[w] = vehicles[w] /\ acls'[w] = acls[w]
      BY <1>0, <1>2, <2>1 DEF PublishesACL, TypeOK, JourneyTypeOK, VehicleRow
    <2>3. hd[v] # 0 /\ acl.version > hd[v] /\ hd' = [hd EXCEPT ![v] = acl.version]
      BY <2>1, <2>2
    <2>4. rec' = [rec EXCEPT ![v] = @ \cup {acl.version}]
      <3>1. {x.version : x \in acls'[v]} = {x.version : x \in acls[v]} \cup {acl.version}
        BY <2>2
      <3> QED
        BY <2>2, <3>1
    <2> QED
      BY <2>3, <2>4 DEF ACLChain!Append
  <1>3. ASSUME NEW u \in Users, NEW v \in Vehicles, NEW n \in 1..MaxRevision,
               PublishesRevision(u, v, n)
        PROVE  UNCHANGED ACLChain!chainVars
    <2>1. vehicles[v] # NoVehicle /\ vehicles[v] \in VehicleRow
      BY <1>0, <1>3, StoredRow DEF PublishesRevision, OwnsVehicle
    <2>2. /\ vehicles'[v] \in VehicleRow
          /\ vehicles'[v].acl = vehicles[v].acl
          /\ \A w \in Vehicles \ {v} : vehicles'[w] = vehicles[w]
          /\ acls' = acls
      BY <1>0, <1>3, <2>1 DEF PublishesRevision, TypeOK, JourneyTypeOK, VehicleRow
    <2>3. hd' = hd
      BY <2>1, <2>2
    <2> QED
      BY <2>2, <2>3 DEF ACLChain!chainVars
  <1>4. ASSUME UNCHANGED <<vehicles, revisions, acls>>
        PROVE  UNCHANGED ACLChain!chainVars
    BY <1>4 DEF ACLChain!chainVars
  <1>5. \A acl \in ACL : acl.version \in 1..MaxACL
    BY DEF ACL
  <1> QED
    BY <1>0, <1>1, <1>2, <1>3, <1>4, <1>5, VehicleSteps
    DEF ACLChain!Next, ACLChain!Versions

(* Both histories of a vehicle implement the abstract chain, whatever is   *)
(* published to the other one.                                             *)
THEOREM HistoriesRefineChain == JourneySpec => HistoriesFormChains
  <1>1. Init => MetadataChain!Init /\ ACLChain!Init
    BY DEF Init, MetadataChain!Init, ACLChain!Init
  <1>2. JourneySpec => MetadataChain!Spec
    BY <1>1, MetadataStep, JourneyInvHolds, PTL DEF JourneySpec, MetadataChain!Spec
  <1>3. JourneySpec => ACLChain!Spec
    BY <1>1, ACLStep, JourneyInvHolds, PTL DEF JourneySpec, ACLChain!Spec
  <1> QED
    BY <1>2, <1>3 DEF HistoriesFormChains
=============================================================================
