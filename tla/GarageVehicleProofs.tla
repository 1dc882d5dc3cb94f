------------------------ MODULE GarageVehicleProofs ------------------------
(***************************************************************************)
(* Proofs about GarageVehicles, for every set of users, garages, vehicles  *)
(* and requests and every bound on versions.  The garages take the steps   *)
(* of module Garage only, so GarageProofs applies to them.                 *)
(***************************************************************************)
EXTENDS GarageVehicles, GarageProofs

(* Every step is a step of the garages below, or leaves them alone.        *)
LEMMA GaragesBelow ==
  ASSUME [VehicleNext]_allVars
  PROVE  [Next]_vars
  BY DEF VehicleNext, allVars, AuthorizeVehicleCreate, CreateGarageVehicle,
         AuthorizeVehicleRevision, PrecheckVehicle, AppendGarageVehicleRevision,
         ReloadVehicle, RejectVehicleRequest

(* What a slot holds while its request may still write.                    *)
LEMMA ServingFields ==
  ASSUME VehicleTypeOK, NEW s \in VehicleRequests
  PROVE  /\ serving[s].op \in {"create", "edit", "edit_found"} =>
              serving[s].user \in Users /\ serving[s].garage \in Garages
         /\ serving[s].op \in {"edit", "edit_found"} =>
              /\ serving[s] \in [op : {"edit", "edit_found"}, user : Users,
                                 garage : Garages, vehicle : Vehicles]
              /\ serving[s].vehicle \in Vehicles
  BY DEF VehicleTypeOK, VehicleRequest, Idle

-----------------------------------------------------------------------------
(* The steps that write a vehicle.                                         *)

(* Vehicle v is created for garage g by u.                                 *)
Creates(v, g, u) ==
  LET row == [garage |-> g, version |-> 1, signer |-> u] IN
  /\ row \in VehicleRow
  /\ vehicles[v] = NoVehicle
  /\ vehicles' = [vehicles EXCEPT ![v] = row]
  /\ vehicleRevisions' = [vehicleRevisions EXCEPT ![v] = {row}]

(* Revision n of vehicle v of garage g is appended by u.                   *)
Revises(v, g, u, n) ==
  LET row == [garage |-> g, version |-> n, signer |-> u] IN
  /\ row \in VehicleRow
  /\ vehicles[v] \in VehicleRow
  /\ vehicles[v] # NoVehicle
  /\ vehicles[v].garage = g
  /\ n > vehicles[v].version
  /\ vehicles' = [vehicles EXCEPT ![v] = row]
  /\ vehicleRevisions' = [vehicleRevisions EXCEPT ![v] = @ \cup {row}]

(* The conditional UPDATE leaves the row equal to the appended revision    *)
(* when both are of one garage.                                            *)
LEMMA HeadBecomesRevision ==
  ASSUME NEW row \in VehicleRow, NEW rev \in VehicleRow, row.garage = rev.garage
  PROVE  VehicleHeadAfter(row, rev) = rev
  <1> DEFINE new == VehicleHeadAfter(row, rev)
  <1>1. new \in VehicleRow
    BY DEF VehicleHeadAfter, VehicleRow
  <1>2. new.garage = rev.garage /\ new.version = rev.version /\ new.signer = rev.signer
    BY DEF VehicleHeadAfter, VehicleRow
  <1> HIDE DEF new
  <1>3. new = rev
    BY <1>1, <1>2 DEF VehicleRow
  <1> QED
    BY <1>3 DEF new

(* A step that writes a vehicle is a creation or an append by a caller who *)
(* was let in as an owner of the garage in the request path.               *)
LEMMA VehicleWrites ==
  ASSUME VehicleTypeOK, ServingWereOwners, [VehicleNext]_allVars
  PROVE  \/ \E v \in Vehicles, g \in Garages, u \in Users :
              Creates(v, g, u) /\ WasOwner(g, u)
         \/ \E v \in Vehicles, g \in Garages, u \in Users, n \in VehicleVersions :
              Revises(v, g, u, n) /\ WasOwner(g, u)
         \/ UNCHANGED <<vehicles, vehicleRevisions>>
  <1>1. ASSUME NEW s \in VehicleRequests, NEW v \in Vehicles, CreateGarageVehicle(s, v)
        PROVE  \E g \in Garages, u \in Users : Creates(v, g, u) /\ WasOwner(g, u)
    <2>1. /\ serving[s].user \in Users /\ serving[s].garage \in Garages
          /\ WasOwner(serving[s].garage, serving[s].user)
      BY <1>1, ServingFields DEF CreateGarageVehicle, ServingWereOwners
    <2>2. FirstRevision(serving[s]) \in VehicleRow
      BY <2>1, VehicleAssumptions DEF FirstRevision, VehicleRow, VehicleVersions
    <2>3. Creates(v, serving[s].garage, serving[s].user)
      BY <1>1, <2>2 DEF CreateGarageVehicle, Creates, FirstRevision
    <2> QED
      BY <2>1, <2>3
  <1>2. ASSUME NEW s \in VehicleRequests, NEW n \in VehicleVersions,
               AppendGarageVehicleRevision(s, n)
        PROVE  \E v \in Vehicles, g \in Garages, u \in Users :
                 Revises(v, g, u, n) /\ WasOwner(g, u)
    <2> DEFINE q == serving[s]
               row == [garage |-> q.garage, version |-> n, signer |-> q.user]
    <2>1. /\ q.user \in Users /\ q.garage \in Garages /\ q.vehicle \in Vehicles
          /\ WasOwner(q.garage, q.user)
      BY <1>2, ServingFields DEF AppendGarageVehicleRevision, ServingWereOwners
    <2>2. vehicles[q.vehicle] \in VehicleRow /\ vehicles[q.vehicle].garage = q.garage
          /\ vehicles[q.vehicle] # NoVehicle /\ n > vehicles[q.vehicle].version
      BY <1>2, <2>1 DEF AppendGarageVehicleRevision, InGarage, VehicleTypeOK,
                        AdvancesVehicle
    <2>3. row \in VehicleRow
      BY <2>1 DEF VehicleRow
    <2>4. VehicleHeadAfter(vehicles[q.vehicle], row) = row
      <3>1. row.garage = q.garage
        OBVIOUS
      <3> HIDE DEF row, q
      <3> QED
        BY <2>2, <2>3, <3>1, HeadBecomesRevision
    <2>5. /\ vehicles' = [vehicles EXCEPT ![q.vehicle] = row]
          /\ vehicleRevisions' = [vehicleRevisions EXCEPT ![q.vehicle] = @ \cup {row}]
      BY <1>2, <2>4 DEF AppendGarageVehicleRevision
    <2>6. Revises(q.vehicle, q.garage, q.user, n)
      BY <2>2, <2>3, <2>5 DEF Revises
    <2> QED
      BY <2>1, <2>6
  <1> QED
    BY <1>1, <1>2
    DEF VehicleNext, allVars, vehicleVars, AuthorizeVehicleCreate,
        AuthorizeVehicleRevision, PrecheckVehicle, ReloadVehicle,
        RejectVehicleRequest

-----------------------------------------------------------------------------
(* The invariant, one conjunct at a time.                                  *)

(* Every handler writes well-typed vehicles and requests.                  *)
LEMMA NextVehicleType ==
  ASSUME GarageInv, VehicleTypeOK, ServingWereOwners, [VehicleNext]_allVars
  PROVE  VehicleTypeOK'
  <1>1. TypeOK'
    BY GaragesBelow, GarageInvInductive DEF GarageInv
  <1>2. /\ vehicles' \in [Vehicles -> VehicleRow \cup {NoVehicle}]
        /\ vehicleRevisions' \in [Vehicles -> SUBSET VehicleRevision]
    <2> DEFINE Typed == /\ vehicles' \in [Vehicles -> VehicleRow \cup {NoVehicle}]
                        /\ vehicleRevisions' \in [Vehicles -> SUBSET VehicleRevision]
    <2>1. ASSUME NEW v \in Vehicles, NEW g \in Garages, NEW u \in Users,
                 Creates(v, g, u)
          PROVE  Typed
      <3>1. PICK row \in VehicleRow :
              /\ vehicles' = [vehicles EXCEPT ![v] = row]
              /\ vehicleRevisions' = [vehicleRevisions EXCEPT ![v] = {row}]
        BY <2>1 DEF Creates
      <3> QED
        BY <3>1 DEF VehicleTypeOK, VehicleRevision
    <2>2. ASSUME NEW v \in Vehicles, NEW g \in Garages, NEW u \in Users,
                 NEW n \in VehicleVersions, Revises(v, g, u, n)
          PROVE  Typed
      <3>1. PICK row \in VehicleRow :
              /\ vehicles' = [vehicles EXCEPT ![v] = row]
              /\ vehicleRevisions' = [vehicleRevisions EXCEPT ![v] = @ \cup {row}]
        BY <2>2 DEF Revises
      <3>2. vehicleRevisions[v] \cup {row} \in SUBSET VehicleRevision
        BY DEF VehicleTypeOK, VehicleRevision
      <3> QED
        BY <3>1, <3>2 DEF VehicleTypeOK
    <2>3. ASSUME UNCHANGED <<vehicles, vehicleRevisions>>
          PROVE  Typed
      BY <2>3 DEF VehicleTypeOK
    <2> HIDE DEF Typed
    <2>4. Typed
      BY <2>1, <2>2, <2>3, VehicleWrites
    <2> QED
      BY <2>4 DEF Typed
  <1>3. serving' \in [VehicleRequests -> VehicleRequest]
    <2>1. ASSUME NEW s \in VehicleRequests, NEW u \in Users, NEW g \in Garages,
                 AuthorizeVehicleCreate(s, u, g)
          PROVE  serving' \in [VehicleRequests -> VehicleRequest]
      BY <2>1 DEF AuthorizeVehicleCreate, Serve, VehicleTypeOK, VehicleRequest
    <2>2. ASSUME NEW s \in VehicleRequests, NEW u \in Users, NEW g \in Garages,
                 NEW v \in Vehicles, AuthorizeVehicleRevision(s, u, g, v)
          PROVE  serving' \in [VehicleRequests -> VehicleRequest]
      BY <2>2 DEF AuthorizeVehicleRevision, Serve, VehicleTypeOK, VehicleRequest
    <2>3. ASSUME NEW s \in VehicleRequests, PrecheckVehicle(s)
          PROVE  serving' \in [VehicleRequests -> VehicleRequest]
      <3>1. [serving[s] EXCEPT !.op = "edit_found"]
              \in [op : {"edit", "edit_found"}, user : Users, garage : Garages,
                   vehicle : Vehicles]
        BY <2>3, ServingFields DEF PrecheckVehicle
      <3> QED
        BY <2>3, <3>1 DEF PrecheckVehicle, Serve, VehicleTypeOK, VehicleRequest
    <2>4. ASSUME NEW s \in VehicleRequests, NEW n \in VehicleVersions,
                 AppendGarageVehicleRevision(s, n)
          PROVE  serving' \in [VehicleRequests -> VehicleRequest]
      <3>1. serving[s].garage \in Garages /\ serving[s].vehicle \in Vehicles
        BY <2>4, ServingFields DEF AppendGarageVehicleRevision
      <3>2. [op |-> "reload", garage |-> serving[s].garage,
             vehicle |-> serving[s].vehicle, version |-> n] \in VehicleRequest
        BY <3>1 DEF VehicleRequest
      <3> QED
        BY <2>4, <3>2 DEF AppendGarageVehicleRevision, Serve, VehicleTypeOK
    <2>5. ASSUME NEW s \in VehicleRequests, Serve(s, Idle)
          PROVE  serving' \in [VehicleRequests -> VehicleRequest]
      BY <2>5 DEF Serve, VehicleTypeOK, VehicleRequest
    <2>6. CASE UNCHANGED serving
      BY <2>6 DEF VehicleTypeOK
    <2> QED
      BY <2>1, <2>2, <2>3, <2>4, <2>5, <2>6
      DEF VehicleNext, allVars, vehicleVars, CreateGarageVehicle, ReloadVehicle,
          RejectVehicleRequest
  <1> QED
    BY <1>1, <1>2, <1>3 DEF VehicleTypeOK

(* Who is an accepted owner now has a record on file.                      *)
LEMMA OwnerWasOwner ==
  ASSUME GarageInv, OwnersAreAccountedFor, NEW g \in Garages, NEW u \in Users,
         IsAcceptedOwner(g, u)
  PROVE  WasOwner(g, u)
  <1>1. owners[g][u].addedIn \in Versions
    BY GarageAssumptions
    DEF GarageInv, RowsWellFormed, IsAcceptedOwner, TypeOK, Versions, OwnerRow
  <1> QED
    BY <1>1 DEF OwnersAreAccountedFor, IsAcceptedOwner, WasOwner

(* The record stays on file.                                               *)
LEMMA WasOwnerStays ==
  ASSUME GarageInv, [Next]_vars, NEW g \in Garages, NEW u \in Users, WasOwner(g, u)
  PROVE  WasOwner(g, u)'
  BY RecordsStay DEF WasOwner

(* A slot that may write was let in for an owner.                          *)
LEMMA NextServing ==
  ASSUME GarageInv, OwnersAreAccountedFor, VehicleTypeOK, ServingWereOwners,
         [VehicleNext]_allVars
  PROVE  ServingWereOwners'
  <1> SUFFICES ASSUME NEW s \in VehicleRequests,
                      serving'[s].op \in {"create", "edit", "edit_found"}
               PROVE  WasOwner(serving[s].garage, serving[s].user)'
    BY DEF ServingWereOwners
  <1>1. /\ serving'[s].garage \in Garages /\ serving'[s].user \in Users
        /\ WasOwner(serving'[s].garage, serving'[s].user)
    <2>1. CASE serving'[s] = serving[s]
      BY <2>1, ServingFields DEF ServingWereOwners
    <2>2. ASSUME NEW z \in VehicleRequests, NEW u \in Users, NEW g \in Garages,
                 AuthorizeVehicleCreate(z, u, g), serving'[s] # serving[s]
          PROVE  /\ serving'[s].garage \in Garages /\ serving'[s].user \in Users
                 /\ WasOwner(serving'[s].garage, serving'[s].user)
      <3>1. serving'[s].garage = g /\ serving'[s].user = u
        BY <2>2 DEF AuthorizeVehicleCreate, Serve, VehicleTypeOK
      <3> QED
        BY <2>2, <3>1, OwnerWasOwner DEF AuthorizeVehicleCreate, VehicleAuthority
    <2>3. ASSUME NEW z \in VehicleRequests, NEW u \in Users, NEW g \in Garages,
                 NEW v \in Vehicles, AuthorizeVehicleRevision(z, u, g, v),
                 serving'[s] # serving[s]
          PROVE  /\ serving'[s].garage \in Garages /\ serving'[s].user \in Users
                 /\ WasOwner(serving'[s].garage, serving'[s].user)
      <3>1. serving'[s].garage = g /\ serving'[s].user = u
        BY <2>3 DEF AuthorizeVehicleRevision, Serve, VehicleTypeOK
      <3> QED
        BY <2>3, <3>1, OwnerWasOwner DEF AuthorizeVehicleRevision, VehicleAuthority
    <2>4. ASSUME NEW z \in VehicleRequests, PrecheckVehicle(z), serving'[s] # serving[s]
          PROVE  /\ serving'[s].garage \in Garages /\ serving'[s].user \in Users
                 /\ WasOwner(serving'[s].garage, serving'[s].user)
      <3>1. /\ serving[s].op = "edit"
            /\ serving'[s] = [serving[s] EXCEPT !.op = "edit_found"]
        BY <2>4 DEF PrecheckVehicle, Serve, VehicleTypeOK
      <3>2. serving'[s].garage = serving[s].garage /\ serving'[s].user = serving[s].user
        BY <3>1, ServingFields
      <3> QED
        BY <3>1, <3>2, ServingFields DEF ServingWereOwners
    <2>5. ASSUME NEW z \in VehicleRequests, NEW n \in VehicleVersions,
                 AppendGarageVehicleRevision(z, n), serving'[s] # serving[s]
          PROVE  FALSE
      BY <2>5 DEF AppendGarageVehicleRevision, Serve, VehicleTypeOK
    <2>6. ASSUME NEW z \in VehicleRequests, Serve(z, Idle), serving'[s] # serving[s]
          PROVE  FALSE
      BY <2>6 DEF Serve, VehicleTypeOK, Idle
    <2> QED
      BY <2>1, <2>2, <2>3, <2>4, <2>5, <2>6
      DEF VehicleNext, allVars, vehicleVars, CreateGarageVehicle, ReloadVehicle,
          RejectVehicleRequest
  <1>2. PICK g \in Garages, u \in Users :
          g = serving'[s].garage /\ u = serving'[s].user /\ WasOwner(g, u)
    BY <1>1
  <1>3. WasOwner(g, u)'
    BY <1>2, GaragesBelow, WasOwnerStays
  <1> QED
    BY <1>2, <1>3 DEF WasOwner

(* What is written names the garage of the row and repeats it.             *)
LEMMA NextVehicleRows ==
  ASSUME VehicleTypeOK, ServingWereOwners, RevisionsNameTheirGarage,
         VehicleRowMirrorsNewest, [VehicleNext]_allVars
  PROVE  (RevisionsNameTheirGarage /\ VehicleRowMirrorsNewest)'
  <1> USE NoVehicleAssumption
  <1>1. ASSUME NEW v \in Vehicles, NEW g \in Garages, NEW u \in Users, Creates(v, g, u)
        PROVE  (RevisionsNameTheirGarage /\ VehicleRowMirrorsNewest)'
    <2>1. PICK row \in VehicleRow :
            /\ row.garage = g /\ row.version = 1
            /\ vehicles'[v] = row /\ vehicleRevisions'[v] = {row}
            /\ \A w \in Vehicles \ {v} :
                 /\ vehicles'[w] = vehicles[w]
                 /\ vehicleRevisions'[w] = vehicleRevisions[w]
      BY <1>1 DEF Creates, VehicleTypeOK
    <2> QED
      BY <2>1 DEF RevisionsNameTheirGarage, VehicleRowMirrorsNewest
  <1>2. ASSUME NEW v \in Vehicles, NEW g \in Garages, NEW u \in Users,
               NEW n \in VehicleVersions, Revises(v, g, u, n)
        PROVE  (RevisionsNameTheirGarage /\ VehicleRowMirrorsNewest)'
    <2>1. PICK row \in VehicleRow :
            /\ row.garage = g /\ row.version = n
            /\ vehicles'[v] = row /\ vehicleRevisions'[v] = vehicleRevisions[v] \cup {row}
            /\ \A w \in Vehicles \ {v} :
                 /\ vehicles'[w] = vehicles[w]
                 /\ vehicleRevisions'[w] = vehicleRevisions[w]
      BY <1>2 DEF Revises, VehicleTypeOK
    <2>2. /\ vehicles[v] # NoVehicle /\ vehicles[v].garage = g
          /\ vehicles[v].version \in Nat /\ n \in Nat /\ n > vehicles[v].version
      BY <1>2 DEF Revises, VehicleRow, VehicleVersions
    <2>3. \A rev \in vehicleRevisions[v] : rev.version \in Nat
      BY DEF VehicleTypeOK, VehicleRevision, VehicleRow, VehicleVersions
    <2>4. \A rev \in vehicleRevisions[v] : rev.garage = g /\ rev.version <= n
      BY <2>2, <2>3 DEF RevisionsNameTheirGarage, VehicleRowMirrorsNewest
    <2> QED
      BY <2>1, <2>2, <2>4 DEF RevisionsNameTheirGarage, VehicleRowMirrorsNewest
  <1>3. CASE UNCHANGED <<vehicles, vehicleRevisions>>
    BY <1>3 DEF RevisionsNameTheirGarage, VehicleRowMirrorsNewest
  <1> QED
    BY <1>1, <1>2, <1>3, VehicleWrites

(* What is written is signed by somebody who was an owner.                 *)
LEMMA NextSigners ==
  ASSUME GarageInv, VehicleTypeOK, ServingWereOwners, VehicleSignersWereOwners,
         [VehicleNext]_allVars
  PROVE  VehicleSignersWereOwners'
  <1> SUFFICES ASSUME NEW w \in Vehicles, NEW rev \in vehicleRevisions'[w]
               PROVE  WasOwner(rev.garage, rev.signer)'
    BY DEF VehicleSignersWereOwners, WasOwner
  <1>1. /\ rev.garage \in Garages /\ rev.signer \in Users
        /\ WasOwner(rev.garage, rev.signer)
    <2>1. CASE rev \in vehicleRevisions[w]
      BY <2>1 DEF VehicleTypeOK, VehicleRevision, VehicleRow, VehicleSignersWereOwners
    <2>2. ASSUME NEW v \in Vehicles, NEW g \in Garages, NEW u \in Users,
                 Creates(v, g, u), WasOwner(g, u), rev \notin vehicleRevisions[w]
          PROVE  rev.garage = g /\ rev.signer = u
      BY <2>2 DEF Creates, VehicleTypeOK
    <2>3. ASSUME NEW v \in Vehicles, NEW g \in Garages, NEW u \in Users,
                 NEW n \in VehicleVersions,
                 Revises(v, g, u, n), WasOwner(g, u), rev \notin vehicleRevisions[w]
          PROVE  rev.garage = g /\ rev.signer = u
      BY <2>3 DEF Revises, VehicleTypeOK
    <2> QED
      BY <2>1, <2>2, <2>3, VehicleWrites
  <1> QED
    BY <1>1, GaragesBelow, WasOwnerStays

(* VehicleInv is an inductive invariant of the vehicle handlers and the    *)
(* garages below them.                                                     *)
LEMMA VehicleInvInductive ==
  /\ VehicleInit => VehicleInv
  /\ VehicleInv /\ [VehicleNext]_allVars => VehicleInv'
  <1>1. VehicleInit => VehicleInv
    <2> SUFFICES ASSUME VehicleInit PROVE VehicleInv
      OBVIOUS
    <2>1. GarageInv /\ OwnersAreAccountedFor
      BY GarageInvInductive, AccountedInductive DEF VehicleInit
    <2>2. VehicleTypeOK
      BY <2>1 DEF VehicleInit, VehicleTypeOK, GarageInv, VehicleRequest
    <2>3. RevisionsNameTheirGarage /\ VehicleRowMirrorsNewest /\ VehicleSignersWereOwners
      BY DEF VehicleInit, RevisionsNameTheirGarage, VehicleRowMirrorsNewest,
             VehicleSignersWereOwners
    <2>4. ServingWereOwners
      BY DEF VehicleInit, ServingWereOwners, Idle
    <2> QED
      BY <2>1, <2>2, <2>3, <2>4 DEF VehicleInv
  <1>2. VehicleInv /\ [VehicleNext]_allVars => VehicleInv'
    <2> SUFFICES ASSUME VehicleInv, [VehicleNext]_allVars PROVE VehicleInv'
      OBVIOUS
    <2>1. /\ GarageInv /\ OwnersAreAccountedFor /\ VehicleTypeOK
          /\ RevisionsNameTheirGarage /\ VehicleRowMirrorsNewest
          /\ ServingWereOwners /\ VehicleSignersWereOwners
      BY DEF VehicleInv
    <2>2. GarageInv' /\ OwnersAreAccountedFor'
      BY <2>1, GaragesBelow, GarageInvInductive, AccountedInductive
    <2> QED
      BY <2>1, <2>2, NextVehicleType, NextServing, NextVehicleRows, NextSigners
      DEF VehicleInv
  <1> QED
    BY <1>1, <1>2

-----------------------------------------------------------------------------
(* The theorems.                                                           *)

(* VehicleInv holds in every reachable state, for every value of the       *)
(* constants.                                                              *)
THEOREM VehicleInvHolds == VehicleSpec => []VehicleInv
  BY VehicleInvInductive, PTL DEF VehicleSpec

(* Every row a vehicle handler writes is well typed (garage_vehicle.go).   *)
THEOREM VehicleTypeCorrect == VehicleSpec => []VehicleTypeOK
  <1>1. VehicleInv => VehicleTypeOK
    BY DEF VehicleInv
  <1> QED
    BY <1>1, VehicleInvHolds, PTL

(* No interleaving of two garages' owners files a revision under the wrong *)
(* garage's vehicle (garage_vehicle.go, AppendGarageVehicleRevision).      *)
THEOREM VehiclesStayInTheirGarage == VehicleSpec => []RevisionsNameTheirGarage
  <1>1. VehicleInv => RevisionsNameTheirGarage
    BY DEF VehicleInv
  <1> QED
    BY <1>1, VehicleInvHolds, PTL

(* The row of a vehicle and its history never disagree                     *)
(* (garage_vehicle.go, AppendGarageVehicleRevision).                       *)
THEOREM VehicleRowsMirror == VehicleSpec => []VehicleRowMirrorsNewest
  <1>1. VehicleInv => VehicleRowMirrorsNewest
    BY DEF VehicleInv
  <1> QED
    BY <1>1, VehicleInvHolds, PTL

(* Authority is read once and may be gone when the revision is written,    *)
(* but nobody signs a vehicle revision who never was an owner              *)
(* (garage_vehicles.go, requireAcceptedGarageOwner).                       *)
THEOREM VehicleSignersWere == VehicleSpec => []VehicleSignersWereOwners
  <1>1. VehicleInv => VehicleSignersWereOwners
    BY DEF VehicleInv
  <1> QED
    BY <1>1, VehicleInvHolds, PTL

(* While a user is not an accepted owner, none of their requests is let in.*)
LEMMA AuthorityStays ==
  ASSUME VehicleTypeOK, [VehicleNext]_allVars, NEW g \in Garages, NEW u \in Users,
         ~IsAcceptedOwner(g, u)
  PROVE  PastAuthority(g, u)' \subseteq PastAuthority(g, u)
  <1> SUFFICES ASSUME NEW s \in VehicleRequests,
                      serving'[s].op \in {"create", "edit", "edit_found"},
                      serving'[s].garage = g, serving'[s].user = u
               PROVE  s \in PastAuthority(g, u)
    BY DEF PastAuthority
  <1>1. CASE serving'[s] = serving[s]
    BY <1>1 DEF PastAuthority
  <1>2. ASSUME NEW z \in VehicleRequests, NEW w \in Users, NEW h \in Garages,
               AuthorizeVehicleCreate(z, w, h), serving'[s] # serving[s]
        PROVE  FALSE
    <2>1. serving'[s] = [op |-> "create", user |-> w, garage |-> h]
      BY <1>2 DEF AuthorizeVehicleCreate, Serve, VehicleTypeOK
    <2> QED
      BY <1>2, <2>1 DEF AuthorizeVehicleCreate, VehicleAuthority
  <1>3. ASSUME NEW z \in VehicleRequests, NEW w \in Users, NEW h \in Garages,
               NEW v \in Vehicles, AuthorizeVehicleRevision(z, w, h, v),
               serving'[s] # serving[s]
        PROVE  FALSE
    <2>1. serving'[s] = [op |-> "edit", user |-> w, garage |-> h, vehicle |-> v]
      BY <1>3 DEF AuthorizeVehicleRevision, Serve, VehicleTypeOK
    <2> QED
      BY <1>3, <2>1 DEF AuthorizeVehicleRevision, VehicleAuthority
  <1>4. ASSUME NEW z \in VehicleRequests, PrecheckVehicle(z), serving'[s] # serving[s]
        PROVE  s \in PastAuthority(g, u)
    <2>1. /\ serving[s].op = "edit"
          /\ serving'[s] = [serving[s] EXCEPT !.op = "edit_found"]
      BY <1>4 DEF PrecheckVehicle, Serve, VehicleTypeOK
    <2>2. serving'[s].garage = serving[s].garage /\ serving'[s].user = serving[s].user
      BY <2>1, ServingFields
    <2> QED
      BY <2>1, <2>2 DEF PastAuthority
  <1>5. ASSUME NEW z \in VehicleRequests, NEW n \in VehicleVersions,
               AppendGarageVehicleRevision(z, n), serving'[s] # serving[s]
        PROVE  FALSE
    BY <1>5 DEF AppendGarageVehicleRevision, Serve, VehicleTypeOK
  <1>6. ASSUME NEW z \in VehicleRequests, Serve(z, Idle), serving'[s] # serving[s]
        PROVE  FALSE
    BY <1>6 DEF Serve, VehicleTypeOK, Idle
  <1> QED
    BY <1>1, <1>2, <1>3, <1>4, <1>5, <1>6
    DEF VehicleNext, allVars, vehicleVars, CreateGarageVehicle, ReloadVehicle,
        RejectVehicleRequest

(* A revision is signed by the caller of a request that is over with it.   *)
LEMMA SigningUsesRequest ==
  ASSUME VehicleTypeOK, RevisionsNameTheirGarage, [VehicleNext]_allVars,
         NEW g \in Garages, NEW u \in Users,
         PastAuthority(g, u)' = PastAuthority(g, u)
  PROVE  SignedBy(g, u)' = SignedBy(g, u)
  <1>1. ASSUME NEW s \in VehicleRequests, NEW v \in Vehicles, CreateGarageVehicle(s, v)
        PROVE  SignedBy(g, u)' = SignedBy(g, u)
    <2>1. s \notin PastAuthority(g, u)'
      BY <1>1 DEF PastAuthority, CreateGarageVehicle, Serve, VehicleTypeOK, Idle
    <2>2. ~(serving[s].garage = g /\ serving[s].user = u)
      BY <1>1, <2>1 DEF PastAuthority, CreateGarageVehicle
    <2>3. PICK row : /\ row.garage = serving[s].garage /\ row.signer = serving[s].user
                     /\ vehicleRevisions' = [vehicleRevisions EXCEPT ![v] = {row}]
      BY <1>1 DEF CreateGarageVehicle, FirstRevision
    <2>4. vehicleRevisions[v] = {}
      BY <1>1 DEF CreateGarageVehicle, RevisionsNameTheirGarage
    <2> QED
      BY <2>2, <2>3, <2>4 DEF SignedBy, VehicleTypeOK
  <1>2. ASSUME NEW s \in VehicleRequests, NEW n \in VehicleVersions,
               AppendGarageVehicleRevision(s, n)
        PROVE  SignedBy(g, u)' = SignedBy(g, u)
    <2>1. s \notin PastAuthority(g, u)'
      BY <1>2 DEF PastAuthority, AppendGarageVehicleRevision, Serve, VehicleTypeOK
    <2>2. ~(serving[s].garage = g /\ serving[s].user = u)
      BY <1>2, <2>1 DEF PastAuthority, AppendGarageVehicleRevision
    <2>3. PICK row :
            /\ row.garage = serving[s].garage /\ row.signer = serving[s].user
            /\ vehicleRevisions' =
                 [vehicleRevisions EXCEPT ![serving[s].vehicle] = @ \cup {row}]
      BY <1>2 DEF AppendGarageVehicleRevision
    <2> QED
      BY <2>2, <2>3 DEF SignedBy, VehicleTypeOK
  <1>3. CASE UNCHANGED vehicleRevisions
    BY <1>3 DEF SignedBy
  <1> QED
    BY <1>1, <1>2, <1>3
    DEF VehicleNext, allVars, vehicleVars, AuthorizeVehicleCreate,
        AuthorizeVehicleRevision, PrecheckVehicle, ReloadVehicle,
        RejectVehicleRequest

(* A removed owner signs no more vehicle revisions than had passed the     *)
(* authority check before the removal (garage_vehicles.go,                 *)
(* requireAcceptedGarageOwner).                                            *)
THEOREM RemovalShutsOut == VehicleSpec => RemovedOwnerIsShutOut
  <1>1. VehicleInv /\ [VehicleNext]_allVars =>
          [\A g \in Garages, u \in Users :
             ~IsAcceptedOwner(g, u) =>
               /\ PastAuthority(g, u)' \subseteq PastAuthority(g, u)
               /\ SignedBy(g, u)' # SignedBy(g, u) =>
                    PastAuthority(g, u)' # PastAuthority(g, u)]_allVars
    BY AuthorityStays, SigningUsesRequest DEF VehicleInv
  <1> QED
    BY <1>1, VehicleInvHolds, PTL DEF VehicleSpec, RemovedOwnerIsShutOut

(* Garage vehicles implement the abstract chain of revisions.              *)
THEOREM VehiclesRefineChain == VehicleSpec => VehicleRevisionsFormChain
  <1> DEFINE hd == [v \in Vehicles |->
                     IF vehicles[v] = NoVehicle THEN 0 ELSE vehicles[v].version]
             rec == [v \in Vehicles |-> {rev.version : rev \in vehicleRevisions[v]}]
  <1>1. VehicleInit => VehicleChain!Init
    BY DEF VehicleInit, VehicleChain!Init
  <1>2. VehicleInv /\ [VehicleNext]_allVars => [VehicleChain!Next]_VehicleChain!chainVars
    <2> SUFFICES ASSUME VehicleInv, [VehicleNext]_allVars
                 PROVE  [VehicleChain!Next]_VehicleChain!chainVars
      OBVIOUS
    <2> USE NoVehicleAssumption
    <2>0. VehicleTypeOK /\ ServingWereOwners
      BY DEF VehicleInv
    <2>1. ASSUME NEW v \in Vehicles, NEW g \in Garages, NEW u \in Users, Creates(v, g, u)
          PROVE  VehicleChain!Create(v)
      <3>1. PICK row \in VehicleRow :
              /\ row.version = 1
              /\ vehicles[v] = NoVehicle
              /\ vehicles'[v] = row /\ vehicleRevisions'[v] = {row}
              /\ \A w \in Vehicles \ {v} :
                   /\ vehicles'[w] = vehicles[w]
                   /\ vehicleRevisions'[w] = vehicleRevisions[w]
        BY <2>0, <2>1 DEF Creates, VehicleTypeOK
      <3>2. hd[v] = 0 /\ hd' = [hd EXCEPT ![v] = 1]
        BY <3>1
      <3>3. {rev.version : rev \in vehicleRevisions'[v]} = {1}
        BY <3>1
      <3>4. rec' = [rec EXCEPT ![v] = {1}]
        BY <3>1, <3>3
      <3> QED
        BY <3>2, <3>4 DEF VehicleChain!Create
    <2>2. ASSUME NEW v \in Vehicles, NEW g \in Garages, NEW u \in Users,
                 NEW n \in VehicleVersions, Revises(v, g, u, n)
          PROVE  VehicleChain!Append(v, n)
      <3>1. PICK row \in VehicleRow :
              /\ row.version = n
              /\ vehicles'[v] = row /\ vehicleRevisions'[v] = vehicleRevisions[v] \cup {row}
              /\ \A w \in Vehicles \ {v} :
                   /\ vehicles'[w] = vehicles[w]
                   /\ vehicleRevisions'[w] = vehicleRevisions[w]
        BY <2>0, <2>2 DEF Revises, VehicleTypeOK
      <3>2. vehicles[v] # NoVehicle /\ vehicles[v].version # 0 /\ n > vehicles[v].version
        BY <2>2 DEF Revises, VehicleRow, VehicleVersions
      <3>3. hd[v] # 0 /\ n > hd[v] /\ hd' = [hd EXCEPT ![v] = n]
        BY <3>1, <3>2
      <3>4. {rev.version : rev \in vehicleRevisions'[v]}
              = {rev.version : rev \in vehicleRevisions[v]} \cup {n}
        BY <3>1
      <3>5. rec' = [rec EXCEPT ![v] = @ \cup {n}]
        BY <3>1, <3>4
      <3> QED
        BY <3>3, <3>5 DEF VehicleChain!Append
    <2>3. ASSUME UNCHANGED <<vehicles, vehicleRevisions>>
          PROVE  UNCHANGED VehicleChain!chainVars
      BY <2>3 DEF VehicleChain!chainVars
    <2> QED
      BY <2>0, <2>1, <2>2, <2>3, VehicleWrites
      DEF VehicleChain!Next, VehicleChain!Versions, VehicleVersions
  <1> QED
    BY <1>1, <1>2, VehicleInvHolds, PTL
    DEF VehicleSpec, VehicleRevisionsFormChain, VehicleChain!Spec
=============================================================================
