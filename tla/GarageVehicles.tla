--------------------------- MODULE GarageVehicles ---------------------------
(***************************************************************************)
(* The vehicle library of a garage: garage_vehicle.go of                   *)
(* internal/platform/storage behind garage_vehicles.go of                  *)
(* internal/server/api.  The garages themselves are those of module        *)
(* Garage, whose owners keep revising them while vehicle requests are      *)
(* being served.                                                           *)
(*                                                                         *)
(* Creating a vehicle is two Store calls (authority, insert); revising one *)
(* is four (authority, precheck, append, reload), with other requests in   *)
(* between.                                                                *)
(***************************************************************************)
EXTENDS Garage

CONSTANTS
  Vehicles,          \* vehicle ids, chosen by the clients
  MaxVehicleVersion, \* bound: the largest revision_version of a vehicle
  VehicleRequests,   \* slots for vehicle requests that are being served
  NoVehicle          \* marks a vehicle id without a row

ASSUME VehicleAssumptions == MaxVehicleVersion \in Nat \ {0}

VARIABLES
  vehicles,          \* the rows of garage_vehicles
  vehicleRevisions,  \* the rows of garage_vehicle_revisions
  serving            \* the vehicle requests between two Store calls

vehicleVars == <<vehicles, vehicleRevisions, serving>>

allVars == <<vars, vehicleVars>>

VehicleVersions == 1..MaxVehicleVersion

VehicleRow == [garage : Garages, version : VehicleVersions, signer : Users]

ASSUME NoVehicleAssumption == NoVehicle \notin VehicleRow

(* A signed payload: garage_id is part of what is signed.                  *)
VehicleRevision == VehicleRow

VehicleRequest ==
  {Idle}
    \cup [op : {"create"}, user : Users, garage : Garages]
    \cup [op : {"edit", "edit_found"}, user : Users, garage : Garages,
          vehicle : Vehicles]
    \cup [op : {"reload"}, garage : Garages, vehicle : Vehicles,
          version : VehicleVersions]

VehicleTypeOK ==
  /\ TypeOK
  /\ vehicles \in [Vehicles -> VehicleRow \cup {NoVehicle}]
  /\ vehicleRevisions \in [Vehicles -> SUBSET VehicleRevision]
  /\ serving \in [VehicleRequests -> VehicleRequest]

VehicleInit ==
  /\ Init
  /\ vehicles = [v \in Vehicles |-> NoVehicle]
  /\ vehicleRevisions = [v \in Vehicles |-> {}]
  /\ serving = [s \in VehicleRequests |-> Idle]

Serve(s, q) == serving' = [serving EXCEPT ![s] = q]

-----------------------------------------------------------------------------

AnyOwnerRow(u, g) == owners[g][u] # NoOwner

AnyOwnerMayEdit(u, g) == \E h \in Garages : IsAcceptedOwner(h, u)

(* requireAcceptedGarageOwner for the garage of the request path.          *)
VehicleAuthority(u, g) == IsAcceptedOwner(g, u)

AuthorizeVehicleCreate(s, u, g) ==
  /\ serving[s] = Idle
  /\ VehicleAuthority(u, g)
  /\ Serve(s, [op |-> "create", user |-> u, garage |-> g])
  /\ UNCHANGED <<vars, vehicles, vehicleRevisions>>

ZerothRevision(q) == [garage |-> q.garage, version |-> 0, signer |-> q.user]

FirstRevision(q) == [garage |-> q.garage, version |-> 1, signer |-> q.user]

(* The id is the primary key of all garages' vehicles together; the row and*)
(* its revision 1 are one transaction.                                     *)
CreateGarageVehicle(s, v) ==
  LET q == serving[s] IN
  /\ q.op = "create"
  /\ vehicles[v] = NoVehicle
  /\ vehicles' = [vehicles EXCEPT ![v] = FirstRevision(q)]
  /\ vehicleRevisions' = [vehicleRevisions EXCEPT ![v] = {FirstRevision(q)}]
  /\ Serve(s, Idle)
  /\ UNCHANGED vars

AuthorizeVehicleRevision(s, u, g, v) ==
  /\ serving[s] = Idle
  /\ VehicleAuthority(u, g)
  /\ Serve(s, [op |-> "edit", user |-> u, garage |-> g, vehicle |-> v])
  /\ UNCHANGED <<vars, vehicles, vehicleRevisions>>

VehicleExists(v, g) == vehicles[v] # NoVehicle

(* Lookups and updates are scoped by (id, garage_id).                      *)
InGarage(v, g) ==
  /\ vehicles[v] # NoVehicle
  /\ vehicles[v].garage = g

(* GarageVehicleByID before the body is parsed.                            *)
PrecheckVehicle(s) ==
  LET q == serving[s] IN
  /\ q.op = "edit"
  /\ InGarage(q.vehicle, q.garage)
  /\ Serve(s, [q EXCEPT !.op = "edit_found"])
  /\ UNCHANGED <<vars, vehicles, vehicleRevisions>>

AppendAnyFreshVersion(v, n) ==
  \A rev \in vehicleRevisions[v] : rev.version # n

(* The SELECT, the UNIQUE (garage_vehicle_id, revision_version) and the    *)
(* conditional UPDATE of one transaction.                                  *)
AdvancesVehicle(v, n) ==
  /\ n > vehicles[v].version
  /\ \A rev \in vehicleRevisions[v] : rev.version # n

HeadKeepsSigner(row, rev) == [row EXCEPT !.version = rev.version]

(* The UPDATE copies the new payload and its signer into the row, and      *)
(* leaves garage_id alone.                                                 *)
VehicleHeadAfter(row, rev) ==
  [row EXCEPT !.version = rev.version, !.signer = rev.signer]

AppendGarageVehicleRevision(s, n) ==
  LET q == serving[s]
      rev == [garage |-> q.garage, version |-> n, signer |-> q.user]
  IN
  /\ q.op = "edit_found"
  /\ InGarage(q.vehicle, q.garage)
  /\ AdvancesVehicle(q.vehicle, n)
  /\ vehicleRevisions' = [vehicleRevisions EXCEPT ![q.vehicle] = @ \cup {rev}]
  /\ vehicles' = [vehicles EXCEPT ![q.vehicle] = VehicleHeadAfter(@, rev)]
  /\ Serve(s, [op |-> "reload", garage |-> q.garage, vehicle |-> q.vehicle,
               version |-> n])
  /\ UNCHANGED vars

(* The response is assembled from the row as it is by now.                 *)
ReloadVehicle(s) ==
  /\ serving[s].op = "reload"
  /\ Serve(s, Idle)
  /\ UNCHANGED <<vars, vehicles, vehicleRevisions>>

(* Not found, a payload that does not match the path or the caller, a bad  *)
(* signature, a version conflict, an id in use, a failing database.        *)
RejectVehicleRequest(s) ==
  /\ serving[s].op \in {"create", "edit", "edit_found"}
  /\ Serve(s, Idle)
  /\ UNCHANGED <<vars, vehicles, vehicleRevisions>>

VehicleNext ==
  \/ Next /\ UNCHANGED vehicleVars
  \/ \E s \in VehicleRequests, u \in Users, g \in Garages :
       AuthorizeVehicleCreate(s, u, g)
  \/ \E s \in VehicleRequests, v \in Vehicles : CreateGarageVehicle(s, v)
  \/ \E s \in VehicleRequests, u \in Users, g \in Garages, v \in Vehicles :
       AuthorizeVehicleRevision(s, u, g, v)
  \/ \E s \in VehicleRequests : PrecheckVehicle(s)
  \/ \E s \in VehicleRequests, n \in VehicleVersions :
       AppendGarageVehicleRevision(s, n)
  \/ \E s \in VehicleRequests : ReloadVehicle(s)
  \/ \E s \in VehicleRequests : RejectVehicleRequest(s)

VehicleSpec == VehicleInit /\ [][VehicleNext]_allVars

-----------------------------------------------------------------------------

(* A vehicle belongs to one garage: no revision of it, however the requests*)
(* of two garages' owners interleave, was signed for another garage        *)
(* (garage_vehicle.go, "doesn't silently mutate a row in the right vehicle *)
(* id but the wrong garage").                                              *)
RevisionsNameTheirGarage ==
  \A v \in Vehicles : \A rev \in vehicleRevisions[v] :
    vehicles[v] # NoVehicle /\ vehicles[v].garage = rev.garage

(* The row of a vehicle repeats its newest revision, signer included; the  *)
(* row and the history are written by different statements.                *)
VehicleRowMirrorsNewest ==
  \A v \in Vehicles :
    vehicles[v] # NoVehicle =>
      /\ vehicles[v] \in vehicleRevisions[v]
      /\ \A rev \in vehicleRevisions[v] : rev.version <= vehicles[v].version

WasOwner(g, u) ==
  \/ \E n \in Versions : <<u, n>> \in acceptances[g]
  \/ \E i \in Invites : /\ invites[i] # NoInvite
                        /\ invites[i].garage = g
                        /\ u \in redemptions[i]
  \/ \E rev \in revisions[g] : u \in rev.accepted

(* Whoever signed a vehicle revision has, on file in that garage, what once*)
(* made them an accepted owner: an acceptance, a redeemed invite, or a     *)
(* signed garage revision listing them.  They may have been removed since  *)
(* (garage_vehicles.go, requireAcceptedGarageOwner).                       *)
VehicleSignersWereOwners ==
  \A v \in Vehicles : \A rev \in vehicleRevisions[v] :
    WasOwner(rev.garage, rev.signer)

(* The requests of a user for a garage that may still write.               *)
PastAuthority(g, u) ==
  {s \in VehicleRequests : /\ serving[s].op \in {"create", "edit", "edit_found"}
                           /\ serving[s].garage = g
                           /\ serving[s].user = u}

SignedBy(g, u) ==
  [v \in Vehicles |->
    {rev \in vehicleRevisions[v] : rev.garage = g /\ rev.signer = u}]

(* Who is not, or no longer, an accepted owner of a garage writes no more  *)
(* vehicle revisions there than were on their way: none of their requests  *)
(* passes the authority check, and every revision they sign uses up one    *)
(* that had passed it, while owners are removed and invited again between  *)
(* its Store calls (garage_vehicles.go, handleGarageVehicleRevisionAppend).*)
RemovedOwnerIsShutOut ==
  [][\A g \in Garages, u \in Users :
       ~IsAcceptedOwner(g, u) =>
         /\ PastAuthority(g, u)' \subseteq PastAuthority(g, u)
         /\ SignedBy(g, u)' # SignedBy(g, u) =>
              PastAuthority(g, u)' # PastAuthority(g, u)]_allVars

(* Vehicles implement the abstract chain of signed revisions.              *)
VehicleChain ==
  INSTANCE RevisionChain
    WITH Chains <- Vehicles,
         MaxVersion <- MaxVehicleVersion,
         head <- [v \in Vehicles |->
                   IF vehicles[v] = NoVehicle THEN 0 ELSE vehicles[v].version],
         recorded <- [v \in Vehicles |->
                       {rev.version : rev \in vehicleRevisions[v]}]

VehicleRevisionsFormChain == VehicleChain!Spec

-----------------------------------------------------------------------------
(* What makes the invariants above inductive: the caller of a request that *)
(* may still write was an accepted owner when the request was let in.      *)
ServingWereOwners ==
  \A s \in VehicleRequests :
    serving[s].op \in {"create", "edit", "edit_found"} =>
      WasOwner(serving[s].garage, serving[s].user)

VehicleInv ==
  /\ GarageInv
  /\ OwnersAreAccountedFor
  /\ VehicleTypeOK
  /\ RevisionsNameTheirGarage
  /\ VehicleRowMirrorsNewest
  /\ ServingWereOwners
  /\ VehicleSignersWereOwners
=============================================================================
