---------------------------- MODULE MCTelemetry ----------------------------
(* Telemetry over JourneyVehicles for TLC: users, vehicles, requests and   *)
(* uploads are interchangeable.                                            *)
EXTENDS Telemetry, TLC

Symmetry ==
  Permutations(Users) \cup Permutations(Vehicles) \cup Permutations(Requests)
    \cup Permutations(Uploads)

(* Vehicles and telemetry share the journeys and their participants, and   *)
(* neither reads what the other writes: a behaviour has one or the other.  *)
OneConcernAtATime ==
  \/ \A v \in Vehicles : vehicles[v] = NoVehicle
  \/ /\ \A p \in Uploads : uploads[p] = Idle
     /\ \A k \in BatchKeys : batches[k] = 0
=============================================================================
