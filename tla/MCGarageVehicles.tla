-------------------------- MODULE MCGarageVehicles --------------------------
(* GarageVehicles for TLC: users, garages and slots are interchangeable.   *)
EXTENDS GarageVehicles, TLC

Symmetry ==
  Permutations(Users) \cup Permutations(Garages) \cup Permutations(VehicleRequests)
=============================================================================
