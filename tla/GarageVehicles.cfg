SPECIFICATION VehicleSpec
CONSTANTS
  Users = {u1, u2}
  Garages = {g1, g2}
  Invites = {}
  Requests = {r1}
  MaxVersion = 2
  MaxVehicleVersion = 3
  RedemptionLimits = {1}
  NoInvite = NoInvite
  Vehicles = {v1}
  VehicleRequests = {s1, s2}
  NoVehicle = NoVehicle
SYMMETRY Symmetry
INVARIANTS
  VehicleTypeOK
  RevisionsNameTheirGarage
  VehicleRowMirrorsNewest
  VehicleSignersWereOwners
PROPERTIES
  
  VehicleRevisionsFormChain
CHECK_DEADLOCK FALSE
