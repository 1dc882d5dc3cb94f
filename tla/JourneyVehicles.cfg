SPECIFICATION TelemetrySpec
CONSTANTS
  Users = {u1, u2}
  Journeys = {j1}
  Vehicles = {v1, v2}
  Requests = {r1, r2}
  MaxRevision = 3
  MaxACL = 3
  MaxTime = 1
  DriverLists = {{}}
  EmergencyRules = {FALSE}
  NoVehicle = NoVehicle
  Uploads = {p1, p2}
  Batches = {b1}
  MaxCopies = 2
CONSTRAINT OneConcernAtATime
SYMMETRY Symmetry
INVARIANTS
  TypeOK
  OnlyOwnerPublishes
PROPERTIES
  DepartedOwnersVehicleIsFrozen
  HistoriesFormChains
  DepartedUploaderIsShutOut
CHECK_DEADLOCK FALSE
