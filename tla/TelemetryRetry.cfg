SPECIFICATION TelemetrySpec
CONSTANTS
  Users = {u1, u2}
  Journeys = {j1}
  Vehicles = {v1}
  Requests = {}
  MaxRevision = 1
  MaxACL = 1
  MaxTime = 1
  DriverLists = {{}}
  EmergencyRules = {FALSE}
  NoVehicle = NoVehicle
  Uploads = {p1}
  Batches = {b1}
  MaxCopies = 2
SYMMETRY Symmetry
INVARIANTS
  RetryIsNotRecordedAgain
CHECK_DEADLOCK FALSE
