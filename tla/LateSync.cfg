SPECIFICATION AttestationSpec
CONSTANTS
  Users = {u1, u2}
  Journeys = {j1}
  Vehicles = {v1}
  Requests = {r1}
  MaxRevision = 1
  MaxACL = 2
  MaxTime = 2
  DriverLists <- NobodyOrEverybody
  EmergencyRules = {TRUE, FALSE}
  NoVehicle = NoVehicle
  Deliveries = {d1, d2}
  Readers = {}
  HandoffTimes = {1}
  Priors = {}
  NoPrior = NoPrior
SYMMETRY Symmetry
INVARIANTS
  LateSyncStaysAuthorized
CHECK_DEADLOCK FALSE
