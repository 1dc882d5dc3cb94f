SPECIFICATION AttestationSpec
CONSTANTS
  Users = {u1, u2}
  Journeys = {j1}
  Vehicles = {v1}
  Requests = {r1}
  MaxRevision = 1
  MaxACL = 2
  MaxTime = 2
  DriverLists <- NobodyOrEverybody
  EmergencyRules = {TRUE, FALSE}
  NoVehicle = NoVehicle
  Deliveries = {d1, d2}
  Readers = {g1}
  HandoffTimes = {1}
  Priors = {h1}
  NoPrior = NoPrior
CONSTRAINT ForksOrTrust
SYMMETRY Symmetry
INVARIANTS
  TrustIsJustified
  AnswersComeFromStore
  ForksAreNoticed
PROPERTIES
  RecordedIsFinal
CHECK_DEADLOCK FALSE
