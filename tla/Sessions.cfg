SPECIFICATION Spec
CONSTANTS
  Certs = {c1, c2}
  Roots = {k1, k2}
  Journeys = {j1, j2}
  JourneyActions = {read, write}
  OtherActions = {invite}
  Requests = {r1}
  Hints = {0, 9}
  DefaultLifetime = 1
  MaxLifetime = 2
  Attenuations <- SingleCaveats
  MaxGrants = 1
  MaxTime = 3
  MaxStarts = 2
  NoRoot = NoRoot
  NoIdentity = NoIdentity
  NoJourney = NoJourney
  NoGrant = NoGrant
  NoValue = NoValue
SYMMETRY Symmetry
INVARIANTS
  AdmittedWithinGrant
  AttenuationBinds
  RefusalsHaveAReason
  OneActiveRoot
  SignedPayloadsAreGenuine
PROPERTIES
  RevokedCertificateIsShutOut
CHECK_DEADLOCK FALSE
