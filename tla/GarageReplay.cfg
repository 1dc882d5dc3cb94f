SPECIFICATION Spec
CONSTANTS
  Users = {u1, u2}
  Garages = {g1}
  Invites = {i1}
  Requests = {r1, r2}
  MaxVersion = 2
  RedemptionLimits = {1}
  NoInvite = NoInvite
SYMMETRY Symmetry
INVARIANTS
  ReplayLookupHits
CHECK_DEADLOCK FALSE
