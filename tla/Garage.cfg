SPECIFICATION Spec
CONSTANTS
  Users = {u1, u2}
  Garages = {g1}
  Invites = {i1}
  Requests = {r1, r2}
  MaxVersion = 4
  RedemptionLimits = {1, 2}
  NoInvite = NoInvite
SYMMETRY Symmetry
INVARIANTS
  TypeOK
  HeadIsNewestRevision
  HeadSignerIsAcceptedOwner
  AcceptanceSettlesInvitation
  OwnersAreAccountedFor
  RedemptionsAreCounted
PROPERTIES
  AcceptedNeverReset
  RevisionsFormChain
  EntryNeedsFreshGrant
CHECK_DEADLOCK FALSE
