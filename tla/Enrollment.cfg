SPECIFICATION FairSpec
CONSTANTS
  Enrollments = {e1, e2}
  Mints = {m1, m2}
  BootInvites = {b1, b2}
  CliInvites = {c1}
  UserInvites = {n1, n2}
  Policies = {"any-user", "admin-only", "denied"}
  Cap = 1
  Lifetimes = {2}
  BootLifetime = 2
  MaxTime = 3
  MaxStarts = 2
  NoInvite = NoInvite
  NoUser = NoUser
INVARIANTS
  EachInviteAdmitsOne
  OutstandingWithinCap
  AdminMintsAlone
PROPERTIES
  StartupLeavesAnInvite
CHECK_DEADLOCK FALSE
