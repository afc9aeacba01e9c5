SPECIFICATION Spec
CONSTANTS
  Admins = {a1, a2}
  User = u
  None = none
  Requests = {r1, r2}
  RoleLists = {{"super_admin"}, {"support"}, {"super_admin", "finance"}, {"finance", "support"}}
  MaxSecrets = 2
  MaxRequests = 3
  MaxFaults = 1
SYMMETRY MCSymmetry
INVARIANTS AuditIsComplete WalletIsBacked ClosedAtMatches
  SuperAdminRemains RolesWereAsked
CHECK_DEADLOCK FALSE
