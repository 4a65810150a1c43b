CONSTANTS
  Requests = {r1, r2}
  v1 = v1
  Values = {v1}
  Unset = unset
  People = {ann}
  admins = admins  staff = staff  others = others
  Claims <- MCClaims
  ClaimRoles = {"engineer"}
  GroupConfig <- MCGroupConfig
  Disabled = disabled
  None = none
  MaxVisits = 5
SPECIFICATION AccessSpec
SYMMETRY Symmetry
INVARIANTS OnlyOverlapLoses RolesFollowConfig RolesWereGranted AccessInv
CHECK_DEADLOCK FALSE
