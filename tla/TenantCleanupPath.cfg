CONSTANTS
  Requests = {r1}
  Tenants = {t1, t2}
  Conns = {c1, c2}
  Default = default
  None = none
SPECIFICATION FairSpec
PROPERTY EveryTenantIsCleaned
CHECK_DEADLOCK FALSE
