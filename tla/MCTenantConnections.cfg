CONSTANTS
  Requests = {r1, r2}
  Tenants = {t1, t2}
  Conns = {c1, c2, c3}
  Default = default
  None = none
SPECIFICATION FairSpec
INVARIANTS TypeOK OwnSchema IsolationInv
PROPERTY EveryRequestEnds
CHECK_DEADLOCK FALSE
