CONSTANTS
  q1 = q1
  q2 = q2
  k1 = k1
  k2 = k2
  Queries = {q1, q2}
  Keys = {k1, k2}
  KeyOf <- KeyShared
  Readers = {r1, r2}
  FreshTTL = 2
  StaleTTL = 3
  Timeout = 1
  RedisTimeout = 1
  MaxTime = 6
SPECIFICATION Spec
SYMMETRY Symmetry
INVARIANTS TypeOK AnswersAreRecent CachedAtIsHonest AgeInv KeyInv
CHECK_DEADLOCK FALSE
