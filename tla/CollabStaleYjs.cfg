CONSTANTS
  Docs = {d1}
  Slugs = {s1}
  Titles = {t1}
  Contents = {blank, c1, raw}
  Convertible = {blank, c1}
  Blank = blank
  Requests = {r1, r2}
  MaxVersion = 3
  MayFail = FALSE
SPECIFICATION CSpec
INVARIANT ContentInSync
CHECK_DEADLOCK FALSE
