CONSTANTS
  Docs = {d1, d2}
  Slugs = {s1, s2}
  Titles = {t1}
  Contents = {c1, c2}
  Requests = {r1, r2}
  MaxVersion = 3
  MayFail = TRUE
SPECIFICATION Spec
SYMMETRY Symmetry
INVARIANTS TypeOK HistoryTruthful HistoryComplete SaveSupersedesWhatItRead HistoryInv
PROPERTY ImplementsVersionedDocuments
CHECK_DEADLOCK FALSE
