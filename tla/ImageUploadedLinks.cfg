CONSTANTS
  d1 = d1  d2 = d2  s1 = s1  s2 = s2
  Docs <- MCDocs
  Images = {i1, i2}
  Savers <- MCSavers
  LinkKinds = {"key"}
  CleanupLimit = 1
  Modes <- MCNothingElse
SPECIFICATION Spec
INVARIANT OrphansAreUnlinked
CHECK_DEADLOCK FALSE
