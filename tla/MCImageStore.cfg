CONSTANTS
  d1 = d1  d2 = d2  s1 = s1  s2 = s2
  Docs <- MCDocs
  Images = {i1, i2}
  Savers <- MCSavers
  LinkKinds = {"id"}
  CleanupLimit = 2
  Modes <- MCModes
SPECIFICATION FairSpec
INVARIANTS ReferencesFollowContent TypeOK YoungImagesHaveFiles
PROPERTY ListedOrphansAreReclaimed
CHECK_DEADLOCK FALSE
