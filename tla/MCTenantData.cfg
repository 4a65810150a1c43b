CONSTANTS
  north = north  south = south
  ann = ann  bob = bob
  rb1 = rb1  rb2 = rb2
  None = None
  Names = {north, south}
  Users = {ann, bob}
  Words = {"ann", "bob", "example.org"}
  Email <- MCEmail
  Mentions <- MCMentions
  Sent <- MCSent
  Admins = {bob}
  InsertsFail = TRUE
  Alerts = {rb1, rb2}
  Title <- MCTitle
  BatchLimit = 1
  PageLimit = 1
  SeededUsers = {ann}
  SystemNames = {north}
  DemoName = north
  DemoDocs = {north, south}
  Clients = {c1, c2, c3}
  Scenarios <- MCScenarios
SPECIFICATION Spec
SYMMETRY Symmetry
INVARIANTS
  TablesOK ShownOnce ReadsAreWhole QuietRequests NoticesAreEarned PostsNotifyAll EveryCommentIsListed
  ImportsDoubleNothing ImportsDeliver SeedsComplete
PROPERTIES
  StraysHaveACause SystemTemplatesAreSeeded
CHECK_DEADLOCK FALSE
