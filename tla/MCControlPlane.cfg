SPECIFICATION Spec
CONSTANTS
  Operator = operator
  User = user
  Other = other
  Sorted <- Modules
  Stranger = "nosuch"
  Users = {operator, user, other}
  Tray = tray
  Requests <- Asked
  MaxCalls = 3
  Levels = {"healthy", "degraded"}
  Hasty = {user, tray}
  Gens <- Generations
  None = None
INVARIANTS
  AnswersAreTrue
  QuietSnapshotIsExact
  CommandReachesItsModule
  SomeCallProceeds
PROPERTIES
  CallsLookAtomic
