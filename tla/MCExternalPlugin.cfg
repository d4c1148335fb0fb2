SPECIFICATION Spec
CONSTANTS
  Releases = {1, 2}
  Trusted = {1}
  Values = {0, 8}
  Limit = 4
  MaxWrites = 2
  MaxProcs = 2
INVARIANTS
  LoadedIsRelease
  GateHolds
  RunningIsStarted
  OneStarted
  ToldIsSaid
