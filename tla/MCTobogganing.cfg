SPECIFICATION FairSpec
CONSTANTS
  c1 = c1
  NoOne = NoOne
  Commands = {c1}
  Kinds = {"connect", "disconnect", "rotate", "status"}
  MaxTurns = 1
CHECK_DEADLOCK FALSE
INVARIANTS
  StoredTokenWorks
PROPERTIES
  StopReturns
  TunnelComesUp
  HealthFollows
