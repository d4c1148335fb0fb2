SPECIFICATION FairSpec
CONSTANTS
  c1 = c1
  NoOne = NoOne
  Commands = {c1}
  Kinds = {"connect", "disconnect", "rotate"}
  MaxTurns = 0
CHECK_DEADLOCK FALSE
INVARIANT TunnelDownAfterStop
