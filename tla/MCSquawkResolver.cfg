SPECIFICATION Spec
CONSTANTS
  OperatorDns <- OperatorFiles
  MaxCrashes = 3
  MaxFaults = 2
  MaxEdits = 2
CHECK_DEADLOCK FALSE
INVARIANTS
  ServersRestored
  OriginalKept
  Recoverable
