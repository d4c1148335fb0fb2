SPECIFICATION FairSpec
CONSTANTS
  d1 = d1
  d2 = d2
  cli = cli
  tray = tray
  NoOne = NoOne
  Processes = {d1, d2}
  Loaders = {cli}
  Watchers = {tray}
  StateDir <- SharedDir
  Path <- SharedPath
  ConfigPath <- SharedPath
  Terminals = {d1}
INVARIANTS
  SingleDaemon
  SocketReachable
  ExitRestores
PROPERTY StopCompletes
