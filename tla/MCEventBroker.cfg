CONSTANTS
    tray = tray
    cli = cli
    squawk = squawk
    tobogganing = tobogganing
    Clients = {tray, cli}
    Publishers = {squawk, tobogganing}
    Filter <- MCFilter
    Cap = 1
    MaxEvents <- MCEvents
    SharedBroker = TRUE
SPECIFICATION FairSpec
CHECK_DEADLOCK FALSE
INVARIANTS
    NoSendOnClosed
    OrderedPerModule
    NothingVanishes
PROPERTIES
    EventsReachWatchers
    NobodyIsStuck
