CONSTANTS
    tray = tray
    cli = cli
    squawk = squawk
    tobogganing = tobogganing
    Clients = {tray}
    Publishers = {squawk, tobogganing}
    Filter <- MCFilter
    Cap = 1
    MaxEvents <- MCEvents
    SharedBroker = FALSE
SPECIFICATION FairSpec
CHECK_DEADLOCK FALSE
PROPERTY EventsReachWatchers
