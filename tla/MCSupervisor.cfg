\* One module, three restart goroutines: every race between them, and progress.
CONSTANTS
    squawk = squawk
    tobogganing = tobogganing
    retired = retired
    g1 = g1
    g2 = g2
    g3 = g3
    Names = {squawk, retired}
    Registered = {squawk}
    Licensed = {squawk}
    Timers = {g1, g2, g3}
    MaxRestarts = 3
    AttemptBound = 4
    Faults = {"denied", "initFail", "startFail", "saveFail", "unreadable", "crash"}
SPECIFICATION FairSpec
INVARIANTS
    Accounted
    Supervised
    EventsAgreeWithList
    CommandsAreKept
PROPERTIES
    ImplementsLifecycle
    DegradedIsResolved
    PhasesComplete
