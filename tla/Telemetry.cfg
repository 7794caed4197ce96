SPECIFICATION Spec
CONSTANTS
    N = 3
    Period <- MCPeriod
    Resource <- MCResource
    Soc = 3
    State = 2
    Derived = {4, 5}
    Inputs <- MCInputs
    Totals = {5}
    StaleFloor = 1
    MissedPolls = 1
    NoLimit = NoLimit
    Oldest <- MCOldest
    None = None
    StaleAfter = 2
    MaxRead = 1
    MaxBusy = 1
    MaxQueued = 2
    MaxWrite = 1
    MaxAge = 10
    MaxEvents = 2
INVARIANT NothingStaleIsPublished
INVARIANT EveryPointPolled
INVARIANT ReserveKept
