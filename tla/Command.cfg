SPECIFICATION FairSpec
CONSTANTS
    module = module
    rack1 = rack1
    rack2 = rack2
    forwarder = forwarder
    site = site
    NoRequest = NoRequest
    Devices <- MCDevices
    Callers = {forwarder, site}
    Sends <- MCSends
    Distribute = {module}
    Guarded = {}
    PowerCap = {}
    Children <- MCChildren
    LockSets <- MCLockSets
    Values = {0, 1}
    MaxFaults = 1
INVARIANT CommandsSkipLocked
PROPERTY LockTakesEffect
PROPERTY LoopsLeaveLocked
PROPERTY Settles
PROPERTY AtomicRequests
