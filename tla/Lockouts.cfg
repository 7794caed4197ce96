SPECIFICATION FairSpec
CONSTANTS
    module = module
    rack = rack
    Devices <- MCDevices
    LockSets <- MCLockSets
    MaxFailures = 1
    MaxOutages = 1
    MaxOverruns = 1
    MaxChanges = 3
    MaxStream = 2
INVARIANT StaleIsTemporary
PROPERTY LocksEnforcedUnlessMissed
