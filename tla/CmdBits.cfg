SPECIFICATION FairSpec
CONSTANTS
    Pcs = {p1}
    Bits = {en, clr, own}
    Owned = {en, clr}
    En = en
    Trigger = clr
    NoCommand = NoCommand
    MaxMissed = 2
    MaxFaults = 1
    MaxOutages = 1
    MaxLocks = 1
    MaxReconciles = 1
INVARIANT DeviceHoldsWhatWasAsked
PROPERTY ResumesOnlyOnEnable
PROPERTY OnlyTheCircleBlocks
CHECK_DEADLOCK FALSE
