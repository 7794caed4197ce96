SPECIFICATION FairSpec
CONSTANTS
    Pcs = {p1}
    Bits = {en, clr, own}
    Owned = {en, clr}
    En = en
    Trigger = clr
    NoCommand = NoCommand
    MaxMissed = 2
    MaxFaults = 0
    MaxOutages = 0
    MaxLocks = 1
    MaxReconciles = 0
PROPERTY BeatsEnd
CHECK_DEADLOCK FALSE
