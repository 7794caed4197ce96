SPECIFICATION FairSpec
CONSTANTS
    m1 = m1
    m2 = m2
    None = None
    Modules = {m1, m2}
    Values = {0, 1}
    Lockable = {m1}
    MaxEvents = 4
    MaxOperator = 1
    MaxLocks = 1
    MaxFaults = 2
INVARIANT NoTraceUnlessRefused
INVARIANT ChoiceComesBack
PROPERTY ReleaseEnds
