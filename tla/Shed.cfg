SPECIFICATION ShedFairSpec
CONSTANTS
    Gpus = {g1, g2}
    MinCap = 1
    MaxCap = 4
    ImportLimit = 6
    ExportLimit = 3
    Margin = 2
    Ramp = 3
    DwellReadings = 2
    Bases <- MCBases
    OperatorCaps = {2, 4}
    Lockable = {g1}
    Earlier <- MCEarlier
    None = None
    MaxEvents = 3
INVARIANT UnderOperatorCap
PROPERTY EnvelopeHeld
PROPERTY CapsRestored
