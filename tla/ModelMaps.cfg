SPECIFICATION Spec
CONSTANTS
    Callers = {"plant", "beat"}
    Kind <- MCKind
    Wants <- MCWants
    Bases <- MCBases
    Layouts <- MCLayouts
    Ids = {"inv", "ctl"}
    Lens = {1}
    Top = 11
    NoMap = NoMap
    MaxReboots = 1
INVARIANT WritesOnTarget
PROPERTY RequestsEnd
