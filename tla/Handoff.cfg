SPECIFICATION FairSpec
CONSTANTS
    r1 = r1
    r2 = r2
    Children = {r1, r2}
    Earlier <- LeftBehind
    Shares <- Drifting
    Limit = 100
    Never = Never
    MaxEvents = 2
INVARIANT WritesNeverOverlap
INVARIANT OutputsOverlapOnlyDrift
INVARIANT HoldCoversHandoff
PROPERTY Converges
