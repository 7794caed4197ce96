SPECIFICATION EnvelopeSpec
CONSTANTS
    PowerMax = 200
    PowerMin <- MCPowerMin
    RampPercent = 10
    MarginPercent = 5
    Dwell = 3
    RechargePower = 12
    Far = 10000
    Lags = {3}
    StaleAfter = 2
    Loads = {0, 56}
    ImportLimits = {0, 230}
    ExportLimits = {0, 10000}
    Requests <- MCRequests
    Capacities = {0, 200}
    Short = 20
    Settling = 40
    MaxLate = 2
    MaxMoves = 2
    MaxFaults = 1
INVARIANT NoOvershootWhenCalm
PROPERTY StepWithinMeterError
INVARIANT LimitsHeld
INVARIANT RequestFollowed
INVARIANT SilenceStopsModule
