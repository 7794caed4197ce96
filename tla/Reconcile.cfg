SPECIFICATION FairSpec
CONSTANTS
    small = small
    large = large
    mtls = mtls
    loop = loop
    extra = extra
    t1 = t1
    t2 = t2
    NoSpec = NoSpec
    Beacon = Beacon
    Specs = {small, large, mtls}
    Aligned = {small, large}
    Tasks = {loop, extra}
    TasksOf <- MCTasksOf
    Pollers = {extra}
    Topics = {Beacon, t1, t2}
    InputsOf <- MCInputsOf
    MaxChanges = 2
    MaxOutages = 1
    MaxFailures = 1
    MaxRefusals = 1
    MaxOverruns = 1
    MaxShutdowns = 1
INVARIANT TasksMatchDevices
INVARIANT MixedViewIsConfined
INVARIANT BehindIsTemporary
INVARIANT InputsHeardUnlessShaky
PROPERTY TopologyFollowed
PROPERTY ShutdownEnds
