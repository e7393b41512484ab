SPECIFICATION Spec
CONSTANTS
    w1 = w1
    w2 = w2
    i1 = i1
    i2 = i2
    Workers = {w1}
    Incidents = {i1}
    Urgent = {i1}
    Channels = {"slack"}
    FailureThreshold = 1
    HalfOpenAllowance = 1
    ProbeBase = 1
    ProbeMax = 2
    MaxAttempts = 2
    BackoffMax = 1
    ParkDelay = 1
    LeaseTicks = 1
    BatchSize = 2
    CallTicks = 0
    Hints = {0}
    MaxVersion = 2
    MaxFaults = 3
    MaxCrashes = 1
PROPERTIES
    EveryChangeIsShown
