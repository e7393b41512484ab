SPECIFICATION SafetySpec
CONSTANTS
    w1 = w1
    w2 = w2
    i1 = i1
    i2 = i2
    Workers = {w1, w2}
    Incidents = {i1, i2}
    Urgent = {}
    Channels = {"slack", "pagerduty"}
    FailureThreshold = 1
    HalfOpenAllowance = 1
    ProbeBase = 1
    ProbeMax = 2
    MaxAttempts = 2
    BackoffMax = 1
    ParkDelay = 1
    LeaseTicks = 2
    BatchSize = 3
    CallTicks = 1
    Hints = {0}
    MaxVersion = 1
    MaxFaults = 0
    MaxCrashes = 0
INVARIANT
    NeverSentTwice
