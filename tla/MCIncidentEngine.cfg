SPECIFICATION SafetySpec
SYMMETRY Symmetry
CONSTANTS
    k1 = k1
    i1 = i1
    i2 = i2
    c1 = c1
    Keys = {k1}
    Ids = {i1, i2}
    InboundIds = {c1}
    Gaps = {0, 2}
    InitialWindow = 1
    QuietMax = 2
    BatchSpan = 2
    SilenceMultiplier = 1
    CriticalStretch = 2
    SilenceFloor = 2
    SilenceCeiling = 3
    HysteresisNum = 3
    HysteresisDen = 2
    HysteresisMax = 1
    FlapThreshold = 1
    DigestInterval = 2
    MaxTime = 5
    AlertHorizon = 4
    MaxAlerts = 3
    MaxCrashes = 1
    MaxTimerFailures = 0
    PollLag = 2
INVARIANTS
    TypeOK
    TimerArmed
    NoStaleTimer
    DeadlineWithinBudget
    OneIncidentPerIdentity
    SlackCardCurrent
    PagerHearsEveryClose
    AppliedAtMostOnce
PROPERTIES
    SweptOnlyWhenSilent
    LifecycleSpec
CHECK_DEADLOCK FALSE
