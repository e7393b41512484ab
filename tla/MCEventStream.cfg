SPECIFICATION Spec
CONSTANTS
    i1 = i1
    i2 = i2
    Incidents = {i1, i2}
    DeltaLimit = 2
    FiredAt <- MCFiredAt
    TicksPerMs = 2
    MaxCommits = 3
    MaxDrops = 2
    MaxFailures = 1
INVARIANTS
    TypeOK
    CaughtUpIsCurrent
    LedgerReadsBack
PROPERTIES
    NothingReplayed
    ReadersCatchUp
CHECK_DEADLOCK FALSE
