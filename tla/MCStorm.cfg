SPECIFICATION MCSpec
CONSTANTS
    Ids = {1, 2, 3, 4, 5}
    Scope <- MCScope
    Fingerprint <- MCFingerprint
    Severities = {1}
    Rounds <- MCRounds
    Threshold = 3
    MaxNeighbours = 3
    MaxRecent = 4
    MaxWeight = 4
    MaxAlerts = 3
    MaxCloses = 1
    MaxLulls = 1
INVARIANTS
    TypeOK
    StormIntact
    GroupFactsFresh
PROPERTIES
    StormsOnlyGrow
CHECK_DEADLOCK FALSE
