SPECIFICATION DeliverySpec
CONSTANTS
    Ids = {1, 2}
    Scope <- MCScope
    Fingerprint <- MCFingerprint
    Severities = {1}
    Rounds <- MCRounds
    Threshold = 3
    MaxNeighbours = 3
    MaxRecent = 4
    MaxWeight = 4
    MaxAlerts = 3
    MaxCloses = 1
    MaxLulls = 0
    MaxRows = 8
INVARIANTS
    PagerHearsEveryClose
CHECK_DEADLOCK FALSE
