SPECIFICATION Spec
CONSTANTS
    Names <- MCNames
    ValidPaths <- MCValidPaths
    PathOrder <- MCPathOrder
    Size <- MCSize
    Bases <- MCBases
    Proposals <- MCProposals
    MaxChanges = 3
    MaxFileCount = 2
    MaxFileBytes = 2
    MaxPatchBytes = 4
    MaxTotalBytes = 3
    MaxApplies = 2
    MaxFailures = 1
INVARIANTS
    TypeOK
    AppliedExactly
    NothingLost
CHECK_DEADLOCK FALSE
