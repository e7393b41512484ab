SPECIFICATION Spec
SYMMETRY Symmetry
CONSTANTS
    i1 = i1
    i2 = i2
    Ids = {i1, i2}
    Deadlines = {1, 2, 3}
    NoDeadline = NoDeadline
    MaxSequence = 5
INVARIANTS
    TypeOK
    ActiveIsQueued
PROPERTIES
    ImplementsTable
CHECK_DEADLOCK FALSE
