SPECIFICATION FairSpec
CONSTANTS
    Writers = {w1, w2, w3}
    NoWriter = NoWriter
    MaxFaults = 2
    TombstoneFaults = TRUE
INVARIANTS
    MutexUnlessDisplaced
    DisplacedOnlyAfterBrokenRelease
PROPERTIES
    ImplementsSingleWriter
    LockReturned
    TombstonesCleared
CHECK_DEADLOCK FALSE
