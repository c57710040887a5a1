SPECIFICATION Spec
CONSTANTS
    Writers = {w1, w2, w3}
    NoWriter = NoWriter
    MaxFaults = 1
    TombstoneFaults = TRUE
INVARIANT MutualExclusion
CHECK_DEADLOCK FALSE
