SPECIFICATION Spec
CONSTANTS
    Procs = {p1, p2}
    Operations = {o1, o2}
    Packages = {k1, k2}
    UserTrees = {u}
    LastTarget = 2
    MaxAttempts = 2
    MaxFaults = 1
    Absent = Absent
    Damaged = Damaged
    NoReceipt = NoReceipt
    NoCall = NoCall
    Free = Free
    Leaked = Leaked
INVARIANTS
    TypeOK
    CrashIsRecoverable
PROPERTIES
    NothingLost
    CommittedIsInstalled
    AbortedIsRestored
CHECK_DEADLOCK FALSE
SYMMETRY Symmetry
