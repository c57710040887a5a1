SPECIFICATION Spec
CONSTANTS
    Procs = {p1, p2}
    Operations = {o1, o2, o3}
    Manifests = {k1, k2}
    Others = {m1}
    MaxFaults = 2
    Absent = Absent
    NoReceipt = NoReceipt
    NoCall = NoCall
    Free = Free
    Leaked = Leaked
INVARIANTS
    TypeOK
    ReceiptTrue
PROPERTIES
    NothingLost
    TakenBackIsRestored
CHECK_DEADLOCK FALSE
SYMMETRY Symmetry
