SPECIFICATION Spec
CONSTANTS
    Procs = {p1}
    Operations = {o1, o2}
    Manifests = {k1}
    Others = {m1}
    MaxFaults = 1
    Absent = Absent
    NoReceipt = NoReceipt
    NoCall = NoCall
    Free = Free
    Leaked = Leaked
PROPERTY
    AmbiguityFailsClosed
CHECK_DEADLOCK FALSE
