SPECIFICATION Spec
CONSTANTS
    Operations = {o1, o2, o3}
    Owners = {a, b}
    MaxFence = 2
    MaxTime = 2
    NoClaim = NoClaim
    NoCall = NoCall
    NoReceipt = NoReceipt
    MaxFaults = 1
INVARIANTS
    ExclusiveLease
    LeaseOnFile
    ReleasedIsGone
PROPERTY ImplementsLease
SYMMETRY Symmetry
