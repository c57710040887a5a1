SPECIFICATION Spec
CONSTANTS
    Tasks = {t1}
    Operations = {o1, o2, o3}
    Targets = {"InProgress", "Review", "Done"}
    Rows = {r1, r2}
    NoPassport = NoPassport
    NoCall = NoCall
    NoReceipt = NoReceipt
    MaxPassports = 2
    MaxFaults = 0
INVARIANT ReopenSupersedes
SYMMETRY Symmetry
