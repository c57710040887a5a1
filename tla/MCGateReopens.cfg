SPECIFICATION SnapshotSpec
CONSTANTS
    NoReceipt = NoReceipt
    NoCall = NoCall
    MaxFaults = 0
    SnapshotOps = {o1}
    Phases = {p}
    Signatures = {g, h}
    Diagnoses = {d}
    SignatureLimit = 2
    PhaseLimit = 3
    MaxRecent = 3
    MaxNew = 1
INVARIANTS
    OnlyPassOpensGate
