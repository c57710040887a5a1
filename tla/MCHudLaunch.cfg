SPECIFICATION FairSpec
CONSTANTS
    Hooks = {h1, h2}
    Companions = {c1, c2, c3}
    MaxFaults = 2
    None = None
    Unreadable = Unreadable
    Free = Free
    Leaked = Leaked
INVARIANTS
    TypeOK
    OneCompanion
    Accounted
    ReportTrue
PROPERTY
    ToldToStop
CHECK_DEADLOCK FALSE
