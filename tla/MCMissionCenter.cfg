SPECIFICATION Spec
CONSTANTS
    NoReceipt = NoReceipt
    NoCall = NoCall
    MaxFaults = 2
    Externals = {x}
    Subjects = {s}
    Evidence = {e}
    Instants = {t}
    MaxRecords = 1
    NoRecord = NoRecord
    NoEvidence = NoEvidence
    PulseOps = {o1, o2}
    PulseIds = {p, q}
    PulseTasks = {u}
    MaxPulseTime = 1
    MaxPulses = 2
    MaxShown = 2
    NoParent = NoParent
    SnapshotOps = {o1}
    Phases = {p}
    Signatures = {g, h, i}
    Diagnoses = {d}
    SignatureLimit = 2
    PhaseLimit = 3
    MaxRecent = 2
    MaxNew = 1
    SyncOps = {o1}
    Views = {v, w}
    MaxTasks = 1
    MaxEntries = 2
    MaxActive = 1
    Keep = 1
    CloseoutOps = {o1, o2}
    Cycles = {c}
    MaxSources = 1
    NoFile = NoFile
    MapOps = {o1, o2}
    MaxVersions = 1
    NoMap = NoMap
    InitOps = {o1}
    TasksFile = f
    OtherFiles = {j, k}
    Languages = {en}
    NormalizeOps = {o1}
    RowIds = {r}
    Spellings = {"ready", "doing", "Ready", "InProgress"}
    Header = Header
    Torn = Torn
    Blank = Blank
    Prose = Prose
    Unparsed = Unparsed
    MaxLines = 3
    RuntimeAgents = {a, b}
    EventIds = {i, j}
    Reports = {g, r}
    Gone = g
    MaxSequence = 2
    MaxHeard = 3
    MaxAgents = 1
    MaxReplay = 1
    MaxRecentIds = 2
    MaxClock = 1
    Callers = {y, z}
    Nobody = Nobody
    Workspaces = {w}
    Nonces = {n}
    NoNonce = NoNonce
    Ports = {p}
    AnyPort = AnyPort
    Configs <- HudConfigs
    NoConfig = NoConfig
    MaxServers = 2
    MaxAssets = 1
    MaxHudRow = 2
    HudStatuses = {"Ready", "Done", "Blocked"}
    LongIds = {2}
    Parents = {0, 1}
    ShownOpen = 1
    ShownDone = 1
    Unreadable = Unreadable
    NoView = NoView
    Required = {t}
    Strangers = {}
    Checks = {k, l}
    Envelopes = {i, j}
    Supersedable = {i}
    NoEnvelope = NoEnvelope
    Given = {"pass", "fail"}
    Locators = {f}
    Vacant = Vacant
    Garbled = Garbled
    Missing = Missing
    Unread = Unread
    Flaw = Flaw
    MaxVersion = 1
    MaxFiles = 2
    MaxTask = 2
    FirstStatuses = {"InProgress"}
    ShownLimit = 1
    MaxChanges = 1
    Absent = Absent
    Own = Own
    Damaged = Damaged
    NoSource = NoSource
    MaxEdits = 1
    Sizes = {2}
    Overheads = {3}
    PacketLimit = 8
    NoText = NoText
    NoPacket = NoPacket
    Candidates = {a, b}
    Cases = {k}
    Metrics = {l, m}
    Maximized = {m}
    Constrained = {m}
    MaxValue = 1
    MaxTokens = 1
    NoValue = NoValue
    Trials = 2
    TokenLimit = 1
    Retries = 1
    MaxRows = 3
    MaxRow = 3
    RowStatuses = {"Backlog", "Ready", "InProgress"}
    Priorities = {0, 99}
    WorkingLimit = 2
    NextLimit = 1
INVARIANTS
    TypeOK
    ToldStands
    Restored
    FilesTrue
    GateJustified
    HudTrue
    VerdictsTrue
    ViewIsLastRead
    OverviewsTrue
    AdviceSound
PROPERTIES
    TasksKept
    StepsSound
CHECK_DEADLOCK FALSE
