------------------------------- MODULE HudTasks -------------------------------
(***************************************************************************)
(* The task view of the HUD: a thread of the foreground command reads      *)
(* tasks.md every so often and hands the server a snapshot of it; the      *)
(* server checks what it is given and shows the last payload it took.      *)
(*                                                                         *)
(* Nobody is locked out: agents edit tasks.md, and break and repair it,    *)
(* at any time.  Rows are numbered in their order.  Titles and ids are     *)
(* clipped by code that is left out, so that every payload is small enough *)
(* for the limits on JSON.                                                 *)
(***************************************************************************)
EXTENDS Naturals, FiniteSets, TaskStatuses

CONSTANTS
    MaxHudRow,      \* number of rows
    HudStatuses,    \* statuses that rows have
    LongIds,        \* rows whose ids are too long to be published
    Parents,        \* parents that rows have; 0 stands for none
    ShownOpen,      \* unfinished rows that are selected
    ShownDone,      \* finished rows that are selected
    Unreadable,     \* tasks.md is missing, not a file, or does not parse
    NoView          \* the thread has no valid payload yet

ASSUME HudTasksAssumption ==
    /\ {MaxHudRow, ShownOpen, ShownDone} \subseteq Nat
    /\ HudStatuses \subseteq TaskStatus /\ Parents \subseteq Nat

VARIABLES
    tasksFile,  \* tasks.md
    running,    \* the server runs
    thread,     \* the thread: about to refresh, about to publish, or ended
    payload,    \* what it is about to publish
    lastValid,  \* last_valid
    shown,      \* task_state of the server
    lastRead,   \* history: the last snapshot of a readable tasks.md
    readable    \* history: tasks.md could be read at the last refresh

hudTaskVars == <<tasksFile, running, thread, payload, lastValid, shown, lastRead, readable>>

HudRows == 1 .. MaxHudRow

HudTable == [HudRows -> [status : HudStatuses, parent : Parents]]

Freshness == {"VALID", "STALE", "UNAVAILABLE"}

Headlines == {"Blocked", "Done", "In Progress", "Review", "Intake", "Unknown"}

Payload == [status : Headlines, progress : 0 .. 100, helpers : SUBSET HudRows,
            blocked : SUBSET HudRows, visible : 0 .. MaxHudRow, total : 0 .. MaxHudRow,
            hidden : 0 .. MaxHudRow, leaves : 0 .. MaxHudRow, leafDone : 0 .. MaxHudRow,
            freshness : Freshness]

ASSUME NoViewAssumption == NoView \notin Payload

HudTasksTypeOK ==
    /\ tasksFile \in HudTable \cup {Unreadable}
    /\ running \in BOOLEAN
    /\ thread \in {"refresh", "publish", "ended"}
    /\ {payload, lastValid, shown, lastRead} \subseteq Payload \cup {NoView}
    /\ readable \in BOOLEAN

-------------------------------------------------------------------------------
(* snapshot *)

With(t, s) == {i \in HudRows : t[i].status = s}

Open(t) == HudRows \ With(t, "Done")

FirstRows(rows, n) == {i \in rows : Cardinality({j \in rows : j <= i}) <= n}

LastRows(rows, n) == {i \in rows : Cardinality({j \in rows : j >= i}) <= n}

Selected(t) == FirstRows(Open(t), ShownOpen) \cup LastRows(With(t, "Done"), ShownDone)

Leaves(t) == HudRows \ {t[i].parent : i \in HudRows}

Headline(t) ==
    IF With(t, "Blocked") # {} THEN "Blocked"
    ELSE IF HudRows # {} /\ Open(t) = {} THEN "Done"
    ELSE IF With(t, "InProgress") # {} THEN "In Progress"
    ELSE IF With(t, "Review") # {} THEN "Review"
    ELSE "Intake"

Progress(t) == IF HudRows = {} THEN 0
               ELSE (Cardinality(With(t, "Done")) * 100 + MaxHudRow \div 2) \div MaxHudRow

TaskSnapshot(t) ==
    LET helpers == Selected(t) \ LongIds
    IN  [status |-> Headline(t), progress |-> Progress(t), helpers |-> helpers,
         blocked |-> With(t, "Blocked") \ LongIds,
         visible |-> Cardinality(helpers), total |-> MaxHudRow,
         hidden |-> MaxHudRow - Cardinality(helpers),
         leaves |-> Cardinality(Leaves(t)),
         leafDone |-> Cardinality(Leaves(t) \cap With(t, "Done")),
         freshness |-> "VALID"]

Unavailable ==
    [status |-> "Unknown", progress |-> 0, helpers |-> {}, blocked |-> {},
     visible |-> 0, total |-> 0, hidden |-> 0, leaves |-> 0, leafDone |-> 0,
     freshness |-> "UNAVAILABLE"]

\* Mutant of Outdated: the last valid payload is shown as it was.
OutdatedAsValid(v) == IF v = NoView THEN Unavailable ELSE v

\* What is shown while tasks.md cannot be read.
Outdated(v) == IF v = NoView THEN Unavailable ELSE [v EXCEPT !.freshness = "STALE"]

\* validate_task_state
Acceptable(p) == p.progress <= 100 /\ p.visible <= p.total /\ p.hidden <= p.total

-------------------------------------------------------------------------------
HudTasksIdle == /\ running = TRUE
                /\ thread = "refresh"
                /\ payload = NoView
                /\ lastValid = NoView
                /\ shown = Unavailable
                /\ lastRead = NoView
                /\ readable = FALSE

HudTasksEmpty == tasksFile = Unreadable /\ HudTasksIdle

\* start publishes that nothing is available before the thread starts.
HudTasksInit == tasksFile \in HudTable \cup {Unreadable} /\ HudTasksIdle

Refresh ==
    /\ thread = "refresh" /\ running
    /\ IF tasksFile = Unreadable
       THEN payload' = Outdated(lastValid) /\ UNCHANGED lastRead
       ELSE payload' = TaskSnapshot(tasksFile) /\ lastRead' = payload'
    /\ readable' = (tasksFile # Unreadable)
    /\ thread' = "publish"
    /\ UNCHANGED <<tasksFile, running, lastValid, shown>>

\* set_task_state; then the thread sleeps.
Publish ==
    /\ thread = "publish"
    /\ IF Acceptable(payload)
       THEN /\ shown' = payload
            /\ lastValid' = IF payload.freshness = "VALID" THEN payload ELSE lastValid
       ELSE UNCHANGED <<shown, lastValid>>
    /\ payload' = NoView
    /\ thread' = "refresh"
    /\ UNCHANGED <<tasksFile, running, lastRead, readable>>

ThreadStops == /\ thread = "refresh" /\ ~running
               /\ thread' = "ended"
               /\ UNCHANGED <<tasksFile, running, payload, lastValid, shown, lastRead, readable>>

ServerStops == /\ running
               /\ running' = FALSE
               /\ UNCHANGED <<tasksFile, thread, payload, lastValid, shown, lastRead, readable>>

WriteTable(t) == /\ tasksFile # t
                 /\ tasksFile' = t
                 /\ UNCHANGED <<running, thread, payload, lastValid, shown, lastRead, readable>>

HudTasksNext == \/ Refresh \/ Publish \/ ThreadStops \/ ServerStops
                \/ \E t \in HudTable \cup {Unreadable} : WriteTable(t)

HudTasksSpec == HudTasksInit /\ [][HudTasksNext]_hudTaskVars

-------------------------------------------------------------------------------
\* The server never refuses what the thread makes of tasks.md, and between two
\* refreshes it shows the newest table that could be read; when that is not the
\* table of the last refresh, it says so.
ViewIsLastRead ==
    /\ payload # NoView => Acceptable(payload)
    /\ thread # "publish" =>
          CASE shown.freshness = "VALID" -> readable /\ shown = lastRead
            [] shown.freshness = "STALE" ->
                  lastRead # NoView /\ shown = [lastRead EXCEPT !.freshness = "STALE"]
            [] OTHER -> lastRead = NoView

\* The headline speaks of the whole table, also of the rows that are not shown:
\* a blocked row is never hidden, and work is done only when nothing is open.
HeadlineTrue ==
    tasksFile # Unreadable =>
        LET v == TaskSnapshot(tasksFile)
        IN  /\ (v.status = "Done") <=> (HudRows # {} /\ Open(tasksFile) = {})
            /\ With(tasksFile, "Blocked") # {} => v.status = "Blocked"
===============================================================================
