------------------------------ MODULE Reconciler ------------------------------
(***************************************************************************)
(* reconcile_workspace_checks of mission-center-cli, which compares every  *)
(* derived file with tasks.md, next to the operations that write those     *)
(* files: sync derives progress.md and the views, closeout writes what its *)
(* author says was completed.  What sync writes and what the checks look   *)
(* for is code of two crates.  The checks only read: they are operators.   *)
(*                                                                         *)
(* Tasks are numbered in the order of the table.  A section of progress.md *)
(* is the set of the task ids that a search finds in its text: those of    *)
(* the rows listed in it and those that their titles mention.  Percentage  *)
(* and count are the set of done tasks.                                    *)
(***************************************************************************)
EXTENDS Naturals, FiniteSets, TaskStatuses

CONSTANTS
    MaxTask,        \* number of tasks
    FirstStatuses,  \* statuses that tasks have in the beginning
    ShownLimit,     \* rows that a section of progress.md lists at most
    MaxChanges,     \* bound on the changes of tasks and other sources
    Absent,         \* the file does not exist
    Own,            \* somebody's own file, which sync leaves alone
    Damaged,        \* a managed file without the fields it should have
    NoSource        \* a closeout that does not say what it is about

ASSUME ReconcilerAssumption == /\ {MaxTask, ShownLimit, MaxChanges} \subseteq Nat
                               /\ FirstStatuses \subseteq TaskStatus

VARIABLES
    taskTable,  \* the statuses in tasks.md
    titles,     \* the other tasks that the title of a task mentions
    leaves,     \* the tasks that count: no epics, no parents
    project,    \* the version of project.md
    notes,      \* the version of guardrails.md and daily-log.md
    progress,   \* progress.md
    viewsNow,   \* brief.md, working-set.md and focus.md
    closeoutNow, \* closeout.md
    organised,  \* daily-log.md was organised today
    synced,     \* history: sync has written every file, and nothing changed
    closed      \* history: a true closeout was written, and nothing changed

sourceVars == <<taskTable, titles, leaves, project, notes>>
reconcilerVars == <<sourceVars, progress, viewsNow, closeoutNow, organised, synced, closed>>

Ids == 1 .. MaxTask

Table == [Ids -> TaskStatus]

Summary == [active : SUBSET Ids, blocked : SUBSET Ids, done : SUBSET Ids]

ViewNames == {"brief", "working_set", "focus"}

\* What a view or a closeout was made from.
Fingerprint == [table : Table, project : 0 .. MaxChanges, notes : 0 .. MaxChanges]

Closing == [completed : SUBSET Ids, unfinished : SUBSET Ids,
            of : Fingerprint \cup {NoSource}]

ASSUME MarksAssumption ==
    \A mark \in {Absent, Own, Damaged} : mark \notin Summary \cup Fingerprint \cup Closing

ReconcilerTypeOK ==
    /\ taskTable \in Table
    /\ titles \in [Ids -> SUBSET Ids]
    /\ leaves \subseteq Ids
    /\ {project, notes} \subseteq 0 .. MaxChanges
    /\ progress \in Summary \cup {Absent, Own, Damaged}
    /\ \A v \in ViewNames : viewsNow[v] \in Fingerprint \cup {Absent, Own}
    /\ closeoutNow \in Closing \cup {Absent, Damaged}
    /\ {organised, synced, closed} \subseteq BOOLEAN

-------------------------------------------------------------------------------
(* compute_progress. *)

\* The first rows with one of these statuses.
Listed(statuses) ==
    LET rows == {i \in leaves : taskTable[i] \in statuses}
    IN  {i \in rows : Cardinality({j \in rows : j <= i}) <= ShownLimit}

Active == Listed({"Backlog", "Ready", "InProgress", "Review"})

Blocked == Listed({"Blocked"})

Done == {i \in leaves : taskTable[i] = "Done"}

-------------------------------------------------------------------------------
(* What is written. *)

FoundIn(rows) == rows \cup UNION {titles[i] : i \in rows}

SummaryNow == [active |-> FoundIn(Active), blocked |-> FoundIn(Blocked),
               done |-> Done]

\* working-set.md and focus.md depend on tasks.md only, closeout.md on
\* project.md besides, brief.md on everything.
FingerprintNow(v) == [table |-> taskTable,
                      project |-> IF v \in {"brief", "closeout"} THEN project ELSE 0,
                      notes |-> IF v = "brief" THEN notes ELSE 0]

-------------------------------------------------------------------------------
(* The checks. *)

\* The sections must list what they should, and no blocked task as active.
ProgressCheck ==
    CASE progress \in {Absent, Own} -> "unknown"
      [] progress = Damaged -> "corrupt"
      [] OTHER -> IF /\ progress.active = Active
                     /\ progress.blocked = Blocked
                     /\ progress.active \cap progress.blocked = {}
                     /\ \A i \in progress.active : taskTable[i] # "Blocked"
                     /\ progress.done = Done
                  THEN "pass" ELSE "conflict"

Contradicts(c) == \/ \E i \in c.completed : taskTable[i] # "Done"
                  \/ \E i \in c.unfinished : taskTable[i] = "Done"
                  \/ c.completed \cap c.unfinished # {}

\* Closeouts of old that do not say what they are about are accepted.
CloseoutCheck ==
    CASE closeoutNow \in {Absent, Damaged} -> "unknown"
      [] OTHER -> IF Contradicts(closeoutNow) THEN "conflict"
                  ELSE IF closeoutNow.of \in {NoSource, FingerprintNow("closeout")}
                  THEN "pass" ELSE "stale"

ViewCheck(v) == CASE viewsNow[v] \in {Absent, Own} -> "unknown"
                  [] OTHER -> IF viewsNow[v] = FingerprintNow(v) THEN "pass" ELSE "stale"

DayCheck == IF organised THEN "pass" ELSE "stale"

\* reconcile_status_rank orders the statuses; ledger and evidence are the
\* statuses that validate_execution_ledger and inspect_evidence have given.
Worst(S) == CASE "corrupt" \in S -> "corrupt"
              [] "conflict" \in S -> "conflict"
              [] "stale" \in S -> "stale"
              [] "unknown" \in S -> "unknown"
              [] OTHER -> "pass"

Reconcile(ledger, evidence) ==
    Worst({ledger, ProgressCheck, CloseoutCheck, DayCheck, evidence}
             \cup {ViewCheck(v) : v \in ViewNames})

-------------------------------------------------------------------------------
ReconcilerFiles == /\ project = 0 /\ notes = 0
                   /\ closeoutNow = Absent
                   /\ organised = FALSE /\ synced = FALSE /\ closed = FALSE

ReconcilerEmpty == /\ ReconcilerFiles
                   /\ taskTable = [i \in Ids |-> "Backlog"]
                   /\ titles = [i \in Ids |-> {}]
                   /\ leaves = {}
                   /\ progress = Absent
                   /\ viewsNow = [v \in ViewNames |-> Absent]

ReconcilerInit == /\ ReconcilerFiles
                  /\ taskTable \in [Ids -> FirstStatuses]
                  /\ titles \in {t \in [Ids -> SUBSET Ids] : \A i \in Ids : i \notin t[i]}
                  /\ leaves \in SUBSET Ids
                  /\ \/ /\ progress \in {Absent, Own, Damaged}
                        /\ viewsNow = [v \in ViewNames |-> Absent]
                     \/ /\ progress = Absent
                        /\ viewsNow = [v \in ViewNames |->
                                       IF v = "brief" THEN Own ELSE Absent]

\* Every file that is missing or managed is written.
SyncFiles == /\ progress' = IF progress = Own THEN Own ELSE SummaryNow
             /\ viewsNow' = [v \in ViewNames |->
                             IF viewsNow[v] = Own THEN Own ELSE FingerprintNow(v)]
             /\ organised' = TRUE
             /\ synced' = (progress # Own /\ \A v \in ViewNames : viewsNow[v] # Own)
             /\ UNCHANGED <<sourceVars, closeoutNow, closed>>

\* The author says, or does not, what was completed and what was not.
CloseOut(completed, unfinished) ==
    /\ closeoutNow' = [completed |-> completed, unfinished |-> unfinished,
                    of |-> FingerprintNow("closeout")]
    /\ closed' = (/\ \A i \in completed : taskTable[i] = "Done"
                  /\ \A i \in unfinished : taskTable[i] # "Done")
    /\ UNCHANGED <<sourceVars, progress, viewsNow, organised, synced>>

OldCloseout == /\ closeoutNow' \in {Damaged, [completed |-> {}, unfinished |-> {},
                                           of |-> NoSource]}
               /\ closed' = FALSE
               /\ UNCHANGED <<sourceVars, progress, viewsNow, organised, synced>>

MoveTask(i, s) == /\ project + notes < MaxChanges
                  /\ taskTable[i] # s
                  /\ taskTable' = [taskTable EXCEPT ![i] = s]
                  /\ notes' = notes + 1
                  /\ synced' = FALSE /\ closed' = FALSE
                  /\ UNCHANGED <<titles, leaves, project, progress, viewsNow, closeoutNow,
                                 organised>>

EditProject == /\ project + notes < MaxChanges
               /\ project' = project + 1
               /\ synced' = FALSE /\ closed' = FALSE
               /\ UNCHANGED <<taskTable, titles, leaves, notes, progress, viewsNow, closeoutNow,
                              organised>>

EditNotes == /\ project + notes < MaxChanges
             /\ notes' = notes + 1
             /\ synced' = FALSE
             /\ UNCHANGED <<taskTable, titles, leaves, project, progress, viewsNow, closeoutNow,
                            organised, closed>>

Midnight == /\ organised
            /\ organised' = FALSE
            /\ synced' = FALSE
            /\ UNCHANGED <<sourceVars, progress, viewsNow, closeoutNow, closed>>

ReconcilerNext ==
    \/ SyncFiles \/ OldCloseout \/ EditProject \/ EditNotes \/ Midnight
    \/ \E i \in Ids, s \in TaskStatus : MoveTask(i, s)
    \/ \E i \in Ids : \E completed, unfinished \in {{}, {i}} :
          CloseOut(completed, unfinished)

ReconcilerSpec == ReconcilerInit /\ [][ReconcilerNext]_reconcilerVars

-------------------------------------------------------------------------------
\* No title of a listed row mentions a task that is not listed with it.
Unambiguous == FoundIn(Active) = Active /\ FoundIn(Blocked) = Blocked

\* What sync has just written passes every check but that of the closeout, as
\* long as no listed title mentions a task of another section; and a closeout
\* that tells the truth passes until tasks.md or project.md change.
WrittenPasses ==
    /\ synced /\ Unambiguous =>
          {ProgressCheck, DayCheck} \cup {ViewCheck(v) : v \in ViewNames} = {"pass"}
    /\ closed => CloseoutCheck = "pass"
    /\ synced /\ closed /\ Unambiguous => Reconcile("pass", "pass") = "pass"
===============================================================================
