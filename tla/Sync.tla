--------------------------------- MODULE Sync ---------------------------------
(***************************************************************************)
(* MissionWorkspace::sync_with_options: under the writer lock and one      *)
(* receipt it derives the views (project, progress, brief, working set,    *)
(* focus) from tasks.md and replaces them one by one, and last it replaces *)
(* daily-log.md.  A daily log that has grown too large is rolled over: the *)
(* whole of it goes to an archive that is named by its digest, and the     *)
(* active log keeps the latest entries and a pointer to the archive.  When *)
(* a write or the commit fails, what was written is put back.              *)
(*                                                                         *)
(* People append entries to daily-log.md without the lock.  An archive is  *)
(* installed by a hard link, or where there are none by a copy that an     *)
(* intent file announces and that can be resumed after a crash.            *)
(*                                                                         *)
(* A view is the version of tasks.md it was derived from; entries are      *)
(* numbered in the order in which they were written; the digest of a log   *)
(* is the set of its entries, which tells the logs at hand apart.          *)
(***************************************************************************)
EXTENDS LockedOperation, FiniteSets, FiniteSetsExt

CONSTANTS
    SyncOps,        \* operation ids
    Views,          \* the files that are derived
    MaxTasks,       \* bound on the versions of tasks.md
    MaxEntries,     \* bound on the entries people write
    MaxActive,      \* entries that fit: DAILY_LOG_MAX_BYTES
    Keep            \* entries kept on rollover: DAILY_LOG_ROLLOVER_TARGET_BYTES

ASSUME SyncBoundsAssumption ==
    /\ {MaxTasks, MaxEntries, MaxActive} \subseteq Nat
    /\ Keep \in 0 .. MaxActive

VARIABLES
    tasks,      \* the version of tasks.md
    views,      \* the derived files
    log,        \* daily-log.md
    archives,   \* daily-log-archive/<digest>.md
    intents,    \* daily-log-archive/.<digest>.intent
    entries,    \* history: number of entries people have written
    raced       \* history: entries written while a sync was replacing the log

syncFiles == <<tasks, views, log, archives, intents>>
syncVars == <<syncFiles, entries, raced>>

Entry == 1 .. MaxEntries

Digests == SUBSET Entry

Log == [entries : Digests, pointers : SUBSET Digests]

\* Absent, cut short by a crash, or complete.
Extent == {"absent", "part", "full"}

\* A view is missing, somebody's own, or managed.
View == [kind : {"missing", "own"}, of : {0}] \cup
        [kind : {"managed"}, of : 0 .. MaxTasks]

MissingView == [kind |-> "missing", of |-> 0]
OwnView == [kind |-> "own", of |-> 0]
Derived(n) == [kind |-> "managed", of |-> n]

\* What the digest of an operation covers; archive is empty without a rollover,
\* since a log that is rolled over has entries.
Plan == [tasks : 0 .. MaxTasks, own : SUBSET Views, log : Log, archive : Digests]

\* Besides, a call knows the files it found, whether the log is to be written,
\* what it has written, and whether something could not be put back.
SyncCalls == [id : SyncOps, digest : Plan, views : [Views -> View], log : Log,
              rewrites : BOOLEAN, written : SUBSET Views, logged : BOOLEAN,
              spoilt : BOOLEAN]

SyncSteps == {"begin", "check", "archive", "intent", "copy", "settle", "recheck",
              "write", "log", "commit", "undo", "abort", "release"}

SyncTypeOK == /\ OpTypeOK(SyncOps, Plan, SyncCalls, SyncSteps)
              /\ tasks \in 0 .. MaxTasks
              /\ views \in [Views -> View]
              /\ log \in Log
              /\ archives \in [Digests -> Extent]
              /\ intents \in [Digests -> Extent]
              /\ entries \in 0 .. MaxEntries
              /\ raced \subseteq Entry

-------------------------------------------------------------------------------
Latest(es, n) == {e \in es : Cardinality({f \in es : f >= e}) <= n}

TooLarge(l) == Cardinality(l.entries) > MaxActive

\* organize_daily_log: the line that says when the log was last organised
\* changes with the date, and prepare_daily_log cuts a log that is too large.
Rewrites(dated, l) == dated \/ TooLarge(l)

RolledOver(l) == IF TooLarge(l)
                 THEN [entries |-> Latest(l.entries, Keep),
                       pointers |-> l.pointers \cup {l.entries}]
                 ELSE l

PlanFor(n, vs, l) == [tasks |-> n, own |-> {v \in Views : vs[v] = OwnView},
                      log |-> RolledOver(l),
                      archive |-> IF TooLarge(l) THEN l.entries ELSE {}]

plan == call.digest

\* Views that are not somebody's own are written.
ToWrite == (Views \ plan.own) \ call.written

-------------------------------------------------------------------------------
SyncEmpty == /\ tasks = 0
             /\ log = [entries |-> {}, pointers |-> {}]
             /\ archives = [d \in Digests |-> "absent"]
             /\ intents = [d \in Digests |-> "absent"]
             /\ entries = 0
             /\ raced = {}

SyncInit == /\ OpInit(SyncOps)
            /\ SyncEmpty
            /\ views \in [Views -> {MissingView, OwnView}]

\* Everything is read and planned under the lock.
StartSync(o, dated) ==
    /\ Enter([id |-> o, digest |-> PlanFor(tasks, views, log), views |-> views,
              log |-> log, rewrites |-> Rewrites(dated, log), written |-> {},
              logged |-> FALSE, spoilt |-> FALSE],
             "begin", "none")
    /\ UNCHANGED syncVars

BeginSync(outcome) == Begin(outcome, "check") /\ UNCHANGED syncVars

BeginSyncRefused == BeginRefused("replay") /\ UNCHANGED syncVars

\* The log has not changed since it was planned for, or the call is a Conflict.
CheckLog(at, next) ==
    /\ step = at
    /\ IF log = call.log THEN step' = next /\ UNCHANGED answer
       ELSE step' = "abort" /\ answer' = "error"
    /\ UNCHANGED <<receipts, lock, call, faults, syncVars>>

CheckPlanned == CheckLog("check", IF plan.archive = {}
                                  THEN "recheck" ELSE "archive")

CheckAgain == CheckLog("recheck", "write")

\* The log cannot be read again: the receipt stays started.
ReadLogFails == /\ step \in {"check", "recheck"}
                /\ Write("lost")
                /\ step' = "release" /\ answer' = "error"
                /\ UNCHANGED <<receipts, lock, call, syncVars>>

(* ensure_daily_log_archive. *)

\* The archive is there: complete, or cut short and announced by an intent; one
\* that is cut short without an intent is not ours to touch.
ArchiveFound ==
    /\ step = "archive"
    /\ archives[plan.archive] # "absent"
    /\ CASE archives[plan.archive] = "full" ->
              /\ step' = IF intents[plan.archive] = "absent"
                         THEN "recheck" ELSE "intent"
              /\ UNCHANGED answer
         [] archives[plan.archive] = "part" /\ intents[plan.archive] # "absent" ->
              step' = "intent" /\ UNCHANGED answer
         [] OTHER -> step' = "abort" /\ answer' = "error"
    /\ UNCHANGED <<receipts, lock, call, faults, syncVars>>

\* A hard link to a complete temporary file.
LinkArchive(outcome) ==
    /\ step = "archive"
    /\ archives[plan.archive] = "absent"
    /\ Write(outcome)
    /\ archives' = [archives EXCEPT ![plan.archive] = Written(outcome, @, "full")]
    /\ Continue(outcome, "recheck", "abort")
    /\ UNCHANGED <<receipts, lock, call, tasks, views, log, intents, entries, raced>>

\* The file system has no hard links.
NoHardLink == /\ step = "archive"
              /\ archives[plan.archive] = "absent"
              /\ step' = "intent"
              /\ UNCHANGED <<receipts, lock, call, answer, faults, syncVars>>

\* A file created exclusively, or completed from the prefix that a crash left;
\* an error leaves it as it was, cut short, or complete.
Completed(outcome, old) == CASE outcome = "ok" -> {"full"}
                             [] outcome = "late" -> {"full"}
                             [] outcome = "lost" -> {old, "part"}

WriteIntent(outcome) ==
    /\ step = "intent"
    /\ intents[plan.archive] = "full" => outcome = "ok"
    /\ Write(outcome)
    /\ \E e \in Completed(outcome, intents[plan.archive]) :
          intents' = [intents EXCEPT ![plan.archive] = e]
    /\ Continue(outcome, "copy", "abort")
    /\ UNCHANGED <<receipts, lock, call, tasks, views, log, archives, entries, raced>>

CopyArchive(outcome) ==
    /\ step = "copy"
    /\ archives[plan.archive] = "full" => outcome = "ok"
    /\ Write(outcome)
    /\ \E e \in Completed(outcome, archives[plan.archive]) :
          archives' = [archives EXCEPT ![plan.archive] = e]
    /\ Continue(outcome, "settle", "abort")
    /\ UNCHANGED <<receipts, lock, call, tasks, views, log, intents, entries, raced>>

RemoveIntent(outcome) ==
    /\ step = "settle"
    /\ Write(outcome)
    /\ intents' = [intents EXCEPT ![plan.archive] = Written(outcome, @, "absent")]
    /\ Continue(outcome, "recheck", "abort")
    /\ UNCHANGED <<receipts, lock, call, tasks, views, log, archives, entries, raced>>

(* The writes. *)

\* The views are written in a fixed order; the model allows any.  A write that
\* fails is not among those that are put back.
WriteView(v, outcome) ==
    /\ step = "write"
    /\ v \in ToWrite
    /\ Write(outcome)
    /\ views' = [views EXCEPT ![v] = Written(outcome, @, Derived(plan.tasks))]
    /\ call' = IF Failed(outcome)
               THEN [call EXCEPT !.spoilt = outcome = "late"]
               ELSE [call EXCEPT !.written = @ \cup {v}]
    /\ IF Failed(outcome) THEN step' = "undo" /\ answer' = "error"
       ELSE UNCHANGED <<step, answer>>
    /\ UNCHANGED <<receipts, lock, tasks, log, archives, intents, entries, raced>>

ViewsWritten == /\ step = "write"
                /\ ToWrite = {}
                /\ step' = IF call.rewrites THEN "log" ELSE "commit"
                /\ UNCHANGED <<receipts, lock, call, answer, faults, syncVars>>

\* daily-log.md is replaced whatever it says by now.
WriteLog(outcome) ==
    /\ step = "log"
    /\ Write(outcome)
    /\ log' = Written(outcome, log, plan.log)
    /\ call' = IF Failed(outcome)
               THEN [call EXCEPT !.spoilt = outcome = "late"]
               ELSE [call EXCEPT !.logged = TRUE]
    /\ Continue(outcome, "commit", "undo")
    /\ UNCHANGED <<receipts, lock, tasks, views, archives, intents, entries, raced>>

CommitSync(outcome) == Commit(outcome, "undo") /\ UNCHANGED syncVars

(* The rollback, in reverse; its errors are dropped. *)

UndoLog(outcome) ==
    /\ step = "undo"
    /\ call.logged
    /\ Write(outcome)
    /\ log' = Written(outcome, log, call.log)
    /\ call' = [call EXCEPT !.logged = FALSE, !.spoilt = @ \/ outcome = "lost"]
    /\ UNCHANGED <<receipts, lock, step, answer, tasks, views, archives, intents,
                   entries, raced>>

\* Mutant of UndoView: the view keeps what the call has written.
ForgetView(v, outcome) ==
    /\ step = "undo"
    /\ ~call.logged
    /\ v \in call.written
    /\ Write(outcome)
    /\ call' = [call EXCEPT !.written = @ \ {v}, !.spoilt = @ \/ outcome = "lost"]
    /\ UNCHANGED <<receipts, lock, step, answer, syncVars>>

UndoView(v, outcome) ==
    /\ step = "undo"
    /\ ~call.logged
    /\ v \in call.written
    /\ Write(outcome)
    /\ views' = [views EXCEPT ![v] = Written(outcome, @, call.views[v])]
    /\ call' = [call EXCEPT !.written = @ \ {v}, !.spoilt = @ \/ outcome = "lost"]
    /\ UNCHANGED <<receipts, lock, step, answer, tasks, log, archives, intents,
                   entries, raced>>

Undone == /\ step = "undo"
          /\ ~call.logged /\ call.written = {}
          /\ step' = "abort"
          /\ UNCHANGED <<receipts, lock, call, answer, faults, syncVars>>

AbortSync(outcome) == Abort("abort", outcome, answer) /\ UNCHANGED syncVars

AbortSyncRefused == AbortRefused("abort", answer) /\ UNCHANGED syncVars

ReleaseSync == (Release \/ ReleaseFails) /\ UNCHANGED syncVars

(* The environment. *)

\* The log is being replaced: what it says by now is not read any more.
Replacing == step \in {"write", "log", "commit", "undo"}

\* A person appends an entry to the daily log.
WriteEntry == /\ entries < MaxEntries
              /\ entries' = entries + 1
              /\ log' = [log EXCEPT !.entries = @ \cup {entries + 1}]
              /\ raced' = IF Replacing THEN raced \cup {entries + 1} ELSE raced
              /\ UNCHANGED <<opVars, tasks, views, archives, intents>>

\* tasks.md gets a new version, from a call between two syncs.
ChangeTasks == /\ step = "idle"
               /\ tasks < MaxTasks
               /\ tasks' = tasks + 1
               /\ UNCHANGED <<opVars, views, log, archives, intents, entries, raced>>

\* A process that dies while it writes an intent or an archive may leave a part.
CrashSync ==
    /\ Crash
    /\ IF step = "intent" /\ intents[plan.archive] = "absent"
       THEN \E e \in {"absent", "part"} :
               intents' = [intents EXCEPT ![plan.archive] = e]
       ELSE UNCHANGED intents
    /\ IF step = "copy" /\ archives[plan.archive] = "absent"
       THEN \E e \in {"absent", "part"} :
               archives' = [archives EXCEPT ![plan.archive] = e]
       ELSE UNCHANGED archives
    /\ UNCHANGED <<tasks, views, log, entries, raced>>

ReconcileSyncLock == ReconcileLock /\ UNCHANGED syncVars

AbortSyncOperation(o) == AbortOperation(o) /\ UNCHANGED syncVars

NewSyncId(o) == NewId(o) /\ UNCHANGED syncVars

-------------------------------------------------------------------------------
SyncWrites(outcome) ==
    \/ BeginSync(outcome) \/ LinkArchive(outcome) \/ WriteIntent(outcome)
    \/ CopyArchive(outcome) \/ RemoveIntent(outcome)
    \/ \E v \in Views : WriteView(v, outcome) \/ UndoView(v, outcome)
    \/ WriteLog(outcome) \/ CommitSync(outcome) \/ UndoLog(outcome)
    \/ AbortSync(outcome)

SyncNext ==
    \/ \E o \in SyncOps, dated \in BOOLEAN : StartSync(o, dated)
    \/ \E outcome \in Outcomes : SyncWrites(outcome)
    \/ BeginSyncRefused \/ CheckPlanned \/ CheckAgain \/ ReadLogFails
    \/ ArchiveFound \/ NoHardLink \/ ViewsWritten \/ Undone \/ AbortSyncRefused \/ ReleaseSync
    \/ WriteEntry \/ ChangeTasks \/ CrashSync \/ ReconcileSyncLock
    \/ \E o \in SyncOps : AbortSyncOperation(o) \/ NewSyncId(o)

SyncSpec == SyncInit /\ [][SyncNext]_<<opVars, syncVars>>

-------------------------------------------------------------------------------
\* What a log can be read back from: its entries and those of the archives it
\* points to.
Readable(l) == l.entries \cup UNION {a \in l.pointers : archives[a] = "full"}

\* No entry of the daily log is lost by any rollover, rollback, resumed copy or
\* crash, but for one written in the moment the log is being replaced, which
\* nothing guards.
EntriesKept == (1 .. entries) \ raced \subseteq Readable(log)

\* A sync that fails, and whose rollback was not disturbed by another error,
\* leaves every view as it found it.
SyncRestored ==
    step = "release" /\ answer = "error" /\ ~call.spoilt => views = call.views
===============================================================================
