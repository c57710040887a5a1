------------------------------- MODULE Scaffold -------------------------------
(***************************************************************************)
(* MissionWorkspace::init: under the writer lock and one receipt it writes *)
(* the templates of the files that are missing, and with force those of    *)
(* the others too, except tasks.md, which is never replaced.  When a write *)
(* or the commit fails, the files that were written are put back.          *)
(***************************************************************************)
EXTENDS LockedOperation

CONSTANTS
    InitOps,        \* operation ids
    TasksFile,      \* tasks.md
    OtherFiles,     \* the other files of the scaffold
    Languages       \* languages of the templates

VARIABLE scaffold   \* the files of the scaffold

ScaffoldFiles == OtherFiles \cup {TasksFile}

ASSUME TasksFileAssumption == TasksFile \notin OtherFiles

\* A file is missing, somebody's own, or the template of a language.
FileContent == [kind : {"missing", "own"}] \cup [kind : {"template"}, of : Languages]

AbsentFile == [kind |-> "missing"]
OwnFile == [kind |-> "own"]
Template(l) == [kind |-> "template", of |-> l]

ScaffoldContents == [ScaffoldFiles -> FileContent]

\* The digest is that of the contents that the call means to leave.
ScaffoldCalls == [id : InitOps, digest : ScaffoldContents, old : ScaffoldContents,
                  written : SUBSET ScaffoldFiles, towrite : SUBSET ScaffoldFiles,
                  spoilt : BOOLEAN]

ScaffoldSteps == {"begin", "write", "commit", "undo", "abort", "release"}

ScaffoldTypeOK ==
    /\ OpTypeOK(InitOps, ScaffoldContents, ScaffoldCalls, ScaffoldSteps)
    /\ scaffold \in ScaffoldContents

-------------------------------------------------------------------------------
\* Mutant of ShouldWrite: force replaces every file.
ShouldWriteAll(f, force) == scaffold[f] = AbsentFile \/ force

ShouldWrite(f, force) == scaffold[f] = AbsentFile \/ (force /\ f # TasksFile)

ScaffoldEmpty == scaffold = [f \in ScaffoldFiles |-> AbsentFile]

ScaffoldInit == OpInit(InitOps) /\ ScaffoldEmpty

\* The files are read and the writes planned under the lock.
StartInit(o, l, force) ==
    /\ LET towrite == {f \in ScaffoldFiles : ShouldWrite(f, force)}
       IN  Enter([id |-> o,
                  digest |-> [f \in ScaffoldFiles |-> IF f \in towrite
                                  THEN Template(l) ELSE scaffold[f]],
                  old |-> scaffold, written |-> {}, towrite |-> towrite,
                  spoilt |-> FALSE],
                 "begin", "none")
    /\ UNCHANGED scaffold

BeginInit(outcome) == Begin(outcome, "write") /\ UNCHANGED scaffold

BeginInitRefused == BeginRefused("replay") /\ UNCHANGED scaffold

\* The files are written in a fixed order; the model allows any.  A write that
\* fails is not among those that are put back.
WriteTemplate(f, outcome) ==
    /\ step = "write"
    /\ f \in call.towrite \ call.written
    /\ Write(outcome)
    /\ scaffold' = [scaffold EXCEPT ![f] = Written(outcome, @, call.digest[f])]
    /\ call' = IF Failed(outcome)
               THEN [call EXCEPT !.spoilt = outcome = "late"]
               ELSE [call EXCEPT !.written = @ \cup {f}]
    /\ IF Failed(outcome) THEN step' = "undo" /\ answer' = "error"
       ELSE UNCHANGED <<step, answer>>
    /\ UNCHANGED <<receipts, lock>>

TemplatesWritten == /\ step = "write"
                    /\ call.towrite = call.written
                    /\ step' = "commit"
                    /\ UNCHANGED <<receipts, lock, call, answer, faults, scaffold>>

CommitInit(outcome) == Commit(outcome, "undo") /\ UNCHANGED scaffold

\* The rollback, in reverse; its errors are dropped.
UndoTemplate(f, outcome) ==
    /\ step = "undo"
    /\ f \in call.written
    /\ Write(outcome)
    /\ scaffold' = [scaffold EXCEPT ![f] = Written(outcome, @, call.old[f])]
    /\ call' = [call EXCEPT !.written = @ \ {f}, !.spoilt = @ \/ outcome = "lost"]
    /\ UNCHANGED <<receipts, lock, step, answer>>

InitUndone == /\ step = "undo"
              /\ call.written = {}
              /\ step' = "abort"
              /\ UNCHANGED <<receipts, lock, call, answer, faults, scaffold>>

AbortInit(outcome) == Abort("abort", outcome, answer) /\ UNCHANGED scaffold

AbortInitRefused == AbortRefused("abort", answer) /\ UNCHANGED scaffold

ReleaseInit == (Release \/ ReleaseFails) /\ UNCHANGED scaffold

CrashInit == Crash /\ UNCHANGED scaffold

ReconcileInitLock == ReconcileLock /\ UNCHANGED scaffold

AbortInitOperation(o) == AbortOperation(o) /\ UNCHANGED scaffold

\* People write their own files, and the other operations tasks.md, while no
\* call holds the lock.
WriteOwn(f) == /\ step = "idle"
               /\ scaffold' = [scaffold EXCEPT ![f] = OwnFile]
               /\ UNCHANGED opVars

-------------------------------------------------------------------------------
ScaffoldWrites(outcome) ==
    \/ BeginInit(outcome) \/ CommitInit(outcome) \/ AbortInit(outcome)
    \/ \E f \in ScaffoldFiles : WriteTemplate(f, outcome) \/ UndoTemplate(f, outcome)

ScaffoldNext ==
    \/ \E o \in InitOps, l \in Languages, force \in BOOLEAN : StartInit(o, l, force)
    \/ \E outcome \in Outcomes : ScaffoldWrites(outcome)
    \/ BeginInitRefused \/ TemplatesWritten \/ InitUndone \/ AbortInitRefused
    \/ ReleaseInit \/ CrashInit \/ ReconcileInitLock
    \/ \E o \in InitOps : AbortInitOperation(o)
    \/ \E f \in ScaffoldFiles : WriteOwn(f)

ScaffoldSpec == ScaffoldInit /\ [][ScaffoldNext]_<<opVars, scaffold>>

-------------------------------------------------------------------------------
\* The lifecycle source is never replaced or removed by init, forced or not,
\* rolled back or not.
TasksKept == [][scaffold[TasksFile] = OwnFile => scaffold'[TasksFile] = OwnFile]_scaffold

\* An init that fails, and whose rollback was not disturbed by another error,
\* leaves the files as it found them.
InitRestored ==
    step = "release" /\ answer = "error" /\ ~call.spoilt => scaffold = call.old
===============================================================================
