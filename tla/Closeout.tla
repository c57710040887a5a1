------------------------------- MODULE Closeout -------------------------------
(***************************************************************************)
(* MissionWorkspace::closeout_with_details: it replaces closeout.md by the *)
(* closeout of a cycle and, when asked to, installs the same text as the   *)
(* cycle's archive closeouts/<cycle>.md, which is created once and never   *)
(* replaced.  A failed call puts closeout.md back and takes an archive     *)
(* that it has created away.                                               *)
(*                                                                         *)
(* The text of a closeout is its cycle and the state of the workspace that *)
(* its fingerprint covers; the time and the details are the caller's and   *)
(* are passed again on a retry.                                            *)
(***************************************************************************)
EXTENDS LockedOperation

CONSTANTS
    CloseoutOps,    \* operation ids
    Cycles,         \* cycles that are closed out
    MaxSources,     \* bound on the states of the workspace
    NoFile          \* there is no such file

ASSUME SourcesAssumption == MaxSources \in Nat

VARIABLES
    sources,        \* the state of the workspace, by number
    closeout,       \* closeout.md
    cycleArchives,  \* closeouts/<cycle>.md
    toldArchived    \* history: closeouts whose archive callers were told of

closeoutVars == <<sources, closeout, cycleArchives, toldArchived>>

\* A text that a crash has cut short is torn.
Body == [cycle : Cycles, source : 0 .. MaxSources, torn : BOOLEAN]

ASSUME NoFileAssumption == NoFile \notin Body

\* archive: the archive was asked for.  A call knows closeout.md as it was,
\* whether it has created the archive, and whether anything could not be put
\* back.
CloseoutCalls == [id : CloseoutOps, digest : Body, archive : BOOLEAN,
                  old : Body \cup {NoFile}, created : BOOLEAN, spoilt : BOOLEAN,
                  found : Body \cup {NoFile}]

CloseoutSteps == {"begin", "replayed", "read", "write", "archive", "commit",
                  "undo", "unarchive", "abort", "release"}

CloseoutTypeOK ==
    /\ OpTypeOK(CloseoutOps, Body, CloseoutCalls, CloseoutSteps)
    /\ sources \in 0 .. MaxSources
    /\ closeout \in Body \cup {NoFile}
    /\ cycleArchives \in [Cycles -> Body \cup {NoFile}]
    /\ toldArchived \subseteq Body

-------------------------------------------------------------------------------
Text(c, n) == [cycle |-> c, source |-> n, torn |-> FALSE]

text == call.digest

cycleArchive == cycleArchives[text.cycle]

CloseoutEmpty == /\ sources = 0
                 /\ closeout = NoFile
                 /\ cycleArchives = [c \in Cycles |-> NoFile]
                 /\ toldArchived = {}

CloseoutInit == OpInit(CloseoutOps) /\ CloseoutEmpty

StartCloseout(o, c, archive) ==
    /\ Enter([id |-> o, digest |-> Text(c, sources), archive |-> archive,
              old |-> closeout, created |-> FALSE, spoilt |-> FALSE,
              found |-> cycleArchives[c]],
             "begin", "none")
    /\ UNCHANGED closeoutVars

BeginCloseout(outcome) == Begin(outcome, "read") /\ UNCHANGED closeoutVars

\* A committed operation is a Replay if its files are still there.
BeginCloseoutRefused ==
    /\ BeginRefused(IF closeout = text /\ (call.archive => cycleArchive = text)
                    THEN "replay" ELSE "error")
    /\ UNCHANGED closeoutVars

\* An archive of the cycle with another text is not replaced.
ReadArchive ==
    /\ step = "read"
    /\ IF call.archive /\ cycleArchive \notin {NoFile, text}
       THEN step' = "abort" /\ answer' = "error"
       ELSE step' = "write" /\ UNCHANGED answer
    /\ UNCHANGED <<receipts, lock, call, faults, closeoutVars>>

\* closeout.md or the archive cannot be read: the receipt stays started.
ReadFails == /\ step = "read"
             /\ Write("lost")
             /\ step' = "release" /\ answer' = "error"
             /\ UNCHANGED <<receipts, lock, call, closeoutVars>>

WriteCloseout(outcome) ==
    /\ step = "write"
    /\ Write(outcome)
    /\ closeout' = Written(outcome, closeout, text)
    /\ Continue(outcome,
                IF call.archive /\ cycleArchive = NoFile THEN "archive" ELSE "commit",
                "undo")
    /\ UNCHANGED <<receipts, lock, call, sources, cycleArchives, toldArchived>>

\* create_exclusive_file removes what it could not complete.
CreateArchive(outcome) ==
    /\ step = "archive"
    /\ outcome # "late"
    /\ Write(outcome)
    /\ cycleArchives' = [cycleArchives EXCEPT
           ![text.cycle] = Written(outcome, @, text)]
    /\ call' = [call EXCEPT !.created = ~Failed(outcome)]
    /\ Continue(outcome, "commit", "undo")
    /\ UNCHANGED <<receipts, lock, sources, closeout, toldArchived>>

CommitCloseout(outcome) == Commit(outcome, "undo") /\ UNCHANGED closeoutVars

\* Mutant of UndoCloseout: the archive goes whoever has created it.
UndoCloseoutAndArchive(outcome) ==
    /\ step = "undo"
    /\ Write(outcome)
    /\ closeout' = Written(outcome, closeout, call.old)
    /\ call' = [call EXCEPT !.spoilt = outcome = "lost"]
    /\ step' = IF call.archive THEN "unarchive" ELSE "abort"
    /\ UNCHANGED <<receipts, lock, answer, sources, cycleArchives, toldArchived>>

\* closeout.md is put back, or removed if there was none; errors are dropped.
UndoCloseout(outcome) ==
    /\ step = "undo"
    /\ Write(outcome)
    /\ closeout' = Written(outcome, closeout, call.old)
    /\ call' = [call EXCEPT !.spoilt = outcome = "lost"]
    /\ step' = IF call.created THEN "unarchive" ELSE "abort"
    /\ UNCHANGED <<receipts, lock, answer, sources, cycleArchives, toldArchived>>

\* The archive that this call has created is removed.
RemoveArchive(outcome) ==
    /\ step = "unarchive"
    /\ outcome # "late"
    /\ Write(outcome)
    /\ cycleArchives' = [cycleArchives EXCEPT
           ![text.cycle] = Written(outcome, @, NoFile)]
    /\ call' = [call EXCEPT !.spoilt = @ \/ Failed(outcome)]
    /\ step' = "abort"
    /\ UNCHANGED <<receipts, lock, answer, sources, closeout, toldArchived>>

AbortCloseout(outcome) == Abort("abort", outcome, answer) /\ UNCHANGED closeoutVars

AbortCloseoutRefused == AbortRefused("abort", answer) /\ UNCHANGED closeoutVars

ReleaseCloseout ==
    /\ Release
    /\ toldArchived' = IF answer \in {"ok", "replay"} /\ call.archive
                       THEN toldArchived \cup {text} ELSE toldArchived
    /\ UNCHANGED <<sources, closeout, cycleArchives>>

ReleaseCloseoutFails == ReleaseFails /\ UNCHANGED closeoutVars

\* A process that dies while it creates an archive leaves it torn.
CrashCloseout ==
    /\ Crash
    /\ \/ UNCHANGED cycleArchives
       \/ /\ step = "archive"
          /\ cycleArchives' = [cycleArchives EXCEPT
                 ![text.cycle] = [text EXCEPT !.torn = TRUE]]
    /\ UNCHANGED <<sources, closeout, toldArchived>>

ReconcileCloseoutLock == ReconcileLock /\ UNCHANGED closeoutVars

AbortCloseoutOperation(o) == AbortOperation(o) /\ UNCHANGED closeoutVars

\* The workspace goes on between two closeouts.
ChangeSources == /\ step = "idle"
                 /\ sources < MaxSources
                 /\ sources' = sources + 1
                 /\ UNCHANGED <<opVars, closeout, cycleArchives, toldArchived>>

-------------------------------------------------------------------------------
CloseoutWrites(outcome) ==
    \/ BeginCloseout(outcome) \/ WriteCloseout(outcome) \/ CreateArchive(outcome)
    \/ CommitCloseout(outcome) \/ UndoCloseout(outcome) \/ RemoveArchive(outcome)
    \/ AbortCloseout(outcome)

CloseoutNext ==
    \/ \E o \in CloseoutOps, c \in Cycles, archive \in BOOLEAN :
          StartCloseout(o, c, archive)
    \/ \E outcome \in Outcomes : CloseoutWrites(outcome)
    \/ BeginCloseoutRefused \/ ReadArchive \/ ReadFails \/ AbortCloseoutRefused
    \/ ReleaseCloseout \/ ReleaseCloseoutFails
    \/ CrashCloseout \/ ReconcileCloseoutLock \/ ChangeSources
    \/ \E o \in CloseoutOps : AbortCloseoutOperation(o)

CloseoutSpec == CloseoutInit /\ [][CloseoutNext]_<<opVars, closeoutVars>>

-------------------------------------------------------------------------------
\* An archive that a caller was told of stays as it is: later closeouts, their
\* rollbacks and retries never replace or remove it.
ToldArchived == \A b \in toldArchived : cycleArchives[b.cycle] = b

\* A closeout that fails leaves closeout.md and the archive of the cycle as it
\* found them, unless its rollback failed as well.
CloseoutRestored ==
    step = "release" /\ answer = "error" /\ ~call.spoilt
        => closeout = call.old /\ cycleArchive = call.found
===============================================================================
