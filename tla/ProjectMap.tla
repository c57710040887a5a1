------------------------------ MODULE ProjectMap ------------------------------
(***************************************************************************)
(* MissionWorkspace::project_map: it renders project.md and tasks.md, read *)
(* before the writer lock is taken, to a JSON file, an HTML file and, last *)
(* of all, a manifest with their digests.  The sources are read again once *)
(* the receipt is started and again before the manifest; when they have    *)
(* changed, or a write or the commit fails, the three files are put back.  *)
(*                                                                         *)
(* A rendering is the version of the sources it was made from: JSON and    *)
(* HTML of one version belong together, and a manifest names the version.  *)
(***************************************************************************)
EXTENDS LockedOperation

CONSTANTS
    MapOps,         \* operation ids
    MaxVersions,    \* bound on the versions of the sources
    NoMap           \* there is no such file

ASSUME VersionsAssumption == MaxVersions \in Nat

VARIABLES
    version,    \* the version of project.md and tasks.md
    mapFiles,   \* the files under output/mission-center-project-map
    renderings  \* calls that have read the sources and wait for the lock

mapVars == <<version, mapFiles, renderings>>

MapVersions == 0 .. MaxVersions

MapFiles == {"json", "html", "manifest"}

ASSUME NoMapAssumption == NoMap \notin MapVersions

\* The digest of an operation is its rendering.  since: the versions that were
\* current at some time since the lock was taken; left: files not put back yet.
MapCalls == [id : MapOps, digest : MapVersions, old : [MapFiles -> MapVersions \cup {NoMap}],
             since : SUBSET MapVersions, left : SUBSET MapFiles, spoilt : BOOLEAN]

MapSteps == {"begin", "read", "json", "html", "read_again", "manifest", "commit",
             "undo", "abort", "release"}

MapTypeOK == /\ OpTypeOK(MapOps, MapVersions, MapCalls, MapSteps)
             /\ version \in MapVersions
             /\ mapFiles \in [MapFiles -> MapVersions \cup {NoMap}]
             /\ renderings \in [MapOps -> MapVersions \cup {NoMap}]

-------------------------------------------------------------------------------
rendered == call.digest

\* validate_project_map_artifacts: the manifest names this version and the
\* digests of the very files.
Valid(v) == \A f \in MapFiles : mapFiles[f] = v

MapEmpty == /\ version = 0
            /\ mapFiles = [f \in MapFiles |-> NoMap]
            /\ renderings = [o \in MapOps |-> NoMap]

MapInit == OpInit(MapOps) /\ MapEmpty

\* The sources are read and rendered without the lock.
Render(o) == /\ renderings[o] = NoMap
             /\ renderings' = [renderings EXCEPT ![o] = version]
             /\ UNCHANGED <<opVars, version, mapFiles>>

StartMap(o) ==
    /\ renderings[o] # NoMap
    /\ Enter([id |-> o, digest |-> renderings[o], old |-> mapFiles,
              since |-> {version}, left |-> MapFiles, spoilt |-> FALSE],
             "begin", "none")
    /\ renderings' = [renderings EXCEPT ![o] = NoMap]
    /\ UNCHANGED <<version, mapFiles>>

BeginMap(outcome) == Begin(outcome, "read") /\ UNCHANGED mapVars

\* A committed operation is a Replay if the three files are there and whole.
BeginMapRefused == /\ BeginRefused(IF Valid(rendered) THEN "replay" ELSE "error")
                   /\ UNCHANGED mapVars

\* Mutant of ReadSources: the sources are not compared again.
ReadSourcesOnce(at, next, otherwise) ==
    /\ step = at
    /\ step' = next /\ UNCHANGED answer
    /\ UNCHANGED <<receipts, lock, call, faults, mapVars>>

\* The sources are read again, and must be those that were rendered.
ReadSources(at, next, otherwise) ==
    /\ step = at
    /\ IF version = rendered THEN step' = next /\ UNCHANGED answer
       ELSE step' = otherwise /\ answer' = "error"
    /\ UNCHANGED <<receipts, lock, call, faults, mapVars>>

ReadBefore == ReadSources("read", "json", "abort")

ReadAfter == ReadSources("read_again", "manifest", "undo")

\* An old file or a source cannot be read: before the first write the receipt
\* stays started.
ReadMapFails == /\ step \in {"read", "read_again"}
                /\ Write("lost")
                /\ step' = IF step = "read" THEN "release" ELSE "undo"
                /\ answer' = "error"
                /\ UNCHANGED <<receipts, lock, call, mapVars>>

WriteMapFile(f, at, next, outcome) ==
    /\ step = at
    /\ Write(outcome)
    /\ mapFiles' = [mapFiles EXCEPT ![f] = Written(outcome, @, rendered)]
    /\ Continue(outcome, next, "undo")
    /\ UNCHANGED <<receipts, lock, call, version, renderings>>

WriteMap(outcome) == \/ WriteMapFile("json", "json", "html", outcome)
                     \/ WriteMapFile("html", "html", "read_again", outcome)
                     \/ WriteMapFile("manifest", "manifest", "commit", outcome)

CommitMap(outcome) == Commit(outcome, "undo") /\ UNCHANGED mapVars

\* Every file is put back or removed, written or not; errors are dropped.
UndoMapFile(f, outcome) ==
    /\ step = "undo"
    /\ f \in call.left
    /\ Write(outcome)
    /\ mapFiles' = [mapFiles EXCEPT ![f] = Written(outcome, @, call.old[f])]
    /\ call' = [call EXCEPT !.left = @ \ {f}, !.spoilt = @ \/ outcome = "lost"]
    /\ UNCHANGED <<receipts, lock, step, answer, version, renderings>>

MapUndone == /\ step = "undo"
             /\ call.left = {}
             /\ step' = "abort"
             /\ UNCHANGED <<receipts, lock, call, answer, faults, mapVars>>

AbortMap(outcome) == Abort("abort", outcome, answer) /\ UNCHANGED mapVars

AbortMapRefused == AbortRefused("abort", answer) /\ UNCHANGED mapVars

ReleaseMap == (Release \/ ReleaseFails) /\ UNCHANGED mapVars

CrashMap == Crash /\ UNCHANGED mapVars

ReconcileMapLock == ReconcileLock /\ UNCHANGED mapVars

AbortMapOperation(o) == AbortOperation(o) /\ UNCHANGED mapVars

\* project.md and tasks.md are edited at any time.
EditSources == /\ version < MaxVersions
               /\ version' = version + 1
               /\ call' = IF step = "idle" THEN call
                          ELSE [call EXCEPT !.since = @ \cup {version + 1}]
               /\ UNCHANGED <<receipts, lock, step, answer, faults, mapFiles,
                              renderings>>

-------------------------------------------------------------------------------
MapWrites(outcome) ==
    \/ BeginMap(outcome) \/ WriteMap(outcome) \/ CommitMap(outcome)
    \/ \E f \in MapFiles : UndoMapFile(f, outcome)
    \/ AbortMap(outcome)

MapNext ==
    \/ \E o \in MapOps : Render(o) \/ StartMap(o)
    \/ \E outcome \in Outcomes : MapWrites(outcome)
    \/ BeginMapRefused \/ ReadBefore \/ ReadAfter \/ ReadMapFails \/ MapUndone
    \/ AbortMapRefused \/ ReleaseMap
    \/ CrashMap \/ ReconcileMapLock \/ EditSources
    \/ \E o \in MapOps : AbortMapOperation(o)

MapSpec == MapInit /\ [][MapNext]_<<opVars, mapVars>>

-------------------------------------------------------------------------------
\* A project map that is reported as written is whole, and it shows sources that
\* were current while the call held the lock, however often they were edited
\* between the reading and the writing.
MapIsCurrent ==
    step = "release" /\ answer = "ok"
        => Valid(rendered) /\ rendered \in call.since

\* A call that fails leaves the map it found, unless its rollback failed too.
MapRestored ==
    step = "release" /\ answer = "error" /\ ~call.spoilt => mapFiles = call.old
===============================================================================
