# Mission Center in TLA+

Mission Center keeps the plan of a project in files of its repository:
`MissionCenter/tasks.md` is the canonical task table, and a Rust command line
changes it and its neighbours on behalf of people and agents.  Every command is
a process of its own.  There is no daemon and no database, so everything the
program promises about concurrent writers, failing writes, crashes and retries
rests on lock files, atomic renames and operation receipts.  These modules model
that machinery, check it on small instances with TLC and prove its properties
with TLAPS.

All source paths are relative to the repository root; `policy` and `core` stand for
`rust/mission-center-policy/src/lib.rs` and `rust/mission-center-core/src/lib.rs`,
`hud_tasks` for `rust/mission-center-cli/src/hud_tasks.rs`, `workspace` for
`rust/mission-center-workspace/src/lib.rs`, `publish` for
`rust/mission-center-publish/src/lib.rs`, `runtime` for
`rust/mission-center-runtime/src/lib.rs` and `cli` for
`rust/mission-center-cli/src/main.rs`.

## 1. The system

| Component | State | Operations | Correct means |
|---|---|---|---|
| Writer lock (`workspace` 2566-2690) | `writer.lock`, release tombstones | acquire, release, drop | one writer at a time; the lock comes back; a foreign lock is never removed |
| Atomic files (2693-2767, 5049-5099) | the target, a temporary | replace | old or new content, never a mixture |
| Operation receipts (2777-2933) | one receipt per operation id | begin, commit, abort | an operation is done once; a receipt says what happened |
| Task transitions (3233-3370, core 5-39, 529-560, policy 2355-2475) | Status column, completion passports, receipts | transition | only legal moves; Done needs a fresh passport; reopening kills it |
| Claims (2946-3190) | a claim file per task, receipts | claim, release | a lease in force is exclusive and is not taken away |
| Normalisation (3192-3231, core 300-470) | `tasks.md`, receipts | normalise | the same tasks are read before and after; doing it twice does nothing more |
| Workspace init (1418-1507) | the files of the scaffold, receipts | init | the task table is never replaced; a failed init leaves no trace |
| External operations (1860-2206) | a record and history receipts per operation | prepare, update, read, query | a result counts as confirmed only with its committed history, and then for good |
| Gate snapshots (3372-3622, 4442-4550) | the latest snapshot: gate, attempts, diagnosis | write snapshot | a gate is opened by facts only; a verification that is due is carried out |
| Pulses (3625-3897) | the execution ledger | append, hand off | a pulse is appended once; the ledger stays readable and tells true histories |
| Sync and daily log (676-1308, 1516-1826) | five views, the daily log, its archives | sync | no entry is lost; a failed sync leaves the views alone |
| Closeout (3931-4069), project map (4071-4272) | `closeout.md` and archives; three files of a map | close out; map | an archive is never replaced; a map shows sources that were current |
| Native install and publish (`publish` 1690-2443, 2663-2883) | destinations, temporaries, backups, a transaction receipt, a directory lock | install, roll back, reconcile | every destination is the old or the new package; a crash can be recovered |
| Marketplace registration (`publish` 1939-2173) | the manifest, its backup, a receipt | register, roll back, reconcile | the manifest is the old or the new one |
| Runtime reducer (`runtime` 932-1188) | agents, seen event ids | apply, age, replay | late, repeated and reordered events do not undo newer ones |
| HUD companion launch (`cli` 3600-4091) | a lock file, metadata, the side panel, control and ready files, companion processes | launch, reuse, replace, time out, stop | one companion per workspace, on record; what is told to stop stops |
| HUD server and in-process launcher (`runtime` 1936-2427) | server threads, a table in memory | launch, reuse, replace, shut down one or all | every server that listens can be reached or is being stopped |
| HUD task view (`hud_tasks`, `runtime` 1634-1933) | the last good table, what is shown | poll, publish | what is shown is what was read last, and says when it is old |
| Evidence and commitments (`cli` 2380-3026) | none of its own; reads envelopes and files | inspect, report | the two reports agree, and are about one state of the files |
| Reconcile checks (`cli` 3027-3273) | none of its own; reads all derived files | compare | what sync and closeout have just written passes |
| Resume packet (`cli` 1694-2086) | none of its own; reads sources and views | assemble, cut | a packet says what it left out and whether it is fresh |
| Working set (`derived_views` 76-200), experiments and routes (`policy` 1491-2100) | none | choose rows, candidates, a way of searching | what comes first is not left out |
| The rest of the command line, hooks, contextual help (`cli`) | none of its own | parse, dispatch, print | |
| Validators, release manifests | none | pure functions of text | |

Components share files, not memory.  All writers of `MissionCenter/` go through
the writer lock; inside it an operation begins its receipt, changes one or more
files, and commits the receipt.  Passports are read by transitions and written by
agents directly, with no lock.  Install, publish and registration use a lock and
receipts of their own.  The HUD only reads the workspace.

What makes it hard: a process may die between any two system calls; any call may
fail, and the synchronisation of the directory fails *after* the rename took
effect, so an error does not mean that nothing happened; callers retry with the
same operation id; time passes during a call; and the lock protocol itself is
several system calls long.

## 2. Modules

    SingleWriter  <---  WriterLock  <---  WriterLockProofs
                            |
         (one call in flight, a crash leaves the lock)
                            v
    AtomicFile, OperationReceipts, TaskStatuses
          |                             |
    TaskLifecycle <--- TaskTransition   Claims ---> ExclusiveLease
                       |  |             |  |
         MCTaskTransition  Proofs    MCClaims  ClaimsProofs

    NativeInstall  <---  MCNativeInstall, NativeInstallProofs

    Registration   <---  MCRegistration, RegistrationProofs

    HudLaunch      <---  HudLaunchProofs

    AtomicFile, OperationReceipts
          |
    LockedOperation <--- ExternalOperations   RetryGate   Scaffold
                    <--- PulseLedger  Sync  Closeout  ProjectMap  NormalizeTasks

    RuntimeReducer   HudServers   HudTasks   Evidence   Reconciler   ResumePacket
    ExperimentFront  ExperimentRoute   WorkingSet

    MCMissionCenter (all of the last three groups)  <---  OperationsProofs  <---  ReaderProofs

An arrow to an abstract module is a refinement, checked by TLC and proved.

* **WriterLock** is the lock as system calls.  `Scan`, `Create` and `WriteToken`
  are the three calls of `acquire_writer_lock`; `Detach` and `Finish` are the
  rename and the comparison of `release`; the `Drop...` actions are `Drop`.
  Every call that can fail has a `...Fails` action.  A file is known by the
  writer that created it, because owner tokens carry a fresh nonce.  Crashes are
  final; `ReconcileLock` and `ReconcileTombstone` are an operator, who only
  removes files whose writers are gone.
* **SingleWriter** is what the lock promises.
* **AtomicFile** says what a caller can see of an atomic write: replaced, failed
  with the old content, failed with the new content.
* **OperationReceipts** holds the decisions of begin, commit and abort on one
  receipt.  A digest is the request itself.
* **TaskStatuses**, **TaskLifecycle**: the lifecycle of the core crate and the
  promise that tasks only move along it.
* **TaskTransition** is `transition_task_with_status`, one action per write.
  `Accept` and `Reject` are the part before the first write.  A row is its
  status and one value for everything that the task digest covers; a passport is
  the row it is about, its status, and an identity of its own that lets the
  properties speak of one passport.  Agents write passports at any moment
  (`IssuePassport`), other writers edit rows when the lock is free (`EditRow`).
* **Claims** is `claim` and `release_claim` on one task.  The clock (`Tick`)
  runs during calls.  A call compares with the clock as it was when the call
  took the lock, which is what callers pass as `now`.
* **ExclusiveLease** is what claims promise.
* **NativeInstall** is install, rollback and reconcile of packages, for any
  number of processes.  The module has one variable for each kind of path
  (`dst`, `tmp`, `bak`, `receipt`, `lock`), and per process its place, the
  receipt it holds in memory and the target its loop has come to.  `BackUp`,
  `Record`, `SwapIn` are the loop that swaps; `Remove`, `PutBack`, `DropTemp`
  the loop that restores, from the last target to the first, used by a failed
  installation and by a rollback alike; `Removable` and `Restorable` (`RestorableAt`
  every target) are the conditions of `restore_native_targets_with_policy` and
  `..._checked`.  An
  attempt stands for the nonce in the names of its temporaries and backups.
  `Rollback` and `Reread` read the receipt, `Acquire` takes the lock later.
  `LeakLock`, `PrepareFails`, `SwapFails`, `GiveUp` and `Crash` are the ways to
  fail; `HalfRemove` is a directory that was removed in part.  `Unlock` and
  `Clean` are an operator, `Edit` a user who puts a tree of their own at a
  destination while no command is at work.
* **Registration** is register, rollback and reconcile of the marketplace
  manifest: one file instead of a loop over destinations, and a receipt that is
  written twice instead of after every rename.  `Stage`, `MoveAway`, `MoveIn`,
  `Commit` are a registration; `Acquire` compares the target with the receipt,
  and `Remove`, `DropTemp`, `PutBack`, `Settle` take the registration back, in
  the order of the code: a rollback has no `DropTemp`, a registration that fails
  begins there and ignores errors (`Ignore`).  Receipts are read before the lock
  is taken (`Rollback`, `Reconcile`).  `Edit` is somebody who writes a manifest
  of their own while no command is at work.
* **HudLaunch** is `hook hud` and `hud serve`, as two kinds of processes that
  meet in files only.  A hook takes the lock (`Acquire`), looks at the metadata
  (`Reuse`, `Discard`, `FindNone`), and writes it again (`Touch`, `TouchPanel`)
  or removes control file, metadata and side panel of the old companion
  (`StopOld`, `Forget`, `ClearPanel`) and starts a new one (`Create`, `Spawn`,
  `SeeReady`, `Publish`, `ShowPanel`).  `TimeOut` kills the companion;
  `Abandon`, `Withdraw`, `StopNew` undo what was done for it.  A companion
  checks its control file (`Bind`), serves, writes its ready file (`Announce`)
  and polls (`Poll`), and may expire or die at any moment (`Expire`).  The
  control file is the only way to stop one that is on its own.  A removal whose
  result the code ignores may not happen (`Overlook`, `OverlookNew`); the other
  failing calls have `...Fails` actions.  A companion is its nonce: all its
  files and its health answer carry it.

* **LockedOperation** is the frame of the other write operations: a call takes the
  lock (`Enter`), begins its receipt, writes, commits, or undoes and aborts, and
  releases.  Every write goes through `Write(outcome)`, so it may fail before or
  after it took effect, and `Crash` may come between any two.  The modules that
  extend it add their files and the steps between begin and commit.
* **ExternalOperations**: `Prepare`, `Update` and `UpdateAgain` are the two calls;
  each version of a record has a receipt of its own.  `Counted` is what get and
  list show as a result, and a call remembers in `told` what it returned.
* **RetryGate** is `write_snapshot`: `NextSnapshot` carries attempts and
  diagnosis over, decides the gate and cuts both to the latest ones.  `due`
  remembers whether a gate was shut since the last pass, and whether the code has
  waived it (`Owed`).
* **PulseLedger** is `append_pulse_full` and the readers of the ledger: `Parses`,
  `Handoff`.
* **Sync** replaces the views one by one (`ReplaceView`, `UndoView`) and then the
  daily log, which people append to without the lock; the rollover goes through
  a hard link or an announced copy.
* **Closeout** and **ProjectMap** write sets of files under one receipt; the first
  creates an archive once, the second reads its sources three times.
* **Scaffold** is `init`, with and without force.
* **NormalizeTasks** is `normalize_tasks` on a document of lines, as the parser
  and the rewriting see it, next to people who append lines.
* **RuntimeReducer** is `apply_with_allowlist` (`Leave`, `Apply`), `age_with_clock`
  and the end of a replay.
* **HudServers** is `HudLauncher` and `HudServer`, with several threads at once;
  `LockTable` to `UnlockTable` is one launch, `DrainTable`, `SwapRunning`,
  `StoreStop`, `JoinThread` and `JoinFails` a shutdown.  `run_server` leaves its
  loop and stores `running` (`ThreadLeaves`), told to or on an error of accept,
  before its listener is gone (`ListenerCloses`), or it panics (`ThreadPanics`).
* **HudTasks** is the polling thread and what the server admits.
* **Evidence**, **Reconciler**, **ResumePacket** read files one after the other
  while others rewrite them; what they report is an operator on what they read.
* **WorkingSet**, **ExperimentFront** and **ExperimentRoute** are pure choices,
  stated as operators on a state that is edited step by step, and checked against
  properties that do not speak of how the choice is made.
* **MCMissionCenter** puts these components into one instance.  The variable
  `part` says which of them runs; the others keep still (`Idle`, `Frame`).  The
  operations share lock, receipts and faults, and only one of them is ever at
  work at a time because of the lock; an operation id that another kind of
  operation used before has a receipt with a foreign digest, which every begin
  refuses alike.  A component that depends on what another one writes has that
  writing as an action of its own (Reconciler, ResumePacket, Evidence).

In all operation modules the lock is a variable with three values.  That
at most one call is in flight is what WriterLock promises to writers that keep
their lock file; the run `WriterLockDisplaced` shows how a writer can lose it,
and nothing is claimed about operations of two writers that both
believe they hold the lock.

`history` variables (`displaced`, `broken`, `spent`, `torn`, `granted`, `before`,
`moved`, `touched`, `due`, `abandoned`, and `fresh` in a call of NativeInstall or Registration, `stray`, `told`,
`toldPulses`, `missed`, `toldArchived`, `raced`, `since`, `spoilt`, `heard`, `applied`,
`repeated`, `readable`, `moments`) record
what happened for the sake of a property; no guard reads them.

## 3. Runs

| Run | Shows | Bounds |
|---|---|---|
| `WriterLock` | `MutexUnlessDisplaced`, `DisplacedOnlyAfterBrokenRelease`, `ImplementsSingleWriter`, and under fairness `LockReturned`, `TombstonesCleared` | 3 writers, 2 failing calls, any crashes |
| `WriterLockDisplaced` | `MutualExclusion` as documented is violated | 3 writers, 1 failing call |
| `TaskTransition` | `ReopenedPassportDead`, `FreshPassportForDone`, `CommittedFinal`, `CommitsWhatIsDone`, `ImplementsLifecycle` | 1 task, 3 operation ids, targets In Progress, Review and Done, 2 row contents, 2 passports, 2 failing writes |
| `ReopenSupersedes` | the documented rule that reopening supersedes the passport is violated by a crash | as above, no failing write |
| `Claims` | `ExclusiveLease`, `LeaseOnFile`, `ReleasedIsGone`, `ImplementsLease` | 3 operation ids, 2 owners, 2 fences, deadlines up to 2, 1 failing write |
| `ReplayedRelease` | a retried release may be answered as done with the claim still on file | 2 operation ids, otherwise as above |
| `NativeInstall` | `NothingLost`, `CommittedIsInstalled`, `AbortedIsRestored`, `CrashIsRecoverable` | 2 processes, 2 operations, 2 packages, 2 destinations, 2 installations, 1 crash or failing call |
| `Registration` | `ReceiptTrue`, `NothingLost`, `TakenBackIsRestored` | 2 processes, 3 operations, 2 manifests and 1 of others, 2 crashes or failing calls |
| `ReconcileGuesses` | reconcile removes a manifest that was there before | 1 process, 2 operations, 1 manifest, 1 crash |
| `GateReopens` | the documented rule that only a verification PASS opens a gate (`OnlyPassOpensGate`) is violated | 1 operation id, 2 signatures, no fault |
| `MissionCenter` | `ToldStands`, `Restored`, `FilesTrue`, `GateJustified`, `TasksKept`, `StepsSound` of the operations; `HudTrue`, `ViewIsLastRead` of the HUD; `VerdictsTrue`, `OverviewsTrue`, `AdviceSound` of what readers are shown | 1 or 2 operation ids, 2 failing writes or crashes; 2 threads and 2 servers; 2 or 3 rows, lines, envelopes, events; details below |
| `HudLaunch` | `OneCompanion`, `Accounted`, `ReportTrue`, and under fairness `ToldToStop` | 2 hooks that run any number of times, 3 companions, 2 crashes or failing calls |

**The bounds.**  The interesting lock histories need a writer that breaks, one
that is displaced and one that enters: three.  Tasks only share the lock and the
operation ids, and an operation id may be used again by any call, so one task
with several ids covers the interactions; three ids allow
complete, reopen and complete again, the shortest history in which a passport is
used twice.  Two failing writes let both a write and its rollback fail.  Two
passports let one be issued while another is being superseded.  Two owners, two
fences and deadlines up to 2 let a claim lapse, be replaced and lapse again.
Statuses outside the targets are initial states.  Two destinations let an
installation fail when one is swapped and the other is not; two installations
let a second one, of the same or another operation, follow a rollback that was
cut short, so that stale receipts and old backups meet new trees; one fault
suffices to cut any command anywhere, and the proofs cover any number.
Processes, operations and packages are interchangeable there, which TLC uses.
Three operations let two registrations stand on top of each other when a third
one is taken back, with a second fault in the command that takes it back; two
manifests let an operation register what is at the target already, or something
else.  Three companions let one be replaced whose predecessor is still on its
way out; hooks hold one lock, so two show all that more could.

`MissionCenter` has 1.7 million states, the sum of those of its components.  Two
faults again let a write and its rollback fail, or a rollback and the retry; two
operation ids let a failed call be repeated under the same id and under another,
and one id suffices where a call does not depend on what earlier ones left but
for the file.  Two views show a rollback that stops half-way; two entries and a
log of one a rollover.  Two pulses give a cause and an effect.  Three signatures,
with limits of two and three, keep apart attempts that repeat each other and
attempts that only share a phase; a window of two lets attempts that shut a gate
be pushed out of it by others.  Three lines of Markdown are a table with a row,
and whatever may stand before, between or behind.  One agent too many, one
remembered id and sequence numbers up to two show refusal, forgetting and
reordering.  Two threads and two servers with one port let a launch meet a server
that is being stopped, or one that has stopped on its own; configurations with
and without a nonce meet each other's servers.  Two envelopes about one file, and one version to come,
let a file change between two readings.  Two edits, of a source and of a view,
and sizes near the limit of a packet let every section be cut.  Three rows with
priorities and parents fill a working set of two.

**The counterexamples.**

* `WriterLockDisplaced`: w1 detaches its lock file, cannot remove the tombstone
  and returns an error; w2 had scanned before the tombstone existed and creates
  the lock; the `Drop` of w1 renames w2's file away and keeps it as a tombstone;
  an operator clears w1's own tombstone or w3 had scanned as well; w3 creates a
  lock file, and w2 and w3 are both inside.
* `ReopenSupersedes`: a task is completed, reopened, and the process dies after
  `tasks.md` was written.  The passport is still current, and nothing looks at
  the pair again.
* `ReplayedRelease`: the receipt of a release is committed, and the
  synchronisation of its directory fails.  The claim is written back and the
  abort is refused, since the receipt is committed.  The retry is answered
  `Replay`; the claim stays until it lapses.
* `GateReopens`: an error is repeated, and a hypothesis asks for a verification,
  which forgets the attempts.  The verification fails, the gate is back at
  diagnosis, and the next checkpoint, with nothing new in it, finds no repeated
  failure and allows a retry.
* `ReconcileGuesses`: a manifest is registered and committed.  Another operation
  registers the same content, writes its started receipt and dies before the
  first rename.  Reconcile finds the digest it expects at the target and removes
  the file; there is no backup, and it reports the second registration as
  aborted.  The first one is still committed, and its manifest is gone.

**Fairness.**  The liveness properties of the lock and of HudLaunch need some.  `WF(Proceed(w))`:
a running process goes on, no call blocks while the lock is held.
`WF(ReconcileTombstone)`: an assumption on the environment, that an operator
removes the tombstones of finished processes; `TombstonesCleared` is about what
the program contributes, that a writer that runs never keeps a tombstone in use
for ever.  In HudLaunch, `WF(Serve(c))`: a companion that runs goes on and polls;
hooks need no fairness for `ToldToStop`, and nobody has to expire or die.  Nobody has to start an operation, crash, fail or clear a lock file.
The other modules state safety only: a call that does not crash has finitely
many steps.

**Stuttering and stopping.**  `CHECK_DEADLOCK FALSE` is set where every process
may have crashed, and in `MissionCenter`, where components come to rest.
Operation ids are many: `New...Id` lets one that no caller uses any more give its
place to a new one, so that calls do not run out of ids.

## 4. Proofs

Everything in this section holds for every value of the constants, from the
named assumptions on them only (bounds are naturals, `NoWriter`, `NoReceipt`,
`NoPassport`, `NoClaim`, `NoCall` are different from what they stand beside;
packages, trees of users, `Absent` and `Damaged` are different trees, and so are
manifests, manifests of others and `Absent`; a lock is free, leaked or held; the
marks of readers are none of the values they stand beside).  Three assumptions are
about data: a line of Markdown is one thing only (`LinesAssumption`), what
normalisation writes for a status is again a spelling of one
(`SpellingsAssumption`: every such name is one that the parser knows, and a spelling
that is not recognised is left as it is), and `Backlog` and the priority 0 are among
those of rows (`WorkingSetAssumption`: tables start with such rows, and P0 is the
priority that the working set treats as urgent).

* **WriterLockProofs.**  `LockInv` says that a writer which counts on the lock
  file and is not displaced is the creator of the file at the path, that tombstones are known by
  writer and step, and that a displaced writer implies a broken release.  From
  it: `MutexUnlessDisplaced`, `DisplacedOnlyAfterBrokenRelease`, the refinement
  of SingleWriter, and mutual exclusion without exception when tombstones can
  always be read and removed (`MutualExclusionCorrect`).  The last one locates
  the fault: no other failing call and no crash costs a live writer its lock.
* **TaskTransitionProofs.**  Validity at the gate must survive to the write
  although agents write passports meanwhile (`Validated`), what is done so far
  must match the step (`Underway`), and passports with different contents have
  different identities (`DistinctPassports`), so that superseding the passport
  that was read kills the one that was spent (`Dead`).  From it the invariant,
  the three action properties and the refinement of TaskLifecycle.
* **ClaimsProofs.**  A lease in force that its owner knows of is the one on file
  (`Known`), so a call that may touch the file starts only when nobody counts on
  a lease; and what a call has read stays true under the lock (`Reading`).  From
  it the invariants and the refinement of ExclusiveLease, in which a claim that
  is being released counts until the removal is committed or given up.
* **NativeInstallProofs.**  Only the holder of the lock changes trees (`Locked`),
  and attempts are numbered as they prepare (`Numbered`).  While an installation
  swaps, the destinations below the one at hand are swapped and those above as
  before (`Swapping`); while one is taken back, what is left still matches the
  receipt in memory and what is done is as before (`Restoring`); and when nobody
  is at work, the receipt of the last attempt is true of the disk or one rename
  behind it (`Recorded`), which is what a crash leaves and a rollback needs.
  Where only a part was taken back, every destination holds the package, nothing,
  a remainder of the package, or its former tree (`Halfway`), and from this follows
  which destinations may refuse a rollback.  From it all four properties of the
  run and the type invariant.
* **RegistrationProofs.**  Again only the holder of the lock changes the target
  (`Locked`), an operation without a receipt has moved nothing (`Unstaged`), and
  every step of a registration or of one being taken back finds the old manifest
  either unmoved or in the backup (`SwappingBy`, `ReturningBy`).  `ReceiptTrue`
  is what survives when the process does not, and it is what a rollback or a
  reconcile starts from: in `AcquireAtWork` the receipt and the digest of the
  target together say that the old manifest is in the backup, except where an
  equal manifest was there before, which is the exception in
  `TakenBackIsRestored` and the run `ReconcileGuesses`.
* **HudLaunchProofs.**  Hooks work one at a time (`Locked`), and at each step the
  hook at work knows something about its own companion (`WorkBy`); from the
  moment it looks for a new nonce no other companion is wanted and the side
  panel shows none (`Alone`), apart from the stray ones.  Companions may move at
  any time, which disturbs none of it: being wanted can only end.  From it
  `Accounted`, `ReportTrue`, and `OneCompanion`.  When a hook dies, only the steps
  named in `Exposed` lose sight of a companion; in every other step the metadata
  names it, or it is not running (`Ending`).

* **OperationsProofs.**  *Scaffold*: what init has put in place of a file is the
  template, and it never plans to replace a `tasks.md` that is there, so no
  rollback can either; and when it fails, undisturbed, every template is as it
  was found.  *ExternalOperations*: whatever was told is the record on
  file and its own receipt is committed; the rollback of a call only ever meets a
  receipt that this call has not committed (`ExternalInv`).  From it `ToldIsFinal`,
  `NoResultByError` and `ResultsStand`.  *RetryGate*: cutting a list of attempts to
  the latest ones never adds to a count (`Recent`), and diagnosis that was unseen
  is not empty after it was cut; so the next snapshot is justified whenever the
  last one was (`Justified`); and what a shut gate still has to see is told from
  the attempts it keeps: where nothing was waived they repeat a failure or a
  verification is due, so no attempt that is added opens it.  *PulseLedger*: a pulse is only appended after a
  pulse that has caused it, under an id that is not on the ledger unless it was
  missed (`PulsesSound`), and a committed receipt or an answer is about a pulse that is on
  the ledger (`PulsesTold`).  In a ledger that parses a cause stands before its
  effect (`CauseBefore`), so the recursion of `Lineage` is well founded
  (`LineageDefined`), what it yields is a chain of causes of one task
  (`LineageIsChain`), and a handoff is the end of one: `HandoffTrue`.  *Closeout* and *Sync*: while a call is under
  way it remembers what it has found and how far it has written; from that to the
  end of the rollback the files are as found, but for the writes still to be taken
  back (`CloseoutInv`, `SyncInv`).  *ProjectMap*: what is written so far is
  the rendering, and once the sources were read again the rendering is of a version
  that was current under the lock (`MapInv`).  *NormalizeTasks*: the parser goes
  through a document line by line, so two documents of the same length whose lines
  are pairwise the same rows, or both no rows, are read alike; the proof follows the
  two readings side by side (`SameTasks`) and shows that a rewritten line keeps its
  id and a status that parses to the same one, and that rewriting twice is
  rewriting once (`NormalizedAgain`): `RewritesSameTasks`.  The last part shows that the conjunction of all
  these is an invariant of the composition (`OperationsInv`): a step of one part
  leaves the variables of every other alone, and the variables of the frame,
  which the parts share, are read under `part`.  From it `ToldStands`, `Restored`,
  `FilesTrue`, `GateJustified`, `TasksKept` and `StepsSound` as the run
  `MissionCenter` checks them.
* **ReaderProofs.**  *HudTasks*: what the thread has in hand is what it has read, marked
  as the server expects it (`ViewInv`); a share that is rounded stays between 0 and
  a hundred (`RoundedShare`), and the headline counts all rows.  *RuntimeReducer*: the record of an agent
  has the highest sequence number heard of it, and an event that is applied was
  not applied before, remembered or not (`ReducerInv`).  *HudServers*: whoever has
  the table is alone with it, who goes to bind has cleared the entry, and only a
  shutdown of all has servers left to see to (`JobsInOrder`); so a server that
  listens is in the table, on its way there, closing or seen to, or was given up
  over a panic (`ListenersSeen`).
  *Evidence*: an envelope that was judged valid is not flawed and, when current,
  has the digest that the inspection has cached for its scope file, and a cached
  digest stays until the inspection ends (`EvidenceInv`), which is why two
  envelopes about one file cannot be satisfied by two versions of it.
  *Reconciler*: until a source changes, what was written is what would be written
  now (`ReconcilerInv`), and what would be written passes the checks.
  *ResumePacket*: fingerprints are of sources as they were while the packet was
  made (`PrintsAreMoments`), each file that was not found is to be read next
  (`AbsentIsNamed`), and sections are cut from the last one on, each until it is
  empty, before an earlier one is touched (`CutFromTheEnd`); together `ResumeInv`,
  from which `PacketHonest`.  *WorkingSet*: a set of rows has one arrangement in the
  order of a relation that orders it (`ArrangedIsWhole`), the queue is four parts
  one after the other, each with all its rows (`PartsOfQueue`), a selection along
  the queue takes every row until it is full (`SelectionGrows`), so whatever is left
  out stands behind all that was taken (`LeftOutBehind`): `WorkingSetFair`.
  *ExperimentFront*: a candidate has no more accepted rows in a case than attempts
  and than retries allow, and the tokens used are within the limit (`ExperimentInv`,
  `CostGrows`); and of the rows that are no worse than a given one, the one that
  fewest others beat is on the front (`FrontOfRows`), since dominance is transitive
  and irreflexive: `FrontCovers`.  *ExperimentRoute*: by the cases of the profile
  (`AdviceJustified`).  The last part takes `HudTrue`, `ViewIsLastRead`,
  `VerdictsTrue`, `OverviewsTrue` and `AdviceSound` to the composition that TLC
  checks, and with OperationsProofs `TypeOK`.  Assumed besides the bounds: `NoView`,
  `Nobody`, `NoRecord`, `Unread` and the marks `Absent`, `Own`, `Damaged` are none
  of the values they stand beside (`UnreadAssumption`, `MarksAssumption`).

**Induction over data.**  Sums, lineages, selections and readings are recursive
functions.  The induction theorems of the library take the induction hypothesis as
an operator, which the provers cannot instantiate; the first part of OperationsProofs
states induction with sets instead: a set of numbers that is not empty has a least one
(`LeastNatural`), a set that has 0 and every successor has all numbers
(`NatSetInduction`), and the same for the subsets of a finite set
(`SubsetInduction`).  From them follow that a function defined by a fold exists
(`FoldExists`), that a sum over a set does not depend on which element is taken
first (`SumAnyOrder`), and that the folds of the community modules are such sums
(`ChosenSum`).  Orders are stated as sets of pairs for the same reason (`Arranged`).

Every invariant and every action property of a passing run is proved, and so are the
refinements of SingleWriter, TaskLifecycle and ExclusiveLease.  Only model-checked:
the liveness of the lock and of companions (`LockReturned`, `TombstonesCleared`,
`ToldToStop`), since liveness and ENABLED are out of the prover's reach.  No module
has a RECURSIVE operator.  Not a theorem, because they are false: the properties of
the violation runs.

## 5. Not modelled

Text conversions (Markdown tables, JSON, digests, rendering), path and size
checks, and command line parsing; a digest stands for what it covers.  Power
loss is not modelled beyond the failing directory synchronisation: a rename that
returned is taken to be durable.  Windows differs in having no directory
synchronisation, so failures after the rename do not occur there.  The parts of
the system that have no module are listed in `PROJECT.json` with the reason:
verify and doctor, which only report; validators and release manifests, which are
pure functions of one document; HTTP and argument parsing; the Python scripts,
which the Rust program replaces; vendored crates.

In NativeInstall every operation has the same destinations, checks of paths and
layouts succeed, and a reconcile is one call per receipt: in the code one scan
takes several, and looks for unknown files only once, before the first.
A tree is compared as a whole, which is what its digest is for.  Copies left by
an installation that died before it wrote a receipt are forgotten: their names
are never used again.  Users change destinations only while no command is at
work; nothing in the code could notice the contrary.
In Registration an operation id registers once, as in the code, so temporaries
and backups are known by their operations.  The temporary and the receipt are
written in one step: in between nothing is known to any receipt, and a temporary
that a crash leaves there is forgotten.  A reconcile is one call per receipt, as
above.  Others change the target only while no command is at work.
In HudLaunch a healthy companion may be found unhealthy, and a valid record
invalid (another version of the program), whenever a hook looks; ports and
fingerprints are part of the question whether it answers as itself.  A failed
start of the server and a failed ready file end the process (`Expire`).
Temporary files that a crash leaves are never looked at.

The operations of LockedOperation: nobody writes scaffold files without the lock
while an init holds it; timestamps, notes, budgets and texts of evidence are
carried along and left out.  Evidence is
about one scope file per envelope; legacy routing is left out of the resume
packet, and others change its sources only until it has read the second view
(`Watched`), since it looks at neither again.  Titles and ids in the HUD are
clipped, so payloads fit the limits on JSON.

## 6. Known behaviour that no property forbids

Each of these was met while modelling.  In the first three a comment of the code
promises more than the code does, and the property that would say so is false; the
properties that are checked name the exception instead.  No document promises the
contrary of the others, or the promise is too vague to be a property.

*A restoration that stops half-way.*  `publish` 1687-1689 says that receipts are
written "after every phase so a later rollback can restore the previous tree".  No
receipt is written while an installation is taken back.  Let it have swapped the
first of two destinations and fail at the second; it puts the second one back, and
dies, or fails half-way in removing its package from the first.  The receipt still
has the phases of the swap.  A destination that holds its former tree, or what is
left of a package, does not have the digest of the package, so where its phase is
`backedUp` or `swapped` every later rollback and reconcile is refused
(`publish` 2766), while the tree of the other destination is still in its backup.
`CrashIsRecoverable` says that nothing else is ever refused: as long as nobody
else has changed the destinations, a rollback can begin, except where the
destination in question is one of these two.  `NothingLost` says that the tree is
still there.

*A listener that nobody waits for.*  `runtime` 2373-2376 says that a launch will
"always stop its listener before binding a fresh loopback socket".  `run_server`
leaves its loop on any error of accept and stores that it does not run (2196)
before its listener is dropped.  A launch in between drops the entry, `shutdown`
returns at once (2034-2036), and the launch binds while the port is held, if its
configuration names that port.  `PortHandedOver` excepts a thread that is closing
untold, and nothing else that the launch could have waited for.

*A reconcile that undoes a commit.*  `publish` 2290 says that only started
transactions are rolled back.  Reconcile scans without the lock; an installation
that it has found started may commit and leave the lock, and the rollback that
reconcile calls reads the receipt once more (2238) and takes the committed
installation back.  The steps are `Reconcile`, `Commit`, `Reread`, `Acquire`.

*Installing, registering, launching.*  A lock directory that a crash has left makes every
install, rollback and reconcile end in a conflict until somebody removes it
(`Unlock`).  A registration that dies before its first rename, over a different
manifest, has a started receipt that every reconcile refuses.  One that fails and cannot put
the manifest back may still write that it was aborted; the manifest is then only
in the backup (`NothingLost`), which no command looks at again.  A hook that
dies leaves `hud-autolaunch.lock`, and every later hook reports nothing until
somebody removes the file (`ClearLock`).

*Transitions and claims.*  A committed transition that is repeated after the task
has moved on is turned down by validation before its receipt is looked at
(`workspace` 3287), so the caller cannot tell it from a call that never ran.  A
started receipt that a crash has left blocks its id until `abort_operation` is
called, which the command line does not offer.

*Operations on several files.*  When the commit of an `init` or a `sync` fails
after its rename, the files are put back beside a committed receipt, and the retry
is answered as a replay (`Restored` holds, the retry did nothing).  A closeout that
cannot remove the archive it has just created leaves it, and the retry accepts it
if the text is the same.  `normalize_tasks` has the digest of the source in its
receipt, so the retry of a call that has changed the source is answered with a
conflict; a document that it cannot normalise leaves the receipt started; text
that is appended between its reading and its writing is lost; only the first run
of rows of a table is rewritten.

*External operations.*  The capacity check admits the last record at the limit
before the new file is written, and temporary files count as entries, so the
directory can come to hold more than a query is willing to read (`Entries`).

*Pulses.*  A gate that opens without a pass is not in this list: it is under
`GateReopens`, and `GateJustified` says that there are no more than two ways to it, a
verification that failed and attempts that left the window (`Owed`).  A pulse id
with white space around it is looked up as given and stored trimmed (`workspace`
3682), so it can get on the ledger twice (`missed`), which then no longer parses.

*HUD.*  The reducer admits as many agents as its bound says, though its own
projection to JSON may refuse that many.  `HudServer::shutdown` returns at once to
a second caller while the first is still waiting for the thread, so a launch may
find the port taken, which `PortHandedOver` excuses by the other thread; that it
does the same while a thread closes on its own is described above.  When a server
thread has panicked, `shutdown_all` returns and gives up the servers it has not
come to (`abandoned`): they run on, out of the table.  A launch loads the assets
before it takes the table.  Progress is rounded, so a hundred percent may be shown with
one of two hundred or more tasks open.

*Reports.*  Reconcile looks for task ids in the text of `progress.md`, so a title
that mentions another task makes a conflict of what sync has just written
(`Unambiguous`).  An envelope may be in conflict by `inspect-evidence` while the
commitment that it does not concern is satisfied.  `resume` calls a packet fresh
whose views come from two states of the sources that both were current while it
was made.  Experiments do not refuse negative numbers of tokens, which the model
leaves out.

## 7. Plan

All of the plan of the first version has been carried out: WriterLock,
TaskTransition, Claims, NativeInstall, Registration, HudLaunch, then
ExternalOperations, RetryGate and PulseLedger, Sync, Closeout and ProjectMap as
modules on one frame, RuntimeReducer with HudServers, and beyond the plan
Scaffold, NormalizeTasks, HudTasks, Evidence, Reconciler, ResumePacket,
WorkingSet, ExperimentFront and ExperimentRoute.  What is left:

1. Abstract specifications for installations and pulses (a shelf that has the old
   or the new package, a log that only grows), with the refinement proved.
2. Liveness of the launcher: a launch returns when threads end and locks are fair.
3. Two components at a time in `MCMissionCenter`, where one reads what the other
   writes (sync under resume, closeout under reconcile); ResumePacket and
   Reconciler have those writers as actions of their own today.
