---------------------------- MODULE TaskTransition ----------------------------
(***************************************************************************)
(* Workspace::transition_task_with_status: one lifecycle move of one task, *)
(* under the writer lock, with an operation receipt and, around Done, a    *)
(* completion passport.                                                    *)
(*                                                                         *)
(* One call reads and validates, begins its receipt, rewrites tasks.md,    *)
(* marks the passport superseded when a Done task is reopened, commits the *)
(* receipt and releases the lock.  Three files change, one at a time, and  *)
(* every write can fail before or after it took effect; a failed passport  *)
(* write makes the call put the old tasks.md back.                         *)
(*                                                                         *)
(* The lock is the single writer of SingleWriter.tla, so at most one call  *)
(* is in flight; a crash leaves the lock file, and an operator removes it. *)
(* Passports are written by agents outside the program, with no lock.      *)
(***************************************************************************)
EXTENDS Naturals, AtomicFile, OperationReceipts, TaskStatuses

CONSTANTS
    Tasks,          \* rows of tasks.md
    Operations,     \* operation ids
    Targets,        \* statuses that calls ask for
    Rows,           \* what a row can say besides its status (its digest)
    NoPassport,     \* there is no passport file, or it is of no use
    NoCall,         \* no call is in flight
    MaxPassports,   \* bound on the number of passports agents write
    MaxFaults       \* bound on the number of failing writes

ASSUME TargetsAssumption == Targets \subseteq TaskStatus
ASSUME BoundsAssumption == MaxPassports \in Nat /\ MaxFaults \in Nat
ASSUME NoPassportAssumption ==
    NoPassport \notin [id : Nat, row : Rows, status : {"current", "superseded"}]
ASSUME NoReceiptAssumption == NoReceipt \notin Receipts(Tasks \X Targets)

VARIABLES
    tasks,      \* the Status column of tasks.md
    rows,       \* the rest of each row
    passports,  \* output/mission-center-passports/<task>.json
    receipts,   \* .mission-center/operations/<operation>.json
    lock,       \* the writer lock: free, held by the call, or left by a crash
    step,       \* where the call in flight is
    call,       \* what the call in flight asked for and has read
    answer,     \* what it is going to return
    issued,     \* number of passports written so far
    faults,     \* number of writes that have failed so far
    spent,      \* history: ids of passports that took their task to Done
    torn        \* history: tasks reopened in tasks.md only

files == <<tasks, rows, passports, receipts>>
history == <<spent, torn>>
vars == <<tasks, rows, passports, receipts, lock, step, call, answer,
          issued, faults, spent, torn>>

Passport == [id : 1 .. MaxPassports, row : Rows,
             status : {"current", "superseded"}]

Requests == Tasks \X Targets

\* seen is the passport the call has read and validated.
Calls == [op : Operations, task : Tasks, from : TaskStatus, to : Targets,
          seen : Passport \cup {NoPassport}]

Steps == {"idle", "begin", "write", "supersede", "restore", "commit",
          "abort", "release"}

TypeOK == /\ tasks \in [Tasks -> TaskStatus]
          /\ rows \in [Tasks -> Rows]
          /\ passports \in [Tasks -> Passport \cup {NoPassport}]
          /\ receipts \in [Operations -> Receipts(Requests) \cup {NoReceipt}]
          /\ lock \in {"free", "held", "stale"}
          /\ step \in Steps
          /\ call \in IF step = "idle" THEN {NoCall} ELSE Calls
          /\ answer \in {"none", "ok", "replay", "rejected", "error"}
          /\ issued \in 0 .. MaxPassports
          /\ faults \in 0 .. MaxFaults
          /\ spent \subseteq 1 .. MaxPassports
          /\ torn \subseteq Tasks

-------------------------------------------------------------------------------
request == <<call.task, call.to>>

receipt == receipts[call.op]

IsCurrent(p) == p # NoPassport /\ p.status = "current"

\* validate_completion_passport: current, and about this very row.
Validates(p, t) == IsCurrent(p) /\ p.row = rows[t]

Superseded(p) == [id |-> p.id, row |-> p.row, status |-> "superseded"]

\* The passport the call will mark superseded.
Reopening == call.from = "Done" /\ call.to = "InProgress"
             /\ call.seen # NoPassport

\* A write of the call: it may fail, and the bound counts failures.
Write(outcome) == IF Failed(outcome)
                  THEN faults < MaxFaults /\ faults' = faults + 1
                  ELSE UNCHANGED faults

SetReceipt(outcome, status) ==
    receipts' = [receipts EXCEPT
        ![call.op] = Written(outcome, receipt, Stamp(request, status))]

SetStatus(outcome, status) ==
    tasks' = [tasks EXCEPT ![call.task] = Written(outcome, @, status)]

-------------------------------------------------------------------------------
Init == /\ tasks \in [Tasks -> TaskStatus]
        /\ rows \in [Tasks -> Rows]
        /\ passports = [t \in Tasks |-> NoPassport]
        /\ receipts = [o \in Operations |-> NoReceipt]
        /\ lock = "free"
        /\ step = "idle"
        /\ call = NoCall
        /\ answer = "none"
        /\ issued = 0
        /\ faults = 0
        /\ spent = {} /\ torn = {}

(* The call: acquire the lock, read tasks.md and the passport, validate. *)

\* The passport the call goes on with: for Done, one that validates; when a
\* Done task is reopened, none if it is missing or superseded already.
Seen(t, to) ==
    IF to = "Done" \/ (tasks[t] = "Done" /\ to = "InProgress"
                       /\ IsCurrent(passports[t]))
    THEN passports[t]
    ELSE NoPassport

\* Mutant of Gate: the passport need not be about the row as it is now.
GateOnAnyPassport(t, to) ==
    to = "Done" => passports[t] # NoPassport

\* Mutant of Admits: can_transition is not asked.
AdmitsAnyMove(t, to) == TRUE

\* transition_status, then the passport of a task that enters Done, or that
\* leaves it with a current passport, must validate.
Gate(t, to) ==
    \/ Seen(t, to) = NoPassport /\ to # "Done"
    \/ Validates(passports[t], t)

Admits(t, to) == CanTransition(tasks[t], to)

Call(o, t, to) == /\ step = "idle"
                  /\ lock = "free"
                  /\ call' = [op |-> o, task |-> t, from |-> tasks[t],
                              to |-> to, seen |-> Seen(t, to)]
                  /\ UNCHANGED <<files, issued, faults, history>>

\* Validation precedes every write.
Accept(o, t, to) == /\ Call(o, t, to)
                    /\ Admits(t, to) /\ Gate(t, to)
                    /\ lock' = "held"
                    /\ step' = "begin"
                    /\ answer' = "none"

Reject(o, t, to) == /\ Call(o, t, to)
                    /\ ~(Admits(t, to) /\ Gate(t, to))
                    /\ lock' = "held"
                    /\ step' = "release"
                    /\ answer' = "rejected"

\* begin_operation_locked; its error leaves without an abort.
Begin(outcome) == /\ step = "begin"
                  /\ Startable(receipt, request)
                  /\ Write(outcome)
                  /\ SetReceipt(outcome, "started")
                  /\ IF Failed(outcome)
                     THEN step' = "release" /\ answer' = "error"
                     ELSE step' = "write" /\ UNCHANGED answer
                  /\ UNCHANGED <<tasks, rows, passports, lock, call, issued,
                                 history>>

\* Nothing is to be done (Replay), or Conflict, or AlreadyStarted.
BeginRefused == /\ step = "begin"
                /\ ~Startable(receipt, request)
                /\ step' = "release"
                /\ answer' = IF Replayed(receipt, request)
                             THEN "replay" ELSE "error"
                /\ UNCHANGED <<files, lock, call, issued, faults, history>>

\* The Status cell of the row is rewritten.
WriteTasks(outcome) ==
    /\ step = "write"
    /\ Write(outcome)
    /\ SetStatus(outcome, call.to)
    /\ IF Failed(outcome)
       THEN step' = "abort" /\ answer' = "error"
       ELSE step' = (IF Reopening THEN "supersede" ELSE "commit")
            /\ UNCHANGED answer
    /\ spent' = IF outcome # "lost" /\ call.to = "Done" /\ call.from # "Done"
                THEN spent \cup {call.seen.id} ELSE spent
    /\ torn' = IF outcome = "late" /\ Reopening
               THEN torn \cup {call.task} ELSE torn
    /\ UNCHANGED <<rows, passports, receipts, lock, call, issued>>

\* Mutant of Supersede: its error is ignored and the call commits.
SupersedeUnchecked(outcome) ==
    /\ step = "supersede"
    /\ Write(outcome)
    /\ passports' = [passports EXCEPT ![call.task] =
           Written(outcome, @, Superseded(call.seen))]
    /\ step' = "commit" /\ UNCHANGED answer
    /\ UNCHANGED <<tasks, rows, receipts, lock, call, issued, history>>

\* The passport that was read, marked superseded, is written back.
Supersede(outcome) ==
    /\ step = "supersede"
    /\ Write(outcome)
    /\ passports' = [passports EXCEPT ![call.task] =
           Written(outcome, @, Superseded(call.seen))]
    /\ IF Failed(outcome)
       THEN step' = "restore" /\ answer' = "error"
       ELSE step' = "commit" /\ UNCHANGED answer
    /\ UNCHANGED <<tasks, rows, receipts, lock, call, issued, history>>

\* Mutant of Restore: after the rollback the call goes on to commit.
RestoreThenCommit(outcome) ==
    /\ step = "restore"
    /\ Write(outcome)
    /\ SetStatus(outcome, call.from)
    /\ step' = "commit"
    /\ torn' = IF outcome = "lost" /\ passports[call.task] = call.seen
               THEN torn \cup {call.task} ELSE torn
    /\ UNCHANGED <<rows, passports, receipts, lock, call, answer, issued, spent>>

\* Best effort: the old tasks.md is written back, the outcome is ignored.
Restore(outcome) ==
    /\ step = "restore"
    /\ Write(outcome)
    /\ SetStatus(outcome, call.from)
    /\ step' = "abort"
    /\ torn' = IF outcome = "lost" /\ passports[call.task] = call.seen
               THEN torn \cup {call.task} ELSE torn
    /\ UNCHANGED <<rows, passports, receipts, lock, call, answer, issued, spent>>

Commit(outcome) ==
    /\ step = "commit"
    /\ InProgressFor(receipt, request)
    /\ Write(outcome)
    /\ SetReceipt(outcome, "committed")
    /\ IF Failed(outcome)
       THEN step' = "abort" /\ answer' = "error"
       ELSE step' = "release" /\ answer' = "ok"
    /\ UNCHANGED <<tasks, rows, passports, lock, call, issued, history>>

\* Best effort, and only over a started receipt.
Abort(outcome) ==
    /\ step = "abort"
    /\ InProgressFor(receipt, request)
    /\ Write(outcome)
    /\ SetReceipt(outcome, "aborted")
    /\ step' = "release"
    /\ UNCHANGED <<tasks, rows, passports, lock, call, answer, issued, history>>

AbortRefused == /\ step = "abort"
                /\ ~InProgressFor(receipt, request)
                /\ step' = "release"
                /\ UNCHANGED <<files, lock, call, answer, issued, faults, history>>

\* The call is over, returned or dead.
End == step' = "idle" /\ call' = NoCall /\ answer' = "none"

Release == /\ step = "release"
           /\ End
           /\ lock' = "free"
           /\ UNCHANGED <<files, issued, faults, history>>

\* release fails, and after it Drop may: the lock file may stay.
ReleaseFails == /\ step = "release"
                /\ Write("lost")
                /\ End
                /\ lock' \in {"free", "stale"}
                /\ UNCHANGED <<files, issued, history>>

(* The environment. *)

\* The reopening call has changed tasks.md and not the passport it read.
HalfReopened == /\ step \in {"supersede", "restore"}
                /\ passports[call.task] = call.seen

Crash == /\ step # "idle"
         /\ End
         /\ lock' = "stale"
         /\ torn' = IF HalfReopened THEN torn \cup {call.task} ELSE torn
         /\ UNCHANGED <<files, issued, faults, spent>>

\* An operator removes the lock file a dead process left.
ReconcileLock == /\ lock = "stale"
                 /\ lock' = "free"
                 /\ UNCHANGED <<files, step, call, answer, issued, faults, history>>

\* abort_operation, the library call, on a receipt a crash left started.
AbortOperation(o) == /\ step = "idle"
                     /\ lock = "free"
                     /\ receipts[o] # NoReceipt
                     /\ receipts[o].status = "started"
                     /\ receipts' = [receipts EXCEPT ![o] =
                                        Stamp(@.digest, "aborted")]
                     /\ UNCHANGED <<tasks, rows, passports, lock, step, call,
                                    answer, issued, faults, history>>

\* An agent writes a new passport for a row; it need not be the row as it is.
IssuePassport(t, row) ==
    /\ issued < MaxPassports
    /\ issued' = issued + 1
    /\ passports' = [passports EXCEPT ![t] =
           [id |-> issued + 1, row |-> row, status |-> "current"]]
    /\ UNCHANGED <<tasks, rows, receipts, lock, step, call, answer, faults,
                   history>>

\* Another writer, with the lock, edits a row and leaves its status alone.
EditRow(t, row) == /\ step = "idle"
                   /\ lock = "free"
                   /\ rows' = [rows EXCEPT ![t] = row]
                   /\ UNCHANGED <<tasks, passports, receipts, lock, step, call,
                                  answer, issued, faults, history>>

-------------------------------------------------------------------------------
Writes(outcome) == \/ Begin(outcome) \/ WriteTasks(outcome)
                   \/ Supersede(outcome) \/ Restore(outcome)
                   \/ Commit(outcome) \/ Abort(outcome)

Proceed == \/ \E outcome \in Outcomes : Writes(outcome)
           \/ BeginRefused \/ AbortRefused \/ Release \/ ReleaseFails

Environment == \/ Crash \/ ReconcileLock
               \/ \E o \in Operations : AbortOperation(o)
               \/ \E t \in Tasks, row \in Rows :
                      IssuePassport(t, row) \/ EditRow(t, row)

Next == \/ \E o \in Operations, t \in Tasks, to \in Targets :
               Accept(o, t, to) \/ Reject(o, t, to)
        \/ Proceed
        \/ Environment

Spec == Init /\ [][Next]_vars

-------------------------------------------------------------------------------
Committed(o) == receipts[o] # NoReceipt /\ receipts[o].status = "committed"

\* The passport on file is current and has taken its task to Done before.
SpentCurrent(t) == IsCurrent(passports[t]) /\ passports[t].id \in spent

\* A task that is not Done has no current passport that already took it to
\* Done once: reopening kills the passport, whatever fails, unless the call
\* was cut between tasks.md and the passport.
ReopenedPassportDead ==
    \A t \in Tasks :
        step = "idle" /\ tasks[t] # "Done" /\ t \notin torn => ~SpentCurrent(t)

\* A task is declared done on a passport that is about its row and has not
\* been used for an earlier completion; putting the old tasks.md back is not
\* a completion.
FreshPassportForDone ==
    [][\A t \in Tasks :
          tasks[t] # "Done" /\ tasks'[t] = "Done" /\ step # "restore"
              => /\ t = call.task /\ call.seen # NoPassport
                 /\ call.seen.row = rows[t]
                 /\ call.seen.id \in spent => t \in torn]_vars

\* Once an operation is committed its receipt never changes again, and calls
\* that replay it move no task.
CommittedFinal ==
    [][\A o \in Operations :
          Committed(o) => /\ receipts'[o] = receipts[o]
                          /\ step # "idle" /\ call.op = o
                                 => tasks' = tasks]_vars

\* A receipt is committed only when tasks.md shows the requested status and,
\* for a reopened task, the passport of the earlier completion is dead,
\* whichever writes of whichever attempts failed before.
CommitsWhatIsDone ==
    [][\A o \in Operations :
          Committed(o)' /\ ~Committed(o) =>
              LET t == receipts'[o].digest[1]
              IN  /\ tasks[t] = receipts'[o].digest[2]
                  /\ t \notin torn /\ tasks[t] # "Done" => ~SpentCurrent(t)]_vars

\* The lifecycle status a reader should go by: while the passport of a task
\* being reopened is still to be superseded, the task counts as Done.
Shown == [t \in Tasks |-> IF step \in {"supersede", "restore"} /\ t = call.task
                         THEN "Done" ELSE tasks[t]]

\* Behind failing writes, rollbacks, crashes and retries, tasks only ever
\* move along the lifecycle.
LC == INSTANCE TaskLifecycle WITH status <- Shown
ImplementsLifecycle == LC!Spec

\* The documented contract of reopening, for every task and every failure: a
\* task that left Done has no current passport from that completion.
ReopenSupersedes ==
    \A t \in Tasks :
        lock = "free" /\ tasks[t] # "Done" => ~SpentCurrent(t)
===============================================================================
