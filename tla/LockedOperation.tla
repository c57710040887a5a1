--------------------------- MODULE LockedOperation ----------------------------
(***************************************************************************)
(* The protocol that the write operations of mission-center-workspace      *)
(* share: a call takes the writer lock, reads, begins a receipt, writes    *)
(* its files, commits the receipt, or undoes what it wrote and aborts the  *)
(* receipt, and gives the lock back.  The modules that extend this one add *)
(* their files, what their calls read before the receipt, and the writes   *)
(* in between.                                                             *)
(*                                                                         *)
(* One call is in flight at a time (SingleWriter.tla).  A call carries the *)
(* id and the digest of its receipt, in the fields id and digest, next to  *)
(* what its own operation needs.  Any write may fail before or after it    *)
(* took effect; a process may crash between two of them.                   *)
(***************************************************************************)
EXTENDS Naturals, AtomicFile, OperationReceipts

CONSTANTS
    NoCall,         \* no call is in flight
    MaxFaults       \* bound on the number of failing writes and crashes

ASSUME FaultsAssumption == MaxFaults \in Nat

VARIABLES
    receipts,   \* .mission-center/operations/<id>.json
    lock,       \* the writer lock: free, held by the call, or left by a crash
    step,       \* where the call in flight is
    call,       \* what it was asked and what it has read
    answer,     \* what it is going to return
    faults      \* number of failing writes and crashes so far

opVars == <<receipts, lock, step, call, answer, faults>>

\* RecoveryUnknown is the error that says what is on the disk is not known.
Answers == {"none", "ok", "replay", "error", "recovery_unknown"}

OpTypeOK(ids, digests, calls, steps) ==
    /\ receipts \in [ids -> Receipts(digests) \cup {NoReceipt}]
    /\ lock \in {"free", "held", "stale"}
    /\ step \in steps \cup {"idle"}
    /\ call \in IF step = "idle" THEN {NoCall} ELSE calls
    /\ answer \in Answers
    /\ faults \in 0 .. MaxFaults

OpInit(ids) == /\ receipts = [i \in ids |-> NoReceipt]
               /\ lock = "free"
               /\ step = "idle"
               /\ call = NoCall
               /\ answer = "none"
               /\ faults = 0

-------------------------------------------------------------------------------
receipt == receipts[call.id]

Write(outcome) == IF Failed(outcome)
                  THEN faults < MaxFaults /\ faults' = faults + 1
                  ELSE UNCHANGED faults

SetReceipt(outcome, status) ==
    receipts' = [receipts EXCEPT
        ![call.id] = Written(outcome, receipt, Stamp(call.digest, status))]

\* The next step after a write, or what becomes of the call if it failed.
Continue(outcome, next, otherwise) ==
    IF Failed(outcome)
    THEN step' = otherwise /\ answer' = "error"
    ELSE step' = next /\ UNCHANGED answer

-------------------------------------------------------------------------------
\* A call takes the lock, reads, and goes on or has its answer.
Enter(c, next, result) == /\ step = "idle"
                          /\ lock = "free"
                          /\ lock' = "held"
                          /\ call' = c
                          /\ step' = next
                          /\ answer' = result
                          /\ UNCHANGED <<receipts, faults>>

\* begin_operation_locked; its error leaves without an abort.
Begin(outcome, next) == /\ step = "begin"
                        /\ Startable(receipt, call.digest)
                        /\ Write(outcome)
                        /\ SetReceipt(outcome, "started")
                        /\ Continue(outcome, next, "release")
                        /\ UNCHANGED <<lock, call>>

\* Conflict or AlreadyStarted, or what the operation makes of a Replay.
BeginRefused(onReplay) ==
    /\ step = "begin"
    /\ ~Startable(receipt, call.digest)
    /\ step' = "release"
    /\ answer' = IF Replayed(receipt, call.digest) THEN onReplay ELSE "error"
    /\ UNCHANGED <<receipts, lock, call, faults>>

\* commit_operation_locked on the receipt this call has started.
Commit(outcome, otherwise) ==
    /\ step = "commit"
    /\ Write(outcome)
    /\ SetReceipt(outcome, "committed")
    /\ step' = IF Failed(outcome) THEN otherwise ELSE "release"
    /\ answer' = IF Failed(outcome) THEN "error" ELSE "ok"
    /\ UNCHANGED <<lock, call>>

\* abort_operation_locked, asked for at the given step: only over a started
\* receipt.  onError is the answer of a call whose abort fails too.
Abort(at, outcome, onError) ==
    /\ step = at
    /\ InProgressFor(receipt, call.digest)
    /\ Write(outcome)
    /\ SetReceipt(outcome, "aborted")
    /\ step' = "release"
    /\ answer' = IF Failed(outcome) THEN onError ELSE answer
    /\ UNCHANGED <<lock, call>>

AbortRefused(at, onError) ==
    /\ step = at
    /\ ~InProgressFor(receipt, call.digest)
    /\ step' = "release"
    /\ answer' = onError
    /\ UNCHANGED <<receipts, lock, call, faults>>

End == step' = "idle" /\ call' = NoCall /\ answer' = "none"

Release == /\ step = "release"
           /\ End
           /\ lock' = "free"
           /\ UNCHANGED <<receipts, faults>>

\* release fails, and after it Drop may: the caller gets an error instead.
ReleaseFails == /\ step = "release"
                /\ Write("lost")
                /\ End
                /\ lock' \in {"free", "stale"}
                /\ UNCHANGED receipts

-------------------------------------------------------------------------------
Crash == /\ step # "idle"
         /\ End
         /\ lock' = "stale"
         /\ faults < MaxFaults
         /\ faults' = faults + 1
         /\ UNCHANGED receipts

\* An operator removes the lock file a dead process left.
ReconcileLock == /\ lock = "stale"
                 /\ lock' = "free"
                 /\ UNCHANGED <<receipts, step, call, answer, faults>>

\* abort_operation, the library call, on a receipt a crash left started.
AbortOperation(i) == /\ step = "idle"
                     /\ lock = "free"
                     /\ receipts[i] # NoReceipt
                     /\ receipts[i].status = "started"
                     /\ receipts' = [receipts EXCEPT ![i] =
                                        Stamp(@.digest, "aborted")]
                     /\ UNCHANGED <<lock, step, call, answer, faults>>

\* Operation ids are many: one that no caller uses any more gives its place to
\* a new one.
NewId(i) == /\ step = "idle"
            /\ receipts[i] # NoReceipt
            /\ receipts' = [receipts EXCEPT ![i] = NoReceipt]
            /\ UNCHANGED <<lock, step, call, answer, faults>>
===============================================================================
