-------------------------------- MODULE Claims --------------------------------
(***************************************************************************)
(* Workspace::claim and Workspace::release_claim on one task: the lease in *)
(* .mission-center/claims/<task>.json, and the receipts of the operations  *)
(* that take it and give it back.                                          *)
(*                                                                         *)
(* Both run under the writer lock (SingleWriter.tla), so one call is in    *)
(* flight at a time, and change two files, one after the other.  Any write *)
(* may fail before or after it took effect, a process may crash between    *)
(* two, and callers retry with the same operation id.  The clock runs on   *)
(* during a call.  Claims of other tasks share only the lock and the       *)
(* operation ids with this one.                                            *)
(***************************************************************************)
EXTENDS Naturals, AtomicFile, OperationReceipts

CONSTANTS
    Operations,     \* operation ids
    Owners,         \* agents that lease the task
    MaxFence,       \* bound on the fences callers pass
    MaxTime,        \* bound on the clock
    NoClaim,        \* there is no claim file
    NoCall,         \* no call is in flight
    MaxFaults       \* bound on the number of failing writes

ASSUME BoundsAssumption ==
    MaxFence \in Nat /\ MaxTime \in Nat /\ MaxFaults \in Nat

VARIABLES
    claim,      \* the claim file
    receipts,   \* .mission-center/operations/<operation>.json
    now,        \* the clock
    lock,       \* the writer lock: free, held by the call, or left by a crash
    step,       \* where the call in flight is
    call,       \* what it was asked
    answer,     \* what it is going to return
    faults,     \* number of writes that have failed so far
    granted     \* history: leases in force that their owners were told of

vars == <<claim, receipts, now, lock, step, call, answer, faults, granted>>

Fences == 1 .. MaxFence
Times == 0 .. MaxTime

\* A claim record carries the operation that wrote it; its digest is its
\* owner, fence and deadline.
Claim == [owner : Owners, fence : Fences, expires : Times, op : Operations]

Lease == [owner : Owners, fence : Fences, expires : Times]

\* What operation digests cover; the deadline is no part of a release.
Request == [kind : {"claim"}, owner : Owners, fence : Fences, expires : Times]
           \cup
           [kind : {"release"}, owner : Owners, fence : Fences, expires : {0}]

\* removed is the claim a release has read before it removes the file.
Calls == [op : Operations, request : Request, removed : Claim \cup {NoClaim}]

ASSUME NoClaimAssumption == NoClaim \notin Claim
ASSUME NoReceiptAssumption == NoReceipt \notin Receipts(Request)

Steps == {"idle", "begin", "write", "remove", "commit", "restore", "abort",
          "rebegin", "recommit", "release"}

TypeOK == /\ claim \in Claim \cup {NoClaim}
          /\ receipts \in [Operations -> Receipts(Request) \cup {NoReceipt}]
          /\ now \in Times
          /\ lock \in {"free", "held", "stale"}
          /\ step \in Steps
          /\ call \in IF step = "idle" THEN {NoCall} ELSE Calls
          /\ answer \in {"none", "ok", "replay", "error"}
          /\ faults \in 0 .. MaxFaults
          /\ granted \subseteq Lease

-------------------------------------------------------------------------------
request == call.request

receipt == receipts[call.op]

Claiming == request.kind = "claim"

LeaseOf(r) == [owner |-> r.owner, fence |-> r.fence, expires |-> r.expires]

\* The record a claim request writes.
Record(o, r) ==
    [owner |-> r.owner, fence |-> r.fence, expires |-> r.expires, op |-> o]

Expired(c) == now >= c.expires

\* Mutant of Blocks: only the fence decides, an active claim is overridden.
BlocksByFence(c, r) == c # NoClaim /\ r.fence <= c.fence

\* Mutant of Blocks: a lapsed claim gives way to any fence.
BlocksWhileActive(c, r) == c # NoClaim /\ ~Expired(c)

\* The claim on file turns the request down: the fence does not increase, or
\* the claim is still active.
Blocks(c, r) == c # NoClaim /\ (r.fence <= c.fence \/ ~Expired(c))

\* Mutant of Owns: any claim of the owner will do.
OwnsAnyFence(c, r) == c # NoClaim /\ c.owner = r.owner

\* The claim on file is the one the release names.
Owns(c, r) == c # NoClaim /\ c.owner = r.owner /\ c.fence = r.fence

Write(outcome) == IF Failed(outcome)
                  THEN faults < MaxFaults /\ faults' = faults + 1
                  ELSE UNCHANGED faults

SetReceipt(outcome, status) ==
    receipts' = [receipts EXCEPT
        ![call.op] = Written(outcome, receipt, Stamp(request, status))]

\* The next step after a write, or what becomes of the call if it failed.
Continue(outcome, next, otherwise) ==
    IF Failed(outcome)
    THEN step' = otherwise /\ answer' = "error"
    ELSE step' = next /\ UNCHANGED answer

-------------------------------------------------------------------------------
Init == /\ claim = NoClaim
        /\ receipts = [o \in Operations |-> NoReceipt]
        /\ now = 0
        /\ lock = "free"
        /\ step = "idle"
        /\ call = NoCall
        /\ answer = "none"
        /\ faults = 0
        /\ granted = {}

\* A call takes the lock and reads the claim; an owner that asks to release
\* no longer counts on its lease.
Enter(o, r, next, result) ==
    /\ step = "idle"
    /\ lock = "free"
    /\ lock' = "held"
    /\ call' = [op |-> o, request |-> r, removed |-> NoClaim]
    /\ step' = next
    /\ answer' = result
    /\ granted' = {l \in granted :
                     ~(r.kind = "release" /\ l.owner = r.owner /\ l.fence = r.fence)}
    /\ UNCHANGED <<claim, receipts, now, faults>>

\* A call that is turned down takes the lock, writes nothing, and gives the
\* lock back.
Refuse == step = "idle" /\ lock = "free" /\ UNCHANGED vars

(* claim. *)

IsClaim(r) == r.kind = "claim" /\ r.expires > now

\* The very record is on file already: an earlier attempt of this operation
\* wrote it, and its receipt is brought to committed.
RepeatClaim(o, r) ==
    /\ IsClaim(r)
    /\ claim = Record(o, r)
    /\ \/ receipts[o] = Stamp(r, "started") /\ Enter(o, r, "recommit", "none")
       \/ receipts[o] = Stamp(r, "aborted") /\ Enter(o, r, "rebegin", "none")
       \/ receipts[o] = Stamp(r, "committed") /\ Enter(o, r, "release", "ok")

RefuseClaim(o, r) == /\ IsClaim(r)
                     /\ claim # Record(o, r)
                     /\ Blocks(claim, r)
                     /\ Refuse

StartClaim(o, r) == /\ IsClaim(r)
                    /\ claim # Record(o, r)
                    /\ ~Blocks(claim, r)
                    /\ Enter(o, r, "begin", "none")

(* release_claim. *)

IsRelease(r) == r.kind = "release"

\* The operation is committed, or its claim is gone and only the receipt is
\* left to bring to committed; over an aborted one the answer is Replay.
RepeatRelease(o, r) ==
    /\ IsRelease(r)
    /\ \/ Replayed(receipts[o], r) /\ Enter(o, r, "release", "replay")
       \/ /\ claim = NoClaim
          /\ \/ receipts[o] = Stamp(r, "started") /\ Enter(o, r, "recommit", "none")
             \/ receipts[o] = Stamp(r, "aborted") /\ Enter(o, r, "release", "replay")

IsCommitted(o) == receipts[o] # NoReceipt /\ receipts[o].status = "committed"

RefuseRelease(o, r) ==
    /\ IsRelease(r)
    /\ ~Replayed(receipts[o], r)
    /\ \/ IsCommitted(o)
       \/ /\ claim = NoClaim
          /\ \A s \in Statuses : receipts[o] # Stamp(r, s)
       \/ claim # NoClaim /\ ~Owns(claim, r)
    /\ Refuse

StartRelease(o, r) == /\ IsRelease(r)
                      /\ ~IsCommitted(o)
                      /\ Owns(claim, r)
                      /\ Enter(o, r, "begin", "none")

(* Both: begin_operation_locked; its error leaves without an abort. *)

Begin(outcome) ==
    /\ step = "begin"
    /\ Startable(receipt, request)
    /\ Write(outcome)
    /\ SetReceipt(outcome, "started")
    /\ Continue(outcome, IF Claiming THEN "write" ELSE "remove", "release")
    /\ UNCHANGED <<claim, now, lock, call, granted>>

\* Conflict or AlreadyStarted.  Replay, for a claim that has been released or
\* superseded since, returns the claim on file if there is one.
BeginRefused ==
    /\ step = "begin"
    /\ ~Startable(receipt, request)
    /\ step' = "release"
    /\ answer' = IF Replayed(receipt, request) /\ claim # NoClaim
                 THEN "replay" ELSE "error"
    /\ UNCHANGED <<claim, receipts, now, lock, call, faults, granted>>

WriteClaim(outcome) ==
    /\ step = "write"
    /\ Write(outcome)
    /\ claim' = Written(outcome, claim, Record(call.op, request))
    /\ Continue(outcome, "commit", "abort")
    /\ UNCHANGED <<receipts, now, lock, call, granted>>

\* Mutant of RemoveClaim: the error of remove_file is ignored.
RemoveClaimUnchecked(outcome) ==
    /\ step = "remove"
    /\ outcome # "late"
    /\ Write(outcome)
    /\ claim' = Written(outcome, claim, NoClaim)
    /\ call' = [call EXCEPT !.removed = claim]
    /\ step' = "commit" /\ UNCHANGED answer
    /\ UNCHANGED <<receipts, now, lock, granted>>

\* The bytes are read, then remove_file: an error leaves the file.
RemoveClaim(outcome) ==
    /\ step = "remove"
    /\ outcome # "late"
    /\ Write(outcome)
    /\ claim' = Written(outcome, claim, NoClaim)
    /\ call' = [call EXCEPT !.removed = claim]
    /\ Continue(outcome, "commit", "abort")
    /\ UNCHANGED <<receipts, now, lock, granted>>

Commit(outcome) ==
    /\ step = "commit"
    /\ Write(outcome)
    /\ SetReceipt(outcome, "committed")
    /\ IF Failed(outcome)
       THEN step' = (IF Claiming THEN "abort" ELSE "restore") /\ answer' = "error"
       ELSE step' = "release" /\ answer' = "ok"
    /\ UNCHANGED <<claim, now, lock, call, granted>>

\* The bytes that were removed are written back.
RestoreClaim(outcome) ==
    /\ step = "restore"
    /\ Write(outcome)
    /\ claim' = Written(outcome, claim, call.removed)
    /\ step' = "abort"
    /\ UNCHANGED <<receipts, now, lock, call, answer, granted>>

\* Only over a started receipt; the call ends in an error either way.
Abort(outcome) ==
    /\ step = "abort"
    /\ InProgressFor(receipt, request)
    /\ Write(outcome)
    /\ SetReceipt(outcome, "aborted")
    /\ step' = "release"
    /\ UNCHANGED <<claim, now, lock, call, answer, granted>>

AbortRefused ==
    /\ step = "abort"
    /\ ~InProgressFor(receipt, request)
    /\ step' = "release"
    /\ UNCHANGED <<claim, receipts, now, lock, call, answer, faults, granted>>

\* A repeated call begins and commits again, and never aborts.
BeginAgain(outcome) ==
    /\ step = "rebegin"
    /\ Write(outcome)
    /\ SetReceipt(outcome, "started")
    /\ Continue(outcome, "recommit", "release")
    /\ UNCHANGED <<claim, now, lock, call, granted>>

CommitAgain(outcome) ==
    /\ step = "recommit"
    /\ Write(outcome)
    /\ SetReceipt(outcome, "committed")
    /\ step' = "release"
    /\ answer' = IF Failed(outcome) THEN "error" ELSE "ok"
    /\ UNCHANGED <<claim, now, lock, call, granted>>

End == step' = "idle" /\ call' = NoCall /\ answer' = "none"

\* The caller of a successful claim knows its lease from here on.
Release == /\ step = "release"
           /\ End
           /\ lock' = "free"
           /\ granted' = IF Claiming /\ answer = "ok" /\ ~Expired(request)
                         THEN granted \cup {LeaseOf(request)} ELSE granted
           /\ UNCHANGED <<claim, receipts, now, faults>>

\* release fails, and after it Drop may: the caller gets an error instead.
ReleaseFails == /\ step = "release"
                /\ Write("lost")
                /\ End
                /\ lock' \in {"free", "stale"}
                /\ UNCHANGED <<claim, receipts, now, granted>>

(* The environment. *)

Tick == /\ now < MaxTime
        /\ now' = now + 1
        /\ granted' = {l \in granted : now' < l.expires}
        /\ UNCHANGED <<claim, receipts, lock, step, call, answer, faults>>

Crash == /\ step # "idle"
         /\ End
         /\ lock' = "stale"
         /\ UNCHANGED <<claim, receipts, now, faults, granted>>

\* An operator removes the lock file a dead process left.
ReconcileLock == /\ lock = "stale"
                 /\ lock' = "free"
                 /\ UNCHANGED <<claim, receipts, now, step, call, answer,
                                faults, granted>>

\* abort_operation, the library call, on a receipt a crash left started.
AbortOperation(o) == /\ step = "idle"
                     /\ lock = "free"
                     /\ receipts[o] # NoReceipt
                     /\ receipts[o].status = "started"
                     /\ receipts' = [receipts EXCEPT ![o] =
                                        Stamp(@.digest, "aborted")]
                     /\ UNCHANGED <<claim, now, lock, step, call, answer,
                                    faults, granted>>

-------------------------------------------------------------------------------
Ask(o, r) == \/ RepeatClaim(o, r) \/ RefuseClaim(o, r) \/ StartClaim(o, r)
             \/ RepeatRelease(o, r) \/ RefuseRelease(o, r) \/ StartRelease(o, r)

Writes(outcome) == \/ Begin(outcome) \/ WriteClaim(outcome)
                   \/ RemoveClaim(outcome) \/ Commit(outcome)
                   \/ RestoreClaim(outcome) \/ Abort(outcome)
                   \/ BeginAgain(outcome) \/ CommitAgain(outcome)

Proceed == \/ \E outcome \in Outcomes : Writes(outcome)
           \/ BeginRefused \/ AbortRefused \/ Release \/ ReleaseFails

Environment == \/ Tick \/ Crash \/ ReconcileLock
               \/ \E o \in Operations : AbortOperation(o)

Next == \/ \E o \in Operations, r \in Request : Ask(o, r)
        \/ Proceed
        \/ Environment

Spec == Init /\ [][Next]_vars

-------------------------------------------------------------------------------
\* Two owners are never both told of a lease in force, whatever fails and
\* whoever retries: agents that hold the task work on it alone.
ExclusiveLease == \A l, m \in granted : l = m

\* A lease an owner was told of stays on file until it lapses or the owner
\* asks to release it: no other call, late retry or rollback takes it away.
LeaseOnFile == \A l \in granted : claim # NoClaim /\ LeaseOf(claim) = l

\* A release that reports success has taken the claim it names off the file.
ReleasedIsGone ==
    step = "release" /\ answer = "ok" /\ IsRelease(request)
        => ~Owns(claim, request)

\* The claim as other agents should count it: one that is being removed counts
\* until the removal is committed or given up.
Counted == IF step \in {"commit", "restore"} /\ ~Claiming
           THEN call.removed ELSE claim

\* Through failing writes, rollbacks, crashes and retries a lease in force is
\* never replaced, and fences grow from lease to lease.
EL == INSTANCE ExclusiveLease
      WITH Leases <- Claim, NoLease <- NoClaim, lease <- Counted
ImplementsLease == EL!Spec

\* A retried release is safe: once it is answered as done, the claim it names
\* is no longer on file.
ReplayedReleaseIsGone ==
    step = "release" /\ answer = "replay" /\ IsRelease(request)
        => ~Owns(claim, request)
===============================================================================
