------------------------------ MODULE WriterLock ------------------------------
(***************************************************************************)
(* The writer lock of a mission workspace: acquire_writer_lock,            *)
(* WriterLock::release and WriterLock's Drop (mission-center-workspace).   *)
(*                                                                         *)
(* The lock is the file .mission-center/writer.lock.  Acquiring scans the  *)
(* directory for a release tombstone, creates the file exclusively and     *)
(* writes a fresh owner token into it; these are three separate system     *)
(* calls.  Releasing renames the file to a tombstone, compares the token   *)
(* in it with the owner's and removes the tombstone; when release returns  *)
(* an error the value is dropped, and Drop detaches and compares again.    *)
(*                                                                         *)
(* A writer here is one process (one CLI invocation).  A crash is final:   *)
(* a restart is another writer.  A file is known by the writer that        *)
(* created it, because owner tokens carry a fresh nonce: "the token is     *)
(* mine" and "I created this file" are the same question.                  *)
(***************************************************************************)
EXTENDS Naturals

CONSTANTS
    Writers,            \* the processes
    NoWriter,           \* no file at the path writer.lock
    MaxFaults,          \* bound on the number of failed system calls
    TombstoneFaults     \* may release fail to read or remove its tombstone?

ASSUME NoWriterAssumption == NoWriter \notin Writers
ASSUME FaultsAssumption == MaxFaults \in Nat
ASSUME TombstoneFaultsAssumption == TombstoneFaults \in BOOLEAN

VARIABLES
    pc,           \* where each writer is in the protocol
    lockFile,     \* creator of the file at the path writer.lock
    tombstones,   \* files writer.lock.releasing-<nonce>
    faults,       \* system calls that have failed so far
    displaced,    \* history: writers whose live lock another writer unlinked
    broken        \* history: writers that could not read or remove the
                  \* tombstone of a release

history == <<displaced, broken>>
vars == <<pc, lockFile, tombstones, faults, displaced, broken>>

Steps == {"idle", "scanned", "created", "held", "detached",
          "dropping", "dropDetached", "crashed"}

\* The nonce in a tombstone's name makes the names of distinct renames distinct.
Tombstone == [by : Writers, step : {"release", "drop"}, creator : Writers]

TypeOK == /\ pc \in [Writers -> Steps]
          /\ lockFile \in Writers \cup {NoWriter}
          /\ tombstones \subseteq Tombstone
          /\ faults \in 0 .. MaxFaults
          /\ displaced \subseteq Writers
          /\ broken \subseteq Writers

-------------------------------------------------------------------------------
\* The writer has a lock of its own, or is still giving it up.
InUse(w) == pc[w] \notin {"idle", "scanned", "crashed"}

\* The writer counts on the file at writer.lock being its own.
Owning(w) == pc[w] \in {"created", "held"}

TombstoneFound == tombstones # {}

LockExists == lockFile # NoWriter

Goto(w, step) == pc' = [pc EXCEPT ![w] = step]

Fault == /\ faults < MaxFaults
         /\ faults' = faults + 1

\* Bookkeeping of the history variable when w takes the file away from the
\* path writer.lock.
UnlinkedBy(w) == IF \E v \in Writers \ {w} : lockFile = v /\ Owning(v)
                 THEN displaced \cup {lockFile}
                 ELSE displaced

-------------------------------------------------------------------------------
Init == /\ pc = [w \in Writers |-> "idle"]
        /\ lockFile = NoWriter
        /\ tombstones = {}
        /\ faults = 0
        /\ displaced = {}
        /\ broken = {}

(* acquire_writer_lock. *)

\* find_lock_tombstone: a tombstone means Contended, and nothing changes.
Scan(w) == /\ pc[w] = "idle"
           /\ ~TombstoneFound
           /\ Goto(w, "scanned")
           /\ UNCHANGED <<lockFile, tombstones, faults, history>>

\* Mutant of Create: the file is opened with create, not with create_new.
CreateShared(w) == /\ pc[w] = "scanned"
                   /\ lockFile' = w
                   /\ Goto(w, "created")
                   /\ UNCHANGED <<tombstones, faults, history>>

\* OpenOptions::create_new: the file must not exist.
Create(w) == /\ pc[w] = "scanned"
             /\ ~LockExists
             /\ lockFile' = w
             /\ Goto(w, "created")
             /\ UNCHANGED <<tombstones, faults, history>>

Contended(w) == /\ pc[w] = "scanned"
                /\ LockExists
                /\ Goto(w, "idle")
                /\ UNCHANGED <<lockFile, tombstones, faults, history>>

WriteToken(w) == /\ pc[w] = "created"
                 /\ Goto(w, "held")
                 /\ UNCHANGED <<lockFile, tombstones, faults, history>>

\* The token cannot be written: the file at the path is removed, if it can be.
WriteTokenFails(w) == /\ pc[w] = "created"
                      /\ Fault
                      /\ \/ lockFile' = NoWriter /\ displaced' = UnlinkedBy(w) \ {w}
                         \/ lockFile' = lockFile /\ displaced' = displaced \ {w}
                      /\ Goto(w, "idle")
                      /\ UNCHANGED <<tombstones, broken>>

(* WriterLock::release. *)

\* Mutant of RenameToTombstone: the file is copied and stays in place.
CopyToTombstone(w, step) ==
    /\ tombstones' = tombstones \cup
                     {[by |-> w, step |-> step, creator |-> lockFile]}
    /\ UNCHANGED lockFile

RenameToTombstone(w, step) ==
    /\ tombstones' = tombstones \cup
                     {[by |-> w, step |-> step, creator |-> lockFile]}
    /\ lockFile' = NoWriter

Detach(w) == /\ pc[w] = "held"
             /\ LockExists
             /\ RenameToTombstone(w, "release")
             /\ displaced' = UnlinkedBy(w) \ {w}
             /\ Goto(w, "detached")
             /\ UNCHANGED <<faults, broken>>

\* rename finds no file: "writer lock owner changed".
DetachNotFound(w) == /\ pc[w] = "held"
                     /\ ~LockExists
                     /\ displaced' = displaced \ {w}
                     /\ Goto(w, "dropping")
                     /\ UNCHANGED <<lockFile, tombstones, faults, broken>>

DetachFails(w) == /\ pc[w] = "held"
                  /\ Fault
                  /\ displaced' = displaced \ {w}
                  /\ Goto(w, "dropping")
                  /\ UNCHANGED <<lockFile, tombstones, broken>>

\* The tombstone w made in this step of the protocol, if it holds w's own
\* token: no other tombstone may be removed.
OwnDetached(w, step) ==
    {t \in tombstones : t.by = w /\ t.step = step /\ t.creator = w}

\* Mutant of Finish: the comparison is repeated until the token is its own.
FinishInsists(w) == /\ pc[w] = "detached"
                    /\ OwnDetached(w, "release") # {}
                    /\ tombstones' = tombstones \ OwnDetached(w, "release")
                    /\ Goto(w, "idle")
                    /\ UNCHANGED <<lockFile, faults, history>>

\* The token in the tombstone is compared with the owner's; a foreign one is
\* retained, and release returns an error.
Finish(w) == /\ pc[w] = "detached"
             /\ IF OwnDetached(w, "release") # {}
                THEN /\ tombstones' = tombstones \ OwnDetached(w, "release")
                     /\ Goto(w, "idle")
                ELSE Goto(w, "dropping") /\ UNCHANGED tombstones
             /\ UNCHANGED <<lockFile, faults, history>>

\* Reading or removing the tombstone fails: release returns the error.
FinishFails(w) == /\ pc[w] = "detached"
                  /\ TombstoneFaults
                  /\ Fault
                  /\ broken' = broken \cup {w}
                  /\ Goto(w, "dropping")
                  /\ UNCHANGED <<lockFile, tombstones, displaced>>

(* Drop for WriterLock, after release returned an error: best effort. *)

DropDetach(w) == /\ pc[w] = "dropping"
                 /\ LockExists
                 /\ RenameToTombstone(w, "drop")
                 /\ displaced' = UnlinkedBy(w)
                 /\ Goto(w, "dropDetached")
                 /\ UNCHANGED <<faults, broken>>

DropNothing(w) == /\ pc[w] = "dropping"
                  /\ ~LockExists
                  /\ Goto(w, "idle")
                  /\ UNCHANGED <<lockFile, tombstones, faults, history>>

\* rename fails and Drop ignores it: the lock file stays behind.
DropDetachFails(w) == /\ pc[w] = "dropping"
                      /\ Fault
                      /\ Goto(w, "idle")
                      /\ UNCHANGED <<lockFile, tombstones, history>>

DropFinish(w) == /\ pc[w] = "dropDetached"
                 /\ tombstones' = tombstones \ OwnDetached(w, "drop")
                 /\ Goto(w, "idle")
                 /\ UNCHANGED <<lockFile, faults, history>>

DropFinishFails(w) == /\ pc[w] = "dropDetached"
                      /\ Fault
                      /\ Goto(w, "idle")
                      /\ UNCHANGED <<lockFile, tombstones, history>>

(* The environment. *)

Crash(w) == /\ pc[w] \notin {"idle", "crashed"}
            /\ Goto(w, "crashed")
            /\ displaced' = displaced \ {w}
            /\ UNCHANGED <<lockFile, tombstones, faults, broken>>

\* Nothing in the program removes the lock or the tombstone of another
\* process: an operator does, once the processes concerned are gone.
ReconcileLock == /\ LockExists
                 /\ ~InUse(lockFile)
                 /\ lockFile' = NoWriter
                 /\ UNCHANGED <<pc, tombstones, faults, history>>

ReconcileTombstone == /\ \E t \in tombstones :
                            /\ ~InUse(t.by) /\ ~InUse(t.creator)
                            /\ tombstones' = tombstones \ {t}
                      /\ UNCHANGED <<pc, lockFile, faults, history>>

-------------------------------------------------------------------------------
\* What a writer does once it has called acquire, until it is idle again.
Proceed(w) == \/ Create(w) \/ Contended(w) \/ WriteToken(w)
              \/ Detach(w) \/ DetachNotFound(w) \/ Finish(w)
              \/ DropDetach(w) \/ DropNothing(w) \/ DropFinish(w)

Fail(w) == \/ WriteTokenFails(w) \/ DetachFails(w) \/ FinishFails(w)
           \/ DropDetachFails(w) \/ DropFinishFails(w)

Next == \/ \E w \in Writers : Scan(w) \/ Proceed(w) \/ Fail(w) \/ Crash(w)
        \/ ReconcileLock
        \/ ReconcileTombstone

Spec == Init /\ [][Next]_vars

\* A running process takes its next step: no operation blocks while it holds
\* the lock.  That the operator removes the tombstones of finished processes
\* is an assumption on the environment.  Nobody is obliged to start a write,
\* and no fault, crash or removal of a lock file is obliged to happen.
FairSpec == /\ Spec
            /\ \A w \in Writers : WF_vars(Proceed(w))
            /\ WF_vars(ReconcileTombstone)

-------------------------------------------------------------------------------
Holding == {w \in Writers : pc[w] = "held"}

\* acquire_writer_lock is documented to acquire "the single writer lock": two
\* processes are never inside a write operation together.
MutualExclusion == \A v, w \in Holding : v = w

\* Two writers are inside together only if one of them had its lock file
\* unlinked under it by another writer's release, Drop or failed acquire.
MutexUnlessDisplaced ==
    \A v, w \in Holding : v = w \/ v \in displaced \/ w \in displaced

\* A live writer loses its lock file only after some release could not read or
\* remove its own tombstone and went on to Drop.  Crashes and all the other
\* failing system calls never cost a live writer its lock.
DisplacedOnlyAfterBrokenRelease == displaced # {} => broken # {}

\* The protocol on files implements the single writer promise for the writers
\* that keep their lock file: losing the file counts as leaving.
SW == INSTANCE SingleWriter WITH holders <- Holding \ displaced
ImplementsSingleWriter == SW!Spec

\* A writer that neither crashes nor meets a failing system call gives the
\* lock file back, whatever the other writers do.
LockReturned ==
    \A w \in Writers :
        (lockFile = w) ~> (lockFile # w \/ pc[w] = "crashed" \/ faults > 0)

\* A tombstone shuts every new writer out, so none may stay for ever: its own
\* writer removes it, or ends and lets the operator see that it is dead.
TombstonesCleared == (tombstones # {}) ~> (tombstones = {})
===============================================================================
