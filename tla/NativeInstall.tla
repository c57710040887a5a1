----------------------------- MODULE NativeInstall -----------------------------
(***************************************************************************)
(* native_install_package, native_rollback_transaction and                 *)
(* native_reconcile_transactions of mission-center-publish: a verified     *)
(* package is put in the place of the tree at each destination, and taken  *)
(* back from a receipt.                                                    *)
(*                                                                         *)
(* Every action between two program counters is one system call, or a run  *)
(* of them that no other process can tell apart.  Processes crash between  *)
(* any two, calls fail, and the directory .lock that excludes the others   *)
(* outlives a crashed process until an operator removes it.  A tree is one *)
(* value; the digest of a tree is the tree.                                *)
(***************************************************************************)
EXTENDS Naturals, FiniteSets

CONSTANTS
    Procs,          \* processes that run the commands
    Operations,     \* operation ids
    Packages,       \* frozen packages, verified when they are loaded
    UserTrees,      \* trees that users keep at destinations
    LastTarget,     \* number of destinations of an installation
    MaxAttempts,    \* bound on the installations that write a receipt
    MaxFaults,      \* bound on the crashes and failing calls
    Absent,         \* there is nothing at this path
    Damaged,        \* what is left of a package that was removed in part
    NoReceipt,      \* there is no receipt of this operation
    NoCall,         \* the process runs no command
    Free, Leaked    \* the lock: not there, or left by a process that is gone

ASSUME BoundsAssumption ==
    LastTarget \in Nat \ {0} /\ MaxAttempts \in Nat /\ MaxFaults \in Nat

ASSUME TreesAssumption ==
    /\ Packages \cap UserTrees = {}
    /\ Absent \notin Packages \cup UserTrees
    /\ Damaged \notin Packages \cup UserTrees
    /\ Damaged # Absent

ASSUME LockAssumption == Free \notin Procs /\ Leaked \notin Procs /\ Free # Leaked

VARIABLES
    dst,        \* what is at each destination
    tmp,        \* tmp[a][i]: the package copied by attempt a for i is there
    bak,        \* bak[a][i]: what attempt a has moved away from destination i
    receipt,    \* <operation>.json
    lock,       \* the process that created .lock
    residue,    \* a temporary receipt file has been left behind
    last,       \* attempts so far; an attempt has a nonce of its own
    pc,         \* where each process is
    call,       \* the command it runs
    mem,        \* the receipt it holds in memory
    at,         \* the target its loop has come to
    faults,     \* crashes and failing calls so far
    before,     \* history: the destinations when an attempt was prepared
    moved,      \* history: attempts whose destinations may have been changed since
    touched     \* history: those of them that somebody may have changed who was
                \* not taking back the attempt

vars == <<dst, tmp, bak, receipt, lock, residue, last, pc, call, mem, at,
          faults, before, moved, touched>>

disk == <<dst, tmp, bak, receipt, residue, last>>
history == <<before, moved, touched>>

Targets == 1 .. LastTarget
Attempts == 1 .. MaxAttempts
Trees == Packages \cup UserTrees \cup {Damaged, Absent}

Phases == {"prepared", "backedUp", "swapped", "restored"}

Receipt == [package : Packages, attempt : Attempts,
            status : {"started", "committed", "aborted"},
            phase : [Targets -> Phases]]

\* fresh: the command knows its attempt from a receipt that is up to date,
\* and no restoration and nobody else has changed the destinations since.
Call == [kind : {"install", "rollback", "reconcile"}, op : Operations,
         fresh : BOOLEAN]

ASSUME NoReceiptAssumption == NoReceipt \notin Receipt
ASSUME NoCallAssumption == NoCall \notin Call

Steps == {"idle", "prepare", "backUp", "record", "swapIn", "commit",
          "reread", "acquire", "remove", "putBack", "dropTemp", "settle"}

TypeOK == /\ dst \in [Targets -> Trees]
          /\ tmp \in [Attempts -> [Targets -> BOOLEAN]]
          /\ bak \in [Attempts -> [Targets -> Trees]]
          /\ receipt \in [Operations -> Receipt \cup {NoReceipt}]
          /\ lock \in Procs \cup {Free, Leaked}
          /\ residue \in BOOLEAN
          /\ last \in 0 .. MaxAttempts
          /\ pc \in [Procs -> Steps]
          /\ call \in [Procs -> Call \cup {NoCall}]
          /\ mem \in [Procs -> Receipt \cup {NoReceipt}]
          /\ at \in [Procs -> Targets]
          /\ faults \in 0 .. MaxFaults
          /\ before \in [Attempts -> [Targets -> Trees]]
          /\ moved \subseteq Attempts
          /\ touched \subseteq Attempts

-------------------------------------------------------------------------------
Fault == faults < MaxFaults /\ faults' = faults + 1

Goto(p, step) == pc' = [pc EXCEPT ![p] = step]

\* The command ends; Drop of NativeInstallLock removes .lock.
Return(p) == /\ Goto(p, "idle")
             /\ call' = [call EXCEPT ![p] = NoCall]
             /\ mem' = [mem EXCEPT ![p] = NoReceipt]
             /\ at' = [at EXCEPT ![p] = 1]
             /\ lock' = IF lock = p THEN Free ELSE lock

\* A restoration may have changed the destinations of every attempt so far.
Disturb(p) == /\ moved' = 1 .. last
              /\ touched' = touched \cup ((1 .. last) \ {mem[p].attempt})

SetPhase(p, i, phase) == mem' = [mem EXCEPT ![p].phase[i] = phase]

Set(trees, a, i, tree) == [trees EXCEPT ![a][i] = tree]

\* An operation installs once: anew, or again after a rollback of the same
\* package that has restored every target.  Otherwise the command answers
\* from the receipt, or with a conflict, and changes nothing.
Installable(r, k) ==
    \/ r = NoReceipt
    \/ /\ r # NoReceipt
       /\ r.package = k
       /\ r.status = "aborted"
       /\ \A i \in Targets : r.phase[i] = "restored"

\* Mutant of RestorableAt: the digest at a destination is not compared.
RestorableUnverified(r, i) ==
    CASE r.phase[i] = "prepared" -> dst[i] = Absent \/ bak[r.attempt][i] = Absent
      [] r.phase[i] \in {"backedUp", "swapped"} -> dst[i] # Absent => ~tmp[r.attempt][i]
      [] OTHER -> TRUE

\* Mutant of RestorableAt: a destination is expected where a phase says so.
RestorableInstalled(r, i) ==
    CASE r.phase[i] = "prepared" -> dst[i] = Absent \/ bak[r.attempt][i] = Absent
      [] r.phase[i] \in {"backedUp", "swapped"} ->
             ~tmp[r.attempt][i] /\ dst[i] = r.package
      [] OTHER -> TRUE

\* What restore_native_targets_checked asks of a target ...
RestorableAt(r, i) ==
    CASE r.phase[i] = "prepared" -> dst[i] = Absent \/ bak[r.attempt][i] = Absent
      [] r.phase[i] \in {"backedUp", "swapped"} ->
             dst[i] # Absent => ~tmp[r.attempt][i] /\ dst[i] = r.package
      [] OTHER -> TRUE

\* ... and of all targets before it touches the first.
Restorable(r) == \A i \in Targets : RestorableAt(r, i)

\* What restore_native_targets_with_policy asks of the target it has come to;
\* only a command that has checked all of them may find a destination in
\* phase backedUp.
Removable(p, i) ==
    LET r == mem[p] IN
    CASE r.phase[i] = "prepared" -> dst[i] = Absent \/ bak[r.attempt][i] = Absent
      [] r.phase[i] = "backedUp" -> dst[i] = Absent \/ call[p].kind # "install"
      [] r.phase[i] = "swapped"  -> /\ ~tmp[r.attempt][i]
                                    /\ dst[i] \in {Absent, r.package}
      [] OTHER -> TRUE

Aborted(r) == [r EXCEPT !.status = "aborted",
                        !.phase = [i \in Targets |-> "restored"]]

-------------------------------------------------------------------------------
Init == /\ dst \in [Targets -> UserTrees \cup {Absent}]
        /\ tmp = [a \in Attempts |-> [i \in Targets |-> FALSE]]
        /\ bak = [a \in Attempts |-> [i \in Targets |-> Absent]]
        /\ receipt = [o \in Operations |-> NoReceipt]
        /\ lock = Free
        /\ residue = FALSE
        /\ last = 0
        /\ pc = [p \in Procs |-> "idle"]
        /\ call = [p \in Procs |-> NoCall]
        /\ mem = [p \in Procs |-> NoReceipt]
        /\ at = [p \in Procs |-> 1]
        /\ faults = 0
        /\ before = [a \in Attempts |-> [i \in Targets |-> Absent]]
        /\ moved = {}
        /\ touched = {}

\* native_install_package takes the lock and reads the receipt.
Install(p, o, k) ==
    /\ pc[p] = "idle"
    /\ lock = Free
    /\ last < MaxAttempts
    /\ Installable(receipt[o], k)
    /\ lock' = p
    /\ Goto(p, "prepare")
    /\ call' = [call EXCEPT ![p] = [kind |-> "install", op |-> o, fresh |-> TRUE]]
    /\ mem' = [mem EXCEPT ![p] =
                  [package |-> k, attempt |-> last + 1, status |-> "started",
                   phase |-> [i \in Targets |-> "prepared"]]]
    /\ UNCHANGED <<disk, at, faults, history>>

\* .lock was created and the owner file could not be written: nobody will
\* remove the directory.
LeakLock(p) ==
    /\ pc[p] \in {"idle", "acquire"}
    /\ lock = Free
    /\ Fault
    /\ Goto(p, "idle")
    /\ call' = [call EXCEPT ![p] = NoCall]
    /\ mem' = [mem EXCEPT ![p] = NoReceipt]
    /\ lock' = Leaked
    /\ UNCHANGED <<disk, at, history>>

\* The package is copied beside every destination, then the receipt is
\* written.  If either fails the copies are removed again.
Prepare(p) ==
    LET a == mem[p].attempt IN
    /\ pc[p] = "prepare"
    /\ last' = a
    /\ tmp' = [tmp EXCEPT ![a] = [i \in Targets |-> TRUE]]
    /\ bak' = [bak EXCEPT ![a] = [i \in Targets |-> Absent]]
    /\ receipt' = [receipt EXCEPT ![call[p].op] = mem[p]]
    /\ Goto(p, "backUp")
    /\ before' = [before EXCEPT ![a] = dst]
    /\ moved' = 1 .. last
    /\ touched' = 1 .. last
    /\ UNCHANGED <<dst, lock, residue, call, mem, at, faults>>

PrepareFails(p) ==
    /\ pc[p] = "prepare"
    /\ Fault
    /\ residue' \in {residue, TRUE}
    /\ Return(p)
    /\ UNCHANGED <<dst, tmp, bak, receipt, last, history>>

\* What is at the destination is moved to the backup.
BackUp(p) ==
    LET a == mem[p].attempt
        i == at[p]
    IN  /\ pc[p] = "backUp"
        /\ bak' = IF dst[i] = Absent THEN bak ELSE Set(bak, a, i, dst[i])
        /\ dst' = [dst EXCEPT ![i] = Absent]
        /\ SetPhase(p, i, "backedUp")
        /\ Goto(p, "record")
        /\ UNCHANGED <<tmp, receipt, lock, residue, last, call, at, faults,
                       history>>

\* Mutant of Record: the loop ends one destination early.
RecordToLastButOne(p) ==
    /\ pc[p] = "record"
    /\ receipt' = [receipt EXCEPT ![call[p].op] = mem[p]]
    /\ \/ /\ mem[p].phase[at[p]] = "backedUp"
          /\ Goto(p, "swapIn")
       \/ /\ mem[p].phase[at[p]] = "swapped"
          /\ Goto(p, "commit")
    /\ UNCHANGED <<dst, tmp, bak, lock, residue, last, call, mem, at, faults,
                   history>>

\* The phase reached is written to the receipt; then the other half of the
\* swap, the next destination, or the end.
Record(p) ==
    /\ pc[p] = "record"
    /\ receipt' = [receipt EXCEPT ![call[p].op] = mem[p]]
    /\ \/ /\ mem[p].phase[at[p]] = "backedUp"
          /\ Goto(p, "swapIn")
          /\ UNCHANGED at
       \/ /\ mem[p].phase[at[p]] = "swapped"
          /\ at[p] < LastTarget
          /\ Goto(p, "backUp")
          /\ at' = [at EXCEPT ![p] = @ + 1]
       \/ /\ mem[p].phase[at[p]] = "swapped"
          /\ at[p] = LastTarget
          /\ Goto(p, "commit")
          /\ UNCHANGED at
    /\ UNCHANGED <<dst, tmp, bak, lock, residue, last, call, mem, faults, history>>

\* The copy is moved to the destination.
SwapIn(p) ==
    LET a == mem[p].attempt
        i == at[p]
    IN  /\ pc[p] = "swapIn"
        /\ dst' = [dst EXCEPT ![i] = mem[p].package]
        /\ tmp' = Set(tmp, a, i, FALSE)
        /\ SetPhase(p, i, "swapped")
        /\ Goto(p, "record")
        /\ UNCHANGED <<bak, receipt, lock, residue, last, call, at, faults,
                       history>>

\* A rename or the writing of a receipt fails while the targets are swapped:
\* all of them are restored, the last one first.
SwapFails(p) ==
    /\ pc[p] \in {"backUp", "record", "swapIn"}
    /\ Fault
    /\ residue' \in IF pc[p] = "record" THEN {residue, TRUE} ELSE {residue}
    /\ Goto(p, "remove")
    /\ at' = [at EXCEPT ![p] = LastTarget]
    /\ UNCHANGED <<dst, tmp, bak, receipt, lock, last, call, mem, history>>

Commit(p) ==
    /\ pc[p] = "commit"
    /\ receipt' = [receipt EXCEPT ![call[p].op] =
                      [mem[p] EXCEPT !.status = "committed"]]
    /\ Return(p)
    /\ UNCHANGED <<dst, tmp, bak, residue, last, faults, history>>

-------------------------------------------------------------------------------
\* native_rollback_transaction reads the receipt before it has the lock.
Rollback(p, o) ==
    /\ pc[p] = "idle"
    /\ receipt[o] # NoReceipt
    /\ Goto(p, "acquire")
    /\ call' = [call EXCEPT ![p] = [kind |-> "rollback", op |-> o, fresh |-> FALSE]]
    /\ mem' = [mem EXCEPT ![p] = receipt[o]]
    /\ UNCHANGED <<disk, lock, at, faults, history>>

\* native_reconcile_transactions scans the directory, in which there must be
\* nothing but receipts and .lock, for started receipts, ...
Reconcile(p, o) ==
    /\ pc[p] = "idle"
    /\ ~residue
    /\ receipt[o] # NoReceipt
    /\ receipt[o].status = "started"
    /\ Goto(p, "reread")
    /\ call' = [call EXCEPT ![p] = [kind |-> "reconcile", op |-> o, fresh |-> FALSE]]
    /\ UNCHANGED <<disk, lock, mem, at, faults, history>>

\* ... and rolls them back, for which the receipt is read once more.
Reread(p) ==
    /\ pc[p] = "reread"
    /\ Goto(p, "acquire")
    /\ mem' = [mem EXCEPT ![p] = receipt[call[p].op]]
    /\ UNCHANGED <<disk, lock, call, at, faults, history>>

\* With the lock the rollback checks all targets, and begins with the last.
Acquire(p) ==
    /\ pc[p] = "acquire"
    /\ lock = Free
    /\ mem[p].status # "aborted"
    /\ Restorable(mem[p])
    /\ lock' = p
    /\ Goto(p, "remove")
    /\ at' = [at EXCEPT ![p] = LastTarget]
    /\ call' = [call EXCEPT ![p].fresh =
                   /\ mem[p] = receipt[call[p].op]
                   /\ mem[p].attempt \notin moved]
    /\ UNCHANGED <<disk, mem, faults, history>>

\* It is refused, or there is nothing to do.
Refuse(p) ==
    /\ pc[p] = "acquire"
    /\ lock # Free \/ mem[p].status = "aborted" \/ ~Restorable(mem[p])
    /\ Return(p)
    /\ UNCHANGED <<disk, faults, history>>

-------------------------------------------------------------------------------
\* The package is removed from the destination of the target, unless the swap
\* had not come to it.
Remove(p) ==
    LET i == at[p] IN
    /\ pc[p] = "remove"
    /\ Removable(p, i)
    /\ dst' = IF mem[p].phase[i] \in {"backedUp", "swapped"}
              THEN [dst EXCEPT ![i] = Absent] ELSE dst
    /\ Goto(p, "putBack")
    /\ Disturb(p)
    /\ UNCHANGED <<tmp, bak, receipt, lock, residue, last, call, mem, at, faults,
                   before>>

\* Mutant of PutBack: the backup stays where it is.
PutBackNothing(p) ==
    /\ pc[p] = "putBack"
    /\ Goto(p, "dropTemp")
    /\ UNCHANGED <<disk, lock, call, mem, at, faults, history>>

\* The backup, if there is one, returns to the destination.
PutBack(p) ==
    LET a == mem[p].attempt
        i == at[p]
    IN  /\ pc[p] = "putBack"
        /\ IF bak[a][i] = Absent \/ mem[p].phase[i] = "restored"
           THEN UNCHANGED <<dst, bak>>
           ELSE /\ dst' = [dst EXCEPT ![i] = bak[a][i]]
                /\ bak' = Set(bak, a, i, Absent)
        /\ Goto(p, "dropTemp")
        /\ UNCHANGED <<tmp, receipt, lock, residue, last, call, mem, at, faults,
                       history>>

\* Mutant of DropTemp: the loop goes on below the first target.
DropTempForEver(p) ==
    /\ pc[p] = "dropTemp"
    /\ tmp' = Set(tmp, mem[p].attempt, at[p], FALSE)
    /\ Goto(p, "remove")
    /\ at' = [at EXCEPT ![p] = @ - 1]
    /\ UNCHANGED <<dst, bak, receipt, lock, residue, last, call, mem, faults,
                   history>>

\* The copy of the package is removed; the loop goes to the target before.
DropTemp(p) ==
    /\ pc[p] = "dropTemp"
    /\ tmp' = Set(tmp, mem[p].attempt, at[p], FALSE)
    /\ IF at[p] > 1 THEN Goto(p, "remove") /\ at' = [at EXCEPT ![p] = @ - 1]
                    ELSE Goto(p, "settle") /\ UNCHANGED at
    /\ UNCHANGED <<dst, bak, receipt, lock, residue, last, call, mem, faults,
                   history>>

Settle(p) ==
    /\ pc[p] = "settle"
    /\ receipt' = [receipt EXCEPT ![call[p].op] = Aborted(mem[p])]
    /\ Return(p)
    /\ UNCHANGED <<dst, tmp, bak, residue, last, faults, history>>

\* The removal of a directory ends in the middle.
HalfRemove(p) ==
    LET i == at[p] IN
    /\ pc[p] = "remove"
    /\ Removable(p, i)
    /\ mem[p].phase[i] \in {"backedUp", "swapped"}
    /\ dst[i] # Absent
    /\ dst' = [dst EXCEPT ![i] = Damaged]

\* The target is not as expected, a call fails, or the last receipt cannot be
\* written: the command ends and leaves the rest as it is.
GiveUp(p) ==
    /\ pc[p] \in {"remove", "putBack", "dropTemp", "settle", "commit"}
    /\ \/ /\ pc[p] = "remove"
          /\ ~Removable(p, at[p])
          /\ UNCHANGED <<dst, residue, faults>>
       \/ /\ pc[p] = "remove"
          /\ Removable(p, at[p])
          /\ Fault
          /\ UNCHANGED dst \/ HalfRemove(p)
          /\ UNCHANGED residue
       \/ /\ pc[p] # "remove"
          /\ Fault
          /\ residue' \in IF pc[p] \in {"settle", "commit"} THEN {residue, TRUE}
                                                            ELSE {residue}
          /\ UNCHANGED dst
    /\ IF pc[p] = "remove" THEN Disturb(p) ELSE UNCHANGED <<moved, touched>>
    /\ Return(p)
    /\ UNCHANGED <<tmp, bak, receipt, last, before>>

-------------------------------------------------------------------------------
\* The process is gone; its lock is not.  In the middle of writing a receipt
\* it leaves the temporary file.
Crash(p) ==
    /\ pc[p] # "idle"
    /\ Fault
    /\ residue' \in IF pc[p] \in {"prepare", "record", "commit", "settle"}
                    THEN {residue, TRUE} ELSE {residue}
    /\ Goto(p, "idle")
    /\ call' = [call EXCEPT ![p] = NoCall]
    /\ mem' = [mem EXCEPT ![p] = NoReceipt]
    /\ at' = [at EXCEPT ![p] = 1]
    /\ lock' = IF lock = p THEN Leaked ELSE lock
    /\ \/ UNCHANGED <<dst, moved, touched>>
       \/ HalfRemove(p) /\ Disturb(p)
    /\ UNCHANGED <<tmp, bak, receipt, last, before>>

\* An operator removes the directory of a process that is gone, ...
Unlock == /\ lock = Leaked
          /\ lock' = Free
          /\ UNCHANGED <<disk, pc, call, mem, at, faults, history>>

\* ... and the temporary files that stop the scan.
Clean == /\ residue
         /\ lock \notin Procs
         /\ residue' = FALSE
         /\ UNCHANGED <<dst, tmp, bak, receipt, lock, last, pc, call, mem, at,
                        faults, history>>

\* A user puts a tree of their own at a destination, while no command that
\* changes destinations is at work.
Edit(i, t) ==
    /\ lock \notin Procs
    /\ dst[i] \notin UserTrees
    /\ dst' = [dst EXCEPT ![i] = t]
    /\ moved' = 1 .. last
    /\ touched' = 1 .. last
    /\ UNCHANGED <<tmp, bak, receipt, lock, residue, last, pc, call, mem, at,
                   faults, before>>

Progress(p) == \/ Prepare(p) \/ BackUp(p) \/ Record(p) \/ SwapIn(p) \/ Commit(p)
               \/ Reread(p) \/ Acquire(p) \/ Refuse(p)
               \/ Remove(p) \/ PutBack(p) \/ DropTemp(p) \/ Settle(p)
               \/ GiveUp(p)

Next == \/ \E p \in Procs :
              \/ \E o \in Operations : \/ \E k \in Packages : Install(p, o, k)
                                       \/ Rollback(p, o)
                                       \/ Reconcile(p, o)
              \/ Progress(p)
              \/ LeakLock(p)
              \/ PrepareFails(p)
              \/ SwapFails(p)
              \/ Crash(p)
        \/ Unlock
        \/ Clean
        \/ \E i \in Targets, t \in UserTrees : Edit(i, t)

Spec == Init /\ [][Next]_vars

-------------------------------------------------------------------------------
\* A tree of a user is at its destination or in a backup of it.
Kept(i, t) == dst[i] = t \/ \E a \in Attempts : bak[a][i] = t

\* No command destroys a tree that a user has put at a destination, whatever
\* fails, crashes or runs at the same time: what is removed is a package, in
\* the state in which it was installed.
NothingLost ==
    [][\A i \in Targets, t \in UserTrees : Kept(i, t) => Kept(i, t)']_vars

\* A receipt becomes committed when the package is at every destination.
CommittedIsInstalled ==
    [][\A o \in Operations :
          (receipt'[o] # receipt[o] /\ receipt'[o].status = "committed")
          => \A i \in Targets : dst'[i] = receipt'[o].package]_vars

\* A receipt becomes aborted when every destination holds what it held before
\* the installation, be it by the installation that failed or by a rollback
\* from an up-to-date receipt.
AbortedIsRestored ==
    [][\A p \in Procs :
          (pc[p] = "settle" /\ call[p].fresh /\ receipt' # receipt /\ pc'[p] = "idle")
          => dst' = before[mem[p].attempt]]_vars

\* Wherever an installation, or a command that takes it back, has stopped, the
\* receipt lets a rollback begin, until somebody else changes the destinations.
\* Only what was being taken back may refuse it: a destination that holds its
\* former tree again, or a package that was removed in part.
CrashIsRecoverable ==
    \A o \in Operations :
        LET r == receipt[o] IN
        (r # NoReceipt /\ lock \notin Procs /\ r.attempt \notin touched)
        => \A i \in Targets :
              \/ RestorableAt(r, i)
              \/ /\ r.attempt \in moved
                 /\ dst[i] \in {before[r.attempt][i], Damaged}
===============================================================================
