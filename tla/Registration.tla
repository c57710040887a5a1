------------------------------ MODULE Registration ------------------------------
(***************************************************************************)
(* native_register_marketplace, native_rollback_registration and           *)
(* native_reconcile_registrations of mission-center-publish: the manifest  *)
(* of the local marketplace is replaced under a receipt, and taken back.   *)
(*                                                                         *)
(* An operation id registers once, so the temporary and the backup of a    *)
(* registration are known by its operation.  Locks, receipts and operators *)
(* are as in NativeInstall; a manifest is one value, and so is its digest. *)
(***************************************************************************)
EXTENDS Naturals

CONSTANTS
    Procs,          \* processes that run the commands
    Operations,     \* operation ids
    Manifests,      \* manifests made from plugin.json
    Others,         \* manifests that others have written
    MaxFaults,      \* bound on the crashes and failing calls
    Absent,         \* there is nothing at this path
    NoReceipt,      \* there is no receipt of this operation
    NoCall,         \* the process runs no command
    Free, Leaked    \* the lock: not there, or left by a process that is gone

ASSUME FaultsAssumption == MaxFaults \in Nat

ASSUME ManifestsAssumption ==
    Manifests \cap Others = {} /\ Absent \notin Manifests \cup Others

ASSUME LockAssumption == Free \notin Procs /\ Leaked \notin Procs /\ Free # Leaked

VARIABLES
    target,     \* .agents/plugins/marketplace.json
    tmp,        \* operations whose new manifest is beside it
    bak,        \* bak[o]: what operation o has moved away
    receipt,    \* <operation>.json
    lock,       \* the process that created .lock
    residue,    \* a temporary receipt file has been left behind
    pc,         \* where each process is
    call,       \* the command it runs
    mem,        \* the receipt it holds in memory
    faults,     \* crashes and failing calls so far
    before,     \* history: the target when an operation was staged
    touched     \* history: operations since whose staging others may have
                \*          changed the target

vars == <<target, tmp, bak, receipt, lock, residue, pc, call, mem, faults,
          before, touched>>

disk == <<target, tmp, bak, receipt, residue>>
history == <<before, touched>>

Contents == Manifests \cup Others \cup {Absent}

\* A receipt names the backup exactly when there is a manifest to move away.
Receipt == [manifest : Manifests,
            status : {"started", "committed", "aborted", "rolledback"}]

\* fresh: history of a command that holds the lock.  Nobody else has changed
\* the target since the operation was staged, the command knows the receipt as
\* it is, and it has met no error that it ignores.
Call == [kind : {"register", "rollback", "reconcile"}, op : Operations,
         fresh : BOOLEAN]

ASSUME NoReceiptAssumption == NoReceipt \notin Receipt
ASSUME NoCallAssumption == NoCall \notin Call

Steps == {"idle", "stage", "moveAway", "moveIn", "commit",
          "acquire", "remove", "dropTemp", "putBack", "settle"}

TypeOK == /\ target \in Contents
          /\ tmp \subseteq Operations
          /\ bak \in [Operations -> Contents]
          /\ receipt \in [Operations -> Receipt \cup {NoReceipt}]
          /\ lock \in Procs \cup {Free, Leaked}
          /\ residue \in BOOLEAN
          /\ pc \in [Procs -> Steps]
          /\ call \in [Procs -> Call \cup {NoCall}]
          /\ mem \in [Procs -> Receipt \cup {NoReceipt}]
          /\ faults \in 0 .. MaxFaults
          /\ before \in [Operations -> Contents]
          /\ touched \subseteq Operations

-------------------------------------------------------------------------------
Fault == faults < MaxFaults /\ faults' = faults + 1

Goto(p, step) == pc' = [pc EXCEPT ![p] = step]

\* The command ends; Drop of NativeInstallLock removes .lock.
Return(p) == /\ Goto(p, "idle")
             /\ call' = [call EXCEPT ![p] = NoCall]
             /\ mem' = [mem EXCEPT ![p] = NoReceipt]
             /\ lock' = IF lock = p THEN Free ELSE lock

Start(p, kind, o, step) ==
    /\ pc[p] = "idle"
    /\ Goto(p, step)
    /\ call' = [call EXCEPT ![p] = [kind |-> kind, op |-> o, fresh |-> TRUE]]

\* Mutant of Removable: the digest of the target is not compared.
RemovableUnread(p) == call[p].kind = "rollback" => target # Absent

\* What is at the target may be removed: it has the digest of the receipt.
\* A rollback has to find it, a reconcile may find nothing.
Removable(p) == \/ target = mem[p].manifest
                \/ target = Absent /\ call[p].kind = "reconcile"

\* Mutant of TakenBack: a reconciled receipt gets a status that no reader knows.
TakenBackByName(p) == [mem[p] EXCEPT !.status =
                    IF call[p].kind = "rollback" THEN "rolledback" ELSE call[p].kind]

\* What a command that takes a registration back writes at the end.
TakenBack(p) == [mem[p] EXCEPT !.status =
                    IF call[p].kind = "rollback" THEN "rolledback" ELSE "aborted"]

-------------------------------------------------------------------------------
Init == /\ target \in Others \cup {Absent}
        /\ tmp = {}
        /\ bak = [o \in Operations |-> Absent]
        /\ receipt = [o \in Operations |-> NoReceipt]
        /\ lock = Free
        /\ residue = FALSE
        /\ pc = [p \in Procs |-> "idle"]
        /\ call = [p \in Procs |-> NoCall]
        /\ mem = [p \in Procs |-> NoReceipt]
        /\ faults = 0
        /\ before = [o \in Operations |-> Absent]
        /\ touched = {}

\* native_register_marketplace takes the lock and finds no receipt; with one
\* it answers from it, or with a conflict.
Register(p, o, k) ==
    /\ Start(p, "register", o, "stage")
    /\ lock = Free
    /\ receipt[o] = NoReceipt
    /\ lock' = p
    /\ mem' = [mem EXCEPT ![p] = [manifest |-> k, status |-> "started"]]
    /\ UNCHANGED <<disk, faults, history>>

\* .lock was created and the owner file could not be written: nobody will
\* remove the directory.
LeakLock(p) ==
    /\ pc[p] \in {"idle", "acquire"}
    /\ lock = Free
    /\ Fault
    /\ Goto(p, "idle")
    /\ call' = [call EXCEPT ![p] = NoCall]
    /\ mem' = [mem EXCEPT ![p] = NoReceipt]
    /\ lock' = Leaked
    /\ UNCHANGED <<disk, history>>

\* The manifest is written beside the target, then the receipt.
Stage(p) ==
    LET o == call[p].op IN
    /\ pc[p] = "stage"
    /\ tmp' = tmp \cup {o}
    /\ receipt' = [receipt EXCEPT ![o] = mem[p]]
    /\ Goto(p, "moveAway")
    /\ before' = [before EXCEPT ![o] = target]
    /\ touched' = Operations \ {o}
    /\ UNCHANGED <<target, bak, lock, residue, call, mem, faults>>

\* Either fails; the next attempt uses another temporary.
StageFails(p) ==
    /\ pc[p] = "stage"
    /\ Fault
    /\ residue' \in {residue, TRUE}
    /\ Return(p)
    /\ UNCHANGED <<target, tmp, bak, receipt, history>>

\* Mutant of MoveAway: a manifest that an operation has written gets no backup.
MoveAwayForeign(p) ==
    /\ pc[p] = "moveAway"
    /\ bak' = IF target \in Others THEN [bak EXCEPT ![call[p].op] = target] ELSE bak
    /\ target' = Absent
    /\ Goto(p, "moveIn")
    /\ UNCHANGED <<tmp, receipt, lock, residue, call, mem, faults, history>>

\* What is at the target moves to the backup.
MoveAway(p) ==
    /\ pc[p] = "moveAway"
    /\ bak' = [bak EXCEPT ![call[p].op] = target]
    /\ target' = Absent
    /\ Goto(p, "moveIn")
    /\ UNCHANGED <<tmp, receipt, lock, residue, call, mem, faults, history>>

\* The new manifest moves to the target.
MoveIn(p) ==
    /\ pc[p] = "moveIn"
    /\ target' = mem[p].manifest
    /\ tmp' = tmp \ {call[p].op}
    /\ Goto(p, "commit")
    /\ UNCHANGED <<bak, receipt, lock, residue, call, mem, faults, history>>

\* A rename fails: the registration is taken back.
SwapFails(p) ==
    /\ pc[p] \in {"moveAway", "moveIn"}
    /\ Fault
    /\ Goto(p, "dropTemp")
    /\ UNCHANGED <<disk, lock, call, mem, history>>

Commit(p) ==
    /\ pc[p] = "commit"
    /\ receipt' = [receipt EXCEPT ![call[p].op] =
                      [mem[p] EXCEPT !.status = "committed"]]
    /\ Return(p)
    /\ UNCHANGED <<target, tmp, bak, residue, faults, history>>

-------------------------------------------------------------------------------
\* native_rollback_registration reads a committed receipt, without the lock;
Rollback(p, o) ==
    /\ Start(p, "rollback", o, "acquire")
    /\ receipt[o] # NoReceipt
    /\ receipt[o].status = "committed"
    /\ mem' = [mem EXCEPT ![p] = receipt[o]]
    /\ UNCHANGED <<disk, lock, faults, history>>

\* native_reconcile_registrations a started one, if there is nothing else in
\* the directory.
Reconcile(p, o) ==
    /\ Start(p, "reconcile", o, "acquire")
    /\ ~residue
    /\ receipt[o] # NoReceipt
    /\ receipt[o].status = "started"
    /\ mem' = [mem EXCEPT ![p] = receipt[o]]
    /\ UNCHANGED <<disk, lock, faults, history>>

\* Both compare the target with the receipt when they have the lock.
Acquire(p) ==
    LET o == call[p].op IN
    /\ pc[p] = "acquire"
    /\ lock = Free
    /\ Removable(p)
    /\ lock' = p
    /\ Goto(p, "remove")
    /\ call' = [call EXCEPT ![p].fresh = mem[p] = receipt[o] /\ o \notin touched]
    /\ UNCHANGED <<disk, mem, faults, history>>

\* Somebody has the lock, or the target is not the manifest.
Refuse(p) ==
    /\ pc[p] = "acquire"
    /\ lock # Free \/ ~Removable(p)
    /\ Return(p)
    /\ UNCHANGED <<disk, faults, history>>

\* The manifest is removed from the target.
Remove(p) ==
    /\ pc[p] = "remove"
    /\ target' = Absent
    /\ touched' = Operations
    /\ Goto(p, IF call[p].kind = "rollback" THEN "putBack" ELSE "dropTemp")
    /\ UNCHANGED <<tmp, bak, receipt, lock, residue, call, mem, faults, before>>

\* A temporary that was not moved is removed; a rollback leaves it alone.
DropTemp(p) ==
    /\ pc[p] = "dropTemp"
    /\ tmp' = tmp \ {call[p].op}
    /\ Goto(p, "putBack")
    /\ UNCHANGED <<target, bak, receipt, lock, residue, call, mem, faults,
                   history>>

\* Mutant of PutBack: a registration that fails leaves the backup.
PutBackInRollback(p) ==
    LET o == call[p].op IN
    /\ pc[p] = "putBack"
    /\ IF bak[o] # Absent /\ target = Absent /\ call[p].kind = "rollback"
       THEN /\ target' = bak[o]
            /\ bak' = [bak EXCEPT ![o] = Absent]
       ELSE UNCHANGED <<target, bak>>
    /\ Goto(p, "settle")
    /\ UNCHANGED <<tmp, receipt, lock, residue, call, mem, faults, history>>

\* The backup, if there is one, returns to the target.
PutBack(p) ==
    LET o == call[p].op IN
    /\ pc[p] = "putBack"
    /\ IF bak[o] # Absent /\ target = Absent
       THEN /\ target' = bak[o]
            /\ bak' = [bak EXCEPT ![o] = Absent]
       ELSE UNCHANGED <<target, bak>>
    /\ Goto(p, "settle")
    /\ UNCHANGED <<tmp, receipt, lock, residue, call, mem, faults, history>>

Settle(p) ==
    /\ pc[p] = "settle"
    /\ receipt' = [receipt EXCEPT ![call[p].op] = TakenBack(p)]
    /\ Return(p)
    /\ UNCHANGED <<target, tmp, bak, residue, faults, history>>

\* A registration that takes itself back ignores errors; ...
Ignore(p) ==
    /\ call[p] # NoCall
    /\ call[p].kind = "register"
    /\ Fault
    /\ \/ /\ pc[p] \in {"dropTemp", "putBack"}
          /\ Goto(p, IF pc[p] = "dropTemp" THEN "putBack" ELSE "settle")
          /\ call' = [call EXCEPT ![p].fresh = FALSE]
          /\ UNCHANGED <<lock, mem, residue>>
       \/ /\ pc[p] = "settle"
          /\ residue' \in {residue, TRUE}
          /\ Return(p)
    /\ UNCHANGED <<target, tmp, bak, receipt, history>>

\* ... any other command ends with the first one, and a registration that is
\* in place and cannot be committed.
GiveUp(p) ==
    /\ \/ pc[p] = "commit"
       \/ /\ pc[p] \in {"remove", "dropTemp", "putBack", "settle"}
          /\ call[p].kind # "register"
    /\ Fault
    /\ residue' \in IF pc[p] \in {"commit", "settle"} THEN {residue, TRUE}
                                                      ELSE {residue}
    /\ Return(p)
    /\ UNCHANGED <<target, tmp, bak, receipt, history>>

-------------------------------------------------------------------------------
\* The process is gone; its lock is not.
Crash(p) ==
    /\ pc[p] # "idle"
    /\ Fault
    /\ residue' \in IF pc[p] \in {"stage", "commit", "settle"} THEN {residue, TRUE}
                                                               ELSE {residue}
    /\ Goto(p, "idle")
    /\ call' = [call EXCEPT ![p] = NoCall]
    /\ mem' = [mem EXCEPT ![p] = NoReceipt]
    /\ lock' = IF lock = p THEN Leaked ELSE lock
    /\ UNCHANGED <<target, tmp, bak, receipt, history>>

\* An operator removes the lock of a process that is gone, ...
Unlock == /\ lock = Leaked
          /\ lock' = Free
          /\ UNCHANGED <<disk, pc, call, mem, faults, history>>

\* ... and the temporary files that stop the scan.
Clean == /\ residue
         /\ lock \notin Procs
         /\ residue' = FALSE
         /\ UNCHANGED <<target, tmp, bak, receipt, lock, pc, call, mem, faults,
                        history>>

\* Somebody writes a manifest of their own, while no command is at work.
Edit(t) == /\ lock \notin Procs
           /\ target \notin Others
           /\ target' = t
           /\ touched' = Operations
           /\ UNCHANGED <<tmp, bak, receipt, lock, residue, pc, call, mem,
                          faults, before>>

Progress(p) == \/ Stage(p) \/ MoveAway(p) \/ MoveIn(p) \/ Commit(p)
               \/ Acquire(p) \/ Refuse(p)
               \/ Remove(p) \/ DropTemp(p) \/ PutBack(p) \/ Settle(p)

Next == \/ \E p \in Procs :
              \/ \E o \in Operations : \/ \E k \in Manifests : Register(p, o, k)
                                       \/ Rollback(p, o)
                                       \/ Reconcile(p, o)
              \/ Progress(p)
              \/ LeakLock(p) \/ StageFails(p) \/ SwapFails(p)
              \/ Ignore(p) \/ GiveUp(p) \/ Crash(p)
        \/ Unlock
        \/ Clean
        \/ \E t \in Others : Edit(t)

Spec == Init /\ [][Next]_vars

-------------------------------------------------------------------------------
Kept(t) == target = t \/ \E o \in Operations : bak[o] = t

\* No command destroys a manifest that others have written, whatever fails,
\* crashes or runs at the same time.
NothingLost == [][\A t \in Others : Kept(t) => Kept(t)']_vars

\* Wherever a command is or has stopped, and as long as nobody else changes the
\* target, the receipt says what is there: committed, the new manifest, and
\* started, the old one, nothing, or the new one; what has been moved away is
\* in the backup.
ReceiptTrue ==
    \A o \in Operations :
        (receipt[o] # NoReceipt /\ o \notin touched) =>
            LET moved == bak[o] = before[o] IN
            CASE receipt[o].status = "committed" ->
                     moved /\ target = receipt[o].manifest
              [] receipt[o].status = "started" ->
                     \/ moved /\ target \in {Absent, receipt[o].manifest}
                     \/ target = before[o] /\ bak[o] = Absent
              [] OTHER -> TRUE

\* p writes that the registration it works on has been taken back, from an
\* up-to-date receipt and without an error that it has ignored.
TakesBack(p) == pc[p] = "settle" /\ call[p].fresh /\ receipt' # receipt

\* A registration that is taken back leaves the target as it was before,
\* unless a reconcile has met a manifest that was there before and is equal
\* to the new one.
TakenBackIsRestored ==
    [][\A p \in Procs :
          LET o == call[p].op IN
          (/\ TakesBack(p) /\ pc'[p] = "idle"
           /\ call[p].kind = "reconcile" => before[o] # mem[p].manifest)
          => target' = before[o]]_vars

\* "Any digest/path ambiguity fails closed instead of guessing": without
\* exception.
AmbiguityFailsClosed ==
    [][\A p \in Procs :
          (TakesBack(p) /\ pc'[p] = "idle") => target' = before[call[p].op]]_vars
===============================================================================
