-------------------------- MODULE NativeInstallProofs --------------------------
(***************************************************************************)
(* Proofs about NativeInstall.tla for any processes, operations, packages  *)
(* and destinations, and any number of attempts, crashes and failures.     *)
(*                                                                         *)
(* Only the holder of the lock changes trees (Locked).  Swapping says how  *)
(* far an installation is, Restoring what is left to a command that takes  *)
(* one back, Recorded that the receipt of the last attempt describes the   *)
(* disk as long as nothing of it is taken back, and Halfway what is left   *)
(* of it while only such commands have changed the destinations.           *)
(***************************************************************************)
EXTENDS NativeInstall, TLAPS

Installs == {"backUp", "record", "swapIn", "commit"}
Restores == {"remove", "putBack", "dropTemp", "settle"}
Working == {"prepare"} \cup Installs \cup Restores

Locked ==
    \A p \in Procs :
        /\ lock = p <=> pc[p] \in Working
        /\ pc[p] # "idle" => call[p] # NoCall
        /\ pc[p] \notin {"idle", "reread"} => mem[p] # NoReceipt
        /\ pc[p] = "reread" => receipt[call[p].op] # NoReceipt
        /\ pc[p] \in {"prepare"} \cup Installs =>
               /\ call[p].kind = "install"
               /\ call[p].fresh
               /\ mem[p].status = "started"
        /\ pc[p] = "prepare" => \A i \in Targets : mem[p].phase[i] = "prepared"
        /\ pc[p] \notin Installs \cup Restores => at[p] = 1

\* Attempts are numbered in the order in which they prepare.
Numbered ==
    /\ moved \subseteq 1 .. last
    /\ touched \subseteq moved
    /\ 1 .. last \subseteq touched \cup {last}
    /\ \A o \in Operations : receipt[o] # NoReceipt => receipt[o].attempt <= last
    /\ \A p \in Procs :
           IF pc[p] = "prepare" THEN mem[p].attempt = last + 1
           ELSE mem[p] # NoReceipt => mem[p].attempt <= last
    /\ \A a \in Attempts, i \in Targets : a > last => bak[a][i] = Absent

\* Where attempt a stands with destination i: not begun, moved away, or
\* installed from receipt r.
Before(a, i) == dst[i] = before[a][i] /\ bak[a][i] = Absent
Away(a, i) == dst[i] = Absent /\ bak[a][i] = before[a][i]
In(r, i) == /\ dst[i] = r.package
            /\ ~tmp[r.attempt][i]
            /\ bak[r.attempt][i] = before[r.attempt][i]

\* The phase in receipt r is true of destination i, or one step behind.
Coherent(r, i) ==
    CASE r.phase[i] = "prepared" -> Before(r.attempt, i) \/ Away(r.attempt, i)
      [] r.phase[i] = "backedUp" -> Away(r.attempt, i) \/ In(r, i)
      [] r.phase[i] = "swapped"  -> In(r, i)
      [] OTHER -> FALSE

SwappingAt(p) ==
    LET r == mem[p]
        i == at[p]
    IN  CASE pc[p] = "backUp" -> r.phase[i] = "prepared" /\ Before(r.attempt, i)
          [] pc[p] = "record" ->
                 \/ r.phase[i] = "backedUp" /\ Away(r.attempt, i)
                 \/ r.phase[i] = "swapped" /\ In(r, i)
          [] pc[p] = "swapIn" -> r.phase[i] = "backedUp" /\ Away(r.attempt, i)
          [] pc[p] = "commit" ->
                 i = LastTarget /\ r.phase[i] = "swapped" /\ In(r, i)
          [] OTHER -> TRUE

\* Destinations below at are swapped, those above as before.
Swapping ==
    \A p \in Procs :
        LET r == mem[p] IN
        pc[p] \in Installs =>
            /\ r.attempt = last
            /\ last \notin moved
            /\ \A j \in Targets :
                  /\ j < at[p] => r.phase[j] = "swapped" /\ In(r, j)
                  /\ j > at[p] => r.phase[j] = "prepared" /\ Before(r.attempt, j)
            /\ SwappingAt(p)
            /\ receipt[call[p].op] # NoReceipt
            /\ receipt[call[p].op].attempt = last
            /\ receipt[call[p].op].package = r.package
            /\ pc[p] # "record" => receipt[call[p].op].phase = r.phase
            /\ \A o \in Operations \ {call[p].op} :
                  receipt[o] # NoReceipt => receipt[o].attempt # last

\* Destinations below at are still to be restored; in a rollback what is
\* there is the package.
Restoring ==
    \A p \in Procs :
        LET r == mem[p]
            i == at[p]
            a == r.attempt
            left == IF pc[p] = "remove" THEN 1 .. i ELSE 1 .. i - 1
        IN  /\ pc[p] \in {"remove", "putBack", "dropTemp"} =>
                  \A j \in left :
                      /\ r.phase[j] = "backedUp" =>
                             dst[j] \in {Absent, r.package}
                      /\ call[p].fresh => Coherent(r, j)
            /\ pc[p] = "putBack" =>
                  /\ \/ dst[i] = Absent
                     \/ bak[a][i] = Absent
                     \/ r.phase[i] = "restored"
                  /\ call[p].fresh =>
                        /\ r.phase[i] # "restored"
                        /\ Away(a, i) \/ Before(a, i)
            /\ (pc[p] \in Restores /\ call[p].fresh) =>
                  \A j \in Targets :
                      (pc[p] = "settle" \/ j > i \/ (pc[p] = "dropTemp" /\ j = i))
                      => dst[j] = before[a][j]
            /\ pc[p] \in {"putBack", "dropTemp", "settle"} =>
                  1 .. last \subseteq moved /\ 1 .. last \subseteq touched \cup {a}

\* A receipt is coherent with the disk until something of it is taken back.
Recorded ==
    \A o \in Operations :
        (receipt[o] # NoReceipt /\ receipt[o].attempt \notin moved) =>
            \A i \in Targets : Coherent(receipt[o], i)

\* What commands that take back r may have made of destination i: it holds the
\* package, nothing, what is left of the package, or what it held before.
Half(r, i) ==
    \/ r.phase[i] = "restored"
    \/ /\ bak[r.attempt][i] \in {Absent, before[r.attempt][i]}
       /\ \/ dst[i] \in {Absent, Damaged}
          \/ dst[i] = before[r.attempt][i] /\ bak[r.attempt][i] = Absent
          \/ /\ dst[i] = r.package
             /\ ~tmp[r.attempt][i]
             /\ r.phase[i] = "prepared" => bak[r.attempt][i] = Absent

\* So it is for a receipt whose attempt nobody else has touched.
Halfway ==
    \A o \in Operations :
        (receipt[o] # NoReceipt /\ receipt[o].attempt \notin touched) =>
            \A i \in Targets : Half(receipt[o], i)

Inv == /\ TypeOK
       /\ Locked
       /\ Numbered
       /\ Swapping
       /\ Restoring
       /\ Recorded
       /\ Halfway

-------------------------------------------------------------------------------
\* The steps of one process.
Step(p) ==
    \/ \E o \in Operations : \/ \E k \in Packages : Install(p, o, k)
                             \/ Rollback(p, o)
                             \/ Reconcile(p, o)
    \/ Progress(p)
    \/ LeakLock(p)
    \/ PrepareFails(p)
    \/ SwapFails(p)
    \/ Crash(p)

Others == \/ Unlock
          \/ Clean
          \/ \E i \in Targets, t \in UserTrees : Edit(i, t)
          \/ UNCHANGED vars

LEMMA StepCases == [Next]_vars => (\E p \in Procs : Step(p)) \/ Others
BY DEF Next, Step, Others

\* At first nobody runs anything and there are no receipts.
LEMMA InvInitial == Init => Inv
<1> SUFFICES ASSUME Init PROVE Inv
  OBVIOUS
<1> USE BoundsAssumption, LockAssumption DEF Init
<1>1. TypeOK
  <2>1. /\ dst \in [Targets -> Trees]
        /\ bak \in [Attempts -> [Targets -> Trees]]
        /\ before \in [Attempts -> [Targets -> Trees]]
    BY DEF Trees
  <2>2. at \in [Procs -> Targets]
    BY DEF Targets
  <2>3. /\ tmp \in [Attempts -> [Targets -> BOOLEAN]]
        /\ receipt \in [Operations -> Receipt \cup {NoReceipt}]
        /\ pc \in [Procs -> Steps]
        /\ call \in [Procs -> Call \cup {NoCall}]
        /\ mem \in [Procs -> Receipt \cup {NoReceipt}]
    BY DEF Steps
  <2>4. last \in 0 .. MaxAttempts /\ faults \in 0 .. MaxFaults
    OBVIOUS
  <2>5. QED
    BY <2>1, <2>2, <2>3, <2>4 DEF TypeOK
<1>2. Locked
  BY DEF Locked, Working, Installs, Restores
<1>3. Numbered
  BY DEF Numbered
<1>4. Swapping /\ Restoring /\ Recorded /\ Halfway
  BY DEF Swapping, Restoring, Recorded, Halfway, Installs, Restores
<1>5. QED
  BY <1>1, <1>2, <1>3, <1>4 DEF Inv

\* A step ends a command: memory and program counter are well typed.
LEMMA ReturnTyped ==
    ASSUME TypeOK, NEW p \in Procs, Return(p)
    PROVE  /\ pc' \in [Procs -> Steps] /\ call' \in [Procs -> Call \cup {NoCall}]
           /\ mem' \in [Procs -> Receipt \cup {NoReceipt}]
           /\ at' \in [Procs -> Targets] /\ lock' \in Procs \cup {Free, Leaked}
BY BoundsAssumption DEF TypeOK, Return, Goto, Steps, Targets

\* What a process at work holds in memory.
LEMMA HolderTyped ==
    ASSUME TypeOK, Locked, NEW p \in Procs,
           pc[p] \in Working \cup {"acquire"}
    PROVE  /\ call[p] \in Call /\ mem[p] \in Receipt /\ at[p] \in Targets
           /\ mem[p].attempt \in Attempts /\ mem[p].package \in Packages
           /\ mem[p].phase \in [Targets -> Phases]
           /\ call[p].op \in Operations
BY DEF TypeOK, Locked, Working, Installs, Restores, Call, Receipt

\* A restoration counts attempts that have been made.
LEMMA DisturbTyped ==
    ASSUME TypeOK, NEW p, Disturb(p)
    PROVE  moved' \subseteq Attempts /\ touched' \subseteq Attempts
<1>1. 1 .. last \subseteq Attempts
  BY BoundsAssumption DEF TypeOK, Attempts
<1>2. moved' = 1 .. last /\ touched' \subseteq touched \cup 1 .. last
  BY DEF Disturb
<1>3. touched \subseteq Attempts
  BY DEF TypeOK
<1>. QED  BY <1>1, <1>2, <1>3

\* A command that goes on keeps the state well typed.
LEMMA ProgressTyped ==
    ASSUME TypeOK, Locked, Numbered, NEW p \in Procs, Progress(p)
    PROVE  TypeOK'
<1> USE BoundsAssumption
<1>0. Fault => faults' \in 0 .. MaxFaults
  BY DEF Fault, TypeOK
<1>1. pc[p] \in Working \cup {"acquire"} =>
          /\ call[p] \in Call /\ mem[p] \in Receipt /\ at[p] \in Targets
          /\ mem[p].attempt \in Attempts /\ mem[p].package \in Packages
          /\ mem[p].phase \in [Targets -> Phases]
          /\ call[p].op \in Operations
  BY HolderTyped
<1> USE DEF Working, Installs, Restores
<1>2. CASE Prepare(p)
  <2>1. /\ last' \in 0 .. MaxAttempts
        /\ moved' \subseteq Attempts /\ touched' \subseteq Attempts
    BY <1>1, <1>2 DEF Prepare, TypeOK, Attempts
  <2>2. /\ tmp' \in [Attempts -> [Targets -> BOOLEAN]]
        /\ bak' \in [Attempts -> [Targets -> Trees]]
        /\ before' \in [Attempts -> [Targets -> Trees]]
        /\ receipt' \in [Operations -> Receipt \cup {NoReceipt}]
    BY <1>1, <1>2 DEF Prepare, TypeOK, Trees
  <2>3. QED
    BY <1>2, <2>1, <2>2 DEF Prepare, TypeOK, Goto, Steps
<1>3. CASE BackUp(p)
  <2>1. /\ bak' \in [Attempts -> [Targets -> Trees]]
        /\ dst' \in [Targets -> Trees]
    BY <1>1, <1>3 DEF BackUp, TypeOK, Trees, Set
  <2>2. mem' \in [Procs -> Receipt \cup {NoReceipt}]
    BY <1>1, <1>3 DEF BackUp, TypeOK, SetPhase, Receipt, Phases
  <2>3. QED
    BY <1>3, <2>1, <2>2 DEF BackUp, TypeOK, Goto, Steps, history
<1>4. CASE Record(p)
  <2>1. receipt' \in [Operations -> Receipt \cup {NoReceipt}]
    BY <1>1, <1>4 DEF Record, TypeOK
  <2>2. pc' \in [Procs -> Steps]
    BY <1>4 DEF Record, TypeOK, Goto, Steps
  <2>3. at[p] < LastTarget => at[p] + 1 \in Targets
    BY <1>1, <1>4 DEF Record, Targets
  <2>4. at' \in [Procs -> Targets]
    BY <1>4, <2>3 DEF Record, TypeOK
  <2>5. QED
    BY <1>4, <2>1, <2>2, <2>4 DEF Record, TypeOK, history
<1>5. CASE SwapIn(p)
  <2>1. /\ tmp' \in [Attempts -> [Targets -> BOOLEAN]]
        /\ dst' \in [Targets -> Trees]
    BY <1>1, <1>5 DEF SwapIn, TypeOK, Trees, Set
  <2>2. mem' \in [Procs -> Receipt \cup {NoReceipt}]
    BY <1>1, <1>5 DEF SwapIn, TypeOK, SetPhase, Receipt, Phases
  <2>3. QED
    BY <1>5, <2>1, <2>2 DEF SwapIn, TypeOK, Goto, Steps, history
<1>6. CASE Commit(p)
  <2>1. receipt' \in [Operations -> Receipt \cup {NoReceipt}]
    BY <1>1, <1>6 DEF Commit, TypeOK, Receipt
  <2>2. QED
    BY <1>6, <2>1, ReturnTyped DEF Commit, TypeOK, history
<1>7. CASE Reread(p)
  <2>1. call[p].op \in Operations
    BY <1>7 DEF Reread, TypeOK, Locked, Call
  <2>2. QED
    BY <1>7, <2>1 DEF Reread, TypeOK, Goto, Steps, disk, history
<1>8. CASE Acquire(p)
  <2>1. call' \in [Procs -> Call \cup {NoCall}]
    BY <1>1, <1>8 DEF Acquire, TypeOK, Call
  <2>2. QED
    BY <1>8, <2>1 DEF Acquire, TypeOK, Goto, Steps, Targets, disk, history
<1>9. CASE Refuse(p)
  BY <1>9, ReturnTyped DEF Refuse, TypeOK, disk, history
<1>10. CASE Remove(p)
  <2>1. dst' \in [Targets -> Trees]
    BY <1>1, <1>10 DEF Remove, TypeOK, Trees
  <2>2. moved' \subseteq Attempts /\ touched' \subseteq Attempts
    BY <1>10, DisturbTyped DEF Remove, TypeOK, history
  <2>3. QED
    BY <1>10, <2>1, <2>2 DEF Remove, TypeOK, Goto, Steps
<1>11. CASE PutBack(p)
  <2>0. mem[p].attempt \in Attempts /\ at[p] \in Targets
    BY <1>1, <1>11 DEF PutBack
  <2>1. /\ bak' \in [Attempts -> [Targets -> Trees]]
        /\ dst' \in [Targets -> Trees]
    <3>1. bak[mem[p].attempt][at[p]] \in Trees /\ Absent \in Trees
      BY <2>0 DEF TypeOK, Trees
    <3>2. CASE UNCHANGED <<dst, bak>>
      BY <3>2 DEF TypeOK
    <3>3. CASE /\ dst' = [dst EXCEPT ![at[p]] = bak[mem[p].attempt][at[p]]]
               /\ bak' = Set(bak, mem[p].attempt, at[p], Absent)
      BY <2>0, <3>1, <3>3 DEF TypeOK, Set
    <3>4. QED
      BY <1>11, <3>2, <3>3 DEF PutBack
  <2>2. QED
    BY <1>11, <2>1 DEF PutBack, TypeOK, Goto, Steps, history
<1>12. CASE DropTemp(p)
  <2>1. tmp' \in [Attempts -> [Targets -> BOOLEAN]]
    BY <1>1, <1>12 DEF DropTemp, TypeOK, Set
  <2>2. pc' \in [Procs -> Steps]
    BY <1>12 DEF DropTemp, TypeOK, Goto, Steps
  <2>3. at[p] > 1 => at[p] - 1 \in Targets
    BY <1>1, <1>12 DEF DropTemp, Targets
  <2>4. at' \in [Procs -> Targets]
    BY <1>12, <2>3 DEF DropTemp, TypeOK
  <2>5. QED
    BY <1>12, <2>1, <2>2, <2>4 DEF DropTemp, TypeOK, history
<1>13. CASE Settle(p)
  <2>1. Aborted(mem[p]) \in Receipt
    BY <1>1, <1>13 DEF Settle, Aborted, Receipt, Phases
  <2>2. receipt' \in [Operations -> Receipt \cup {NoReceipt}]
    BY <1>1, <1>13, <2>1 DEF Settle, TypeOK
  <2>3. QED
    BY <1>13, <2>2, ReturnTyped DEF Settle, TypeOK, history
<1>14. CASE GiveUp(p)
  <2>0. moved' \subseteq Attempts /\ touched' \subseteq Attempts
    BY <1>14, DisturbTyped DEF GiveUp, TypeOK, history
  <2>1. dst' \in [Targets -> Trees]
    <3>1. Damaged \in Trees
      BY DEF Trees
    <3>2. dst' = dst \/ dst' = [dst EXCEPT ![at[p]] = Damaged]
      BY <1>14 DEF GiveUp, HalfRemove
    <3>3. QED
      BY <3>1, <3>2 DEF TypeOK
  <2>2. residue' \in BOOLEAN
    BY <1>14, ZenonT(30) DEF GiveUp, TypeOK
  <2>3. faults' \in 0 .. MaxFaults
    BY <1>0, <1>14 DEF GiveUp, TypeOK
  <2>4. QED
    BY <1>14, <2>0, <2>1, <2>2, <2>3, ReturnTyped DEF GiveUp, TypeOK
<1>15. QED
  BY <1>2, <1>3, <1>4, <1>5, <1>6, <1>7, <1>8, <1>9, <1>10, <1>11, <1>12,
     <1>13, <1>14 DEF Progress

\* Every step of a process keeps the state well typed.
LEMMA StepTyped ==
    ASSUME TypeOK, Locked, Numbered, NEW p \in Procs, Step(p)
    PROVE  TypeOK'
<1> USE BoundsAssumption
<1>0. Fault => faults' \in 0 .. MaxFaults
  BY DEF Fault, TypeOK
<1>1. ASSUME NEW o \in Operations, NEW k \in Packages, Install(p, o, k)
      PROVE  TypeOK'
  <2>1. [package |-> k, attempt |-> last + 1, status |-> "started",
         phase |-> [i \in Targets |-> "prepared"]] \in Receipt
    BY <1>1 DEF Install, Receipt, Phases, TypeOK, Attempts
  <2>2. [kind |-> "install", op |-> o, fresh |-> TRUE] \in Call
    BY DEF Call
  <2>3. QED
    BY <1>1, <2>1, <2>2 DEF Install, disk, history, Goto, TypeOK, Steps
<1>2. ASSUME NEW o \in Operations, Rollback(p, o) \/ Reconcile(p, o)
      PROVE  TypeOK'
  <2>1. /\ [kind |-> "rollback", op |-> o, fresh |-> FALSE] \in Call
        /\ [kind |-> "reconcile", op |-> o, fresh |-> FALSE] \in Call
    BY DEF Call
  <2>2. QED
    BY <1>2, <2>1 DEF Rollback, Reconcile, disk, history, Goto, TypeOK, Steps
<1>3. CASE Progress(p)
  BY <1>3, ProgressTyped
<1>4. CASE LeakLock(p) \/ Crash(p)
  <2>1. residue' \in BOOLEAN
    BY <1>4, Zenon DEF LeakLock, Crash, disk, TypeOK
  <2>2. at' \in [Procs -> Targets] /\ pc' \in [Procs -> Steps]
    <3>1. 1 \in Targets
      BY DEF Targets
    <3>2. QED
      BY <1>4, <3>1 DEF LeakLock, Crash, Goto, TypeOK, Steps
  <2>3. /\ dst' \in [Targets -> Trees]
        /\ moved' \subseteq Attempts /\ touched' \subseteq Attempts
    <3>1. Damaged \in Trees
      BY DEF Trees
    <3>2. /\ dst' = dst \/ dst' = [dst EXCEPT ![at[p]] = Damaged]
          /\ moved' = moved \/ moved' = 1 .. last
          /\ touched' \subseteq touched \cup 1 .. last
      BY <1>4 DEF LeakLock, Crash, HalfRemove, Disturb, disk, history
    <3>3. 1 .. last \subseteq Attempts
      BY DEF TypeOK, Attempts
    <3>4. QED
      BY <3>1, <3>2, <3>3 DEF TypeOK
  <2>4. QED
    BY <1>0, <1>4, <2>1, <2>2, <2>3 DEF LeakLock, Crash, disk, history, TypeOK
<1>5. CASE PrepareFails(p)
  <2>1. residue' \in BOOLEAN
    BY <1>5, Zenon DEF PrepareFails, TypeOK
  <2>2. QED
    BY <1>0, <1>5, <2>1, ReturnTyped DEF PrepareFails, history, TypeOK
<1>6. CASE SwapFails(p)
  <2>1. residue' \in BOOLEAN
    BY <1>6, Zenon DEF SwapFails, TypeOK
  <2>2. at' \in [Procs -> Targets] /\ pc' \in [Procs -> Steps]
    BY <1>6 DEF SwapFails, Goto, TypeOK, Steps, Targets
  <2>3. QED
    BY <1>0, <1>6, <2>1, <2>2 DEF SwapFails, history, TypeOK
<1>7. QED
  BY <1>1, <1>2, <1>3, <1>4, <1>5, <1>6 DEF Step

\* So do the operator and the users.
LEMMA OthersTyped == TypeOK /\ Others => TypeOK'
<1> USE BoundsAssumption
<1>1. TypeOK /\ (\E i \in Targets, t \in UserTrees : Edit(i, t)) => TypeOK'
  BY DEF Edit, TypeOK, Trees, Attempts
<1>2. QED
  BY <1>1 DEF Others, Unlock, Clean, TypeOK, vars, disk, history

LEMMA TypePreserved == TypeOK /\ Locked /\ Numbered /\ [Next]_vars => TypeOK'
BY StepCases, StepTyped, OthersTyped

-------------------------------------------------------------------------------
\* A process changes its own place, command and memory only.
Only(p) == \A q \in Procs \ {p} : /\ pc'[q] = pc[q]
                                  /\ call'[q] = call[q]
                                  /\ mem'[q] = mem[q]
                                  /\ at'[q] = at[q]

LEMMA StepOnly ==
    ASSUME TypeOK, NEW p \in Procs, Step(p)
    PROVE  Only(p)
<1> USE DEF TypeOK, Goto, Only
<1>1. ASSUME Progress(p) PROVE Only(p)
  BY <1>1 DEF Progress, Prepare, BackUp, Record, SwapIn, Commit, Reread,
              Acquire, Refuse, Remove, PutBack, DropTemp, Settle, GiveUp,
              Return, SetPhase, disk, history
<1>2. ASSUME ~Progress(p) PROVE Only(p)
  BY <1>2 DEF Step, Install, Rollback, Reconcile, LeakLock, PrepareFails,
              SwapFails, Crash, Return
<1>3. QED
  BY <1>1, <1>2

\* A receipt stays.
LEMMA ReceiptsStay ==
    ASSUME TypeOK, Locked, [Next]_vars, NEW o \in Operations,
           receipt[o] # NoReceipt
    PROVE  receipt'[o] # NoReceipt
<1>1. ASSUME NEW p \in Procs, Step(p)
      PROVE  receipt'[o] # NoReceipt
  <2>1. pc[p] \in Working => mem[p] \in Receipt
    BY HolderTyped
  <2>2. CASE Prepare(p) \/ Record(p)
    BY <2>1, <2>2, NoReceiptAssumption
       DEF Prepare, Record, TypeOK, Working, Installs
  <2>3. CASE Commit(p)
    <3>1. [mem[p] EXCEPT !.status = "committed"] \in Receipt
      BY <2>1, <2>3 DEF Commit, Working, Installs, Receipt
    <3>2. QED
      BY <2>3, <3>1, NoReceiptAssumption DEF Commit, TypeOK
  <2>4. CASE Settle(p)
    <3>1. Aborted(mem[p]) \in Receipt
      BY <2>1, <2>4 DEF Settle, Working, Restores, Receipt, Aborted, Phases
    <3>2. QED
      BY <2>4, <3>1, NoReceiptAssumption DEF Settle, TypeOK
  <2>5. CASE UNCHANGED receipt
    BY <2>5
  <2>6. QED
    BY <1>1, <2>2, <2>3, <2>4, <2>5
       DEF Step, Progress, Install, Rollback, Reconcile, LeakLock,
           PrepareFails, SwapFails, Crash, BackUp, SwapIn, Reread, Acquire,
           Refuse, Remove, PutBack, DropTemp, GiveUp, disk
<1>2. Others => receipt' = receipt
  BY DEF Others, Unlock, Clean, Edit, disk, vars
<1>3. QED
  BY <1>1, <1>2, StepCases

\* What Locked says of one process.
LockedBy(p) ==
    /\ lock = p <=> pc[p] \in Working
    /\ pc[p] # "idle" => call[p] # NoCall
    /\ pc[p] \notin {"idle", "reread"} => mem[p] # NoReceipt
    /\ pc[p] = "reread" => receipt[call[p].op] # NoReceipt
    /\ pc[p] \in {"prepare"} \cup Installs =>
           /\ call[p].kind = "install"
           /\ call[p].fresh
           /\ mem[p].status = "started"
    /\ pc[p] = "prepare" => \A i \in Targets : mem[p].phase[i] = "prepared"
    /\ pc[p] \notin Installs \cup Restores => at[p] = 1

\* The lock is held by the one process that may change trees.
LEMMA LockedPreserved == TypeOK /\ Locked /\ [Next]_vars => Locked'
<1> SUFFICES ASSUME TypeOK, Locked, [Next]_vars
             PROVE  Locked'
  OBVIOUS
<1>1. ASSUME NEW p \in Procs, Step(p)
      PROVE  Locked'
  <2>1. LockedBy(p)'
    <3>0. /\ LockedBy(p)
          /\ pc[p] \in Working \cup {"acquire"} => mem[p] \in Receipt /\ call[p] \in Call
      BY HolderTyped DEF Locked, LockedBy
    <3> USE LockAssumption DEF Working, Installs, Restores
    <3>1. ASSUME NEW o \in Operations, NEW k \in Packages, Install(p, o, k)
          PROVE  LockedBy(p)'
      <4>1. /\ mem'[p] \in Receipt /\ mem'[p].status = "started"
            /\ call'[p] \in Call /\ call'[p].kind = "install" /\ call'[p].fresh
            /\ \A i \in Targets : mem'[p].phase[i] = "prepared"
        <5>1. last + 1 \in Attempts
          BY <3>1, BoundsAssumption DEF Install, Attempts, TypeOK
        <5>2. /\ mem'[p] = [package |-> k, attempt |-> last + 1,
                            status |-> "started",
                            phase |-> [i \in Targets |-> "prepared"]]
              /\ call'[p] = [kind |-> "install", op |-> o, fresh |-> TRUE]
          BY <3>1 DEF Install, TypeOK
        <5>3. QED
          BY <5>1, <5>2 DEF Receipt, Call, Phases
      <4>2. pc'[p] = "prepare" /\ lock' = p /\ at'[p] = 1
        BY <3>0, <3>1 DEF Install, Goto, TypeOK, LockedBy
      <4>3. QED
        BY <4>1, <4>2, NoReceiptAssumption, NoCallAssumption DEF LockedBy
    <3>2. ASSUME NEW o \in Operations, Rollback(p, o) \/ Reconcile(p, o)
          PROVE  LockedBy(p)'
      <4>1. call'[p] \in Call /\ call'[p].op = o
        <5>1. \/ call'[p] = [kind |-> "rollback", op |-> o, fresh |-> FALSE]
              \/ call'[p] = [kind |-> "reconcile", op |-> o, fresh |-> FALSE]
          BY <3>2 DEF Rollback, Reconcile, TypeOK
        <5>2. /\ [kind |-> "rollback", op |-> o, fresh |-> FALSE] \in Call
              /\ [kind |-> "reconcile", op |-> o, fresh |-> FALSE] \in Call
          BY DEF Call
        <5>3. QED
          BY <5>1, <5>2
      <4>2. /\ pc[p] = "idle"
            /\ \/ pc'[p] = "acquire" /\ mem'[p] = receipt[o]
               \/ pc'[p] = "reread"
            /\ UNCHANGED <<lock, at, receipt>>
            /\ receipt[o] # NoReceipt
        BY <3>2 DEF Rollback, Reconcile, Goto, TypeOK, disk
      <4>3. QED
        BY <3>0, <4>1, <4>2, NoCallAssumption DEF LockedBy
    <3>3. CASE Prepare(p) \/ Record(p)
      <4>1. pc'[p] \in Installs /\ UNCHANGED <<lock, call, mem>>
        BY <3>3 DEF Prepare, Record, Goto, TypeOK
      <4>2. pc[p] \in {"prepare"} \cup Installs
        BY <3>3 DEF Prepare, Record
      <4>3. QED
        BY <3>0, <4>1, <4>2 DEF LockedBy
    <3>4. CASE BackUp(p) \/ SwapIn(p)
      <4>1. mem'[p] \in Receipt /\ mem'[p].status = mem[p].status
        <5>1. PICK phase \in Phases : SetPhase(p, at[p], phase)
          BY <3>4 DEF BackUp, SwapIn, Phases
        <5>2. mem[p] \in Receipt
          BY <3>0, <3>4 DEF BackUp, SwapIn
        <5>3. mem'[p] = [mem[p] EXCEPT !.phase[at[p]] = phase]
          BY <5>1 DEF SetPhase, TypeOK
        <5>4. mem[p].phase \in [Targets -> Phases]
          BY <5>2 DEF Receipt
        <5>5. [mem[p].phase EXCEPT ![at[p]] = phase] \in [Targets -> Phases]
          BY <5>1, <5>4
        <5>6. mem'[p] = [mem[p] EXCEPT
                            !.phase = [mem[p].phase EXCEPT ![at[p]] = phase]]
          BY <5>3
        <5>7. QED
          BY <5>2, <5>5, <5>6 DEF Receipt
      <4>2. pc[p] \in Installs /\ pc'[p] = "record" /\ UNCHANGED <<lock, call>>
        BY <3>4 DEF BackUp, SwapIn, Goto, TypeOK
      <4>3. QED
        BY <3>0, <4>1, <4>2, NoReceiptAssumption DEF LockedBy
    <3>5. CASE \/ Commit(p) \/ Refuse(p) \/ Settle(p) \/ GiveUp(p)
               \/ PrepareFails(p)
      <4>1. pc'[p] = "idle" /\ at'[p] = 1 /\ lock' # p
        BY <3>5 DEF Commit, Refuse, Settle, GiveUp, PrepareFails, Return, Goto,
                    TypeOK
      <4>2. QED
        BY <4>1 DEF LockedBy
    <3>6. CASE Reread(p)
      <4>1. /\ pc[p] = "reread" /\ pc'[p] = "acquire"
            /\ mem'[p] = receipt[call[p].op]
            /\ UNCHANGED <<lock, call, at>>
        BY <3>6 DEF Reread, Goto, TypeOK
      <4>2. QED
        BY <3>0, <4>1 DEF LockedBy
    <3>7. CASE Acquire(p)
      <4>1. call'[p] \in Call
        <5>1. call[p] \in Call
          BY <3>0, <3>7 DEF Acquire
        <5>2. QED
          BY <3>7, <5>1 DEF Acquire, Call, TypeOK
      <4>2. /\ pc[p] = "acquire" /\ pc'[p] = "remove" /\ lock' = p
            /\ UNCHANGED mem
        BY <3>7 DEF Acquire, Goto, TypeOK
      <4>3. QED
        BY <3>0, <4>1, <4>2, NoCallAssumption DEF LockedBy
    <3>8. CASE Remove(p) \/ PutBack(p) \/ DropTemp(p) \/ SwapFails(p)
      <4>1. pc'[p] \in Restores /\ UNCHANGED <<lock, call, mem>>
        BY <3>8 DEF Remove, PutBack, DropTemp, SwapFails, Goto, TypeOK
      <4>2. pc[p] \in Installs \cup Restores
        BY <3>8 DEF Remove, PutBack, DropTemp, SwapFails
      <4>3. QED
        BY <3>0, <4>1, <4>2 DEF LockedBy
    <3>9. CASE LeakLock(p) \/ Crash(p)
      <4>1. pc'[p] = "idle" /\ lock' # p /\ (at'[p] = 1 \/ LeakLock(p))
        BY <3>9 DEF LeakLock, Crash, Goto, TypeOK
      <4>2. LeakLock(p) => at'[p] = 1
        BY <3>0 DEF LeakLock, LockedBy
      <4>3. QED
        BY <4>1, <4>2 DEF LockedBy
    <3>10. QED
      BY <1>1, <3>1, <3>2, <3>3, <3>4, <3>5, <3>6, <3>7, <3>8, <3>9
         DEF Step, Progress
  <2>2. ASSUME NEW q \in Procs \ {p}
        PROVE  LockedBy(q)'
    <3>1. /\ pc'[q] = pc[q] /\ call'[q] = call[q] /\ mem'[q] = mem[q]
          /\ at'[q] = at[q]
      BY <1>1, StepOnly DEF Only
    <3>2. lock' = q <=> lock = q
      <4>1. \/ lock' = lock
            \/ lock = Free /\ lock' \in {p, Leaked}
            \/ lock = p /\ lock' \in {Free, Leaked}
        BY <1>1 DEF Step, Progress, Install, Rollback, Reconcile, Prepare,
                    BackUp, Record, SwapIn, Commit, Reread, Acquire, Refuse,
                    Remove, PutBack, DropTemp, Settle, GiveUp, LeakLock,
                    PrepareFails, SwapFails, Crash, Return, disk
      <4>2. QED
        BY <4>1, LockAssumption
    <3>3. pc[q] = "reread" => receipt'[call[q].op] # NoReceipt
      <4>1. pc[q] = "reread" => call[q].op \in Operations
        BY DEF Locked, TypeOK, Call
      <4>2. QED
        BY <4>1, ReceiptsStay DEF Locked
    <3>4. QED
      BY <3>1, <3>2, <3>3 DEF Locked, LockedBy
  <2>3. QED
    BY <2>1, <2>2 DEF Locked, LockedBy
<1>2. CASE Others
  BY <1>2, LockAssumption DEF Others, Unlock, Clean, Edit, vars, disk, history, Locked
<1>3. QED
  BY <1>1, <1>2, StepCases

-------------------------------------------------------------------------------
\* Attempts stay numbered.
LEMMA NumberedPreserved ==
    TypeOK /\ Locked /\ Numbered /\ [Next]_vars => Numbered'
<1> SUFFICES ASSUME TypeOK, Locked, Numbered, [Next]_vars
             PROVE  Numbered'
  OBVIOUS
<1>0. TypeOK' /\ last \in Nat
  BY TypePreserved, BoundsAssumption DEF TypeOK
<1>1. ASSUME NEW p \in Procs, Step(p)
      PROVE  Numbered'
  <2>0. pc[p] \in Working \cup {"acquire"} =>
           /\ mem[p] \in Receipt /\ mem[p] # NoReceipt
           /\ call[p].op \in Operations
           /\ mem[p].attempt \in Attempts
    BY HolderTyped, NoReceiptAssumption
  <2>1. CASE Prepare(p)
    <3> USE DEF Prepare, TypeOK, Working
    <3>1. mem[p].attempt = last + 1 /\ last' = last + 1
      BY <2>1 DEF Numbered
    <3>2. /\ moved' \subseteq 1 .. last' /\ touched' \subseteq moved'
          /\ 1 .. last' \subseteq touched' \cup {last'}
      BY <1>0, <2>1, <3>1
    <3>3. \A o \in Operations :
             receipt'[o] # NoReceipt => receipt'[o].attempt <= last'
      <4>1. ASSUME NEW o \in Operations, receipt'[o] # NoReceipt
            PROVE  receipt'[o].attempt <= last'
        <5>1. CASE o = call[p].op
          BY <1>0, <2>0, <2>1, <3>1, <5>1
        <5>2. CASE o # call[p].op
          <6>1. receipt[o] \in Receipt /\ receipt'[o] = receipt[o]
            BY <2>1, <4>1, <5>2
          <6>2. receipt[o].attempt <= last /\ receipt[o].attempt \in Nat
            BY <4>1, <6>1 DEF Numbered, Receipt, Attempts
          <6>3. QED
            BY <1>0, <3>1, <6>1, <6>2
        <5>3. QED
          BY <5>1, <5>2
      <4>2. QED
        BY <4>1
    <3>4. ASSUME NEW q \in Procs
          PROVE  IF pc'[q] = "prepare" THEN mem'[q].attempt = last' + 1
                 ELSE mem'[q] # NoReceipt => mem'[q].attempt <= last'
      <4>1. pc'[q] # "prepare" /\ mem'[q] = mem[q]
        <5>1. q # p => pc[q] # "prepare"
          BY <2>1 DEF Locked
        <5>2. QED
          BY <2>1, <5>1 DEF Goto
      <4>2. mem[q] # NoReceipt => mem[q].attempt \in Nat
        BY DEF Receipt, Attempts
      <4>3. q # p /\ mem[q] # NoReceipt => mem[q].attempt <= last
        BY <2>1 DEF Locked, Numbered
      <4>4. QED
        BY <1>0, <3>1, <4>1, <4>2, <4>3
    <3>5. \A a \in Attempts, i \in Targets : a > last' => bak'[a][i] = Absent
      BY <1>0, <2>1, <3>1 DEF Numbered, Attempts
    <3>6. QED
      BY <3>2, <3>3, <3>4, <3>5 DEF Numbered
  <2>2. CASE ~Prepare(p)
    <3>1. last' = last
      BY <1>1, <2>2 DEF Step, Progress, Install, Rollback, Reconcile, BackUp,
              Record, SwapIn, Commit, Reread, Acquire, Refuse, Remove, PutBack,
              DropTemp, Settle, GiveUp, LeakLock, PrepareFails, SwapFails,
              Crash, disk
    <3>2. \/ UNCHANGED <<moved, touched>>
          \/ /\ moved' = 1 .. last
             /\ touched \subseteq touched' /\ touched' \subseteq touched \cup 1 .. last
      BY <1>1, <2>2 DEF Step, Progress, Install, Rollback, Reconcile, BackUp,
              Record, SwapIn, Commit, Reread, Acquire, Refuse, Remove, PutBack,
              DropTemp, Settle, GiveUp, LeakLock, PrepareFails, SwapFails,
              Crash, Disturb, history
    <3>3. \A o \in Operations :
             receipt'[o] # NoReceipt => receipt'[o].attempt <= last
      <4>1. CASE Record(p) \/ Commit(p) \/ Settle(p)
        <5>1. \A o \in Operations : \/ receipt'[o] = receipt[o]
                                    \/ receipt'[o].attempt = mem[p].attempt
          <6>1. mem[p] \in Receipt
            BY <2>0, <4>1 DEF Record, Commit, Settle, Working, Installs, Restores
          <6>2. CASE Record(p)
            BY <6>2 DEF Record, TypeOK
          <6>3. CASE Commit(p)
            <7>1. [mem[p] EXCEPT !.status = "committed"].attempt = mem[p].attempt
              BY <6>1 DEF Receipt
            <7>2. QED
              BY <6>3, <7>1 DEF Commit, TypeOK
          <6>4. CASE Settle(p)
            <7>1. Aborted(mem[p]).attempt = mem[p].attempt
              BY <6>1 DEF Aborted, Receipt
            <7>2. QED
              BY <6>4, <7>1 DEF Settle, TypeOK
          <6>5. QED
            BY <4>1, <6>2, <6>3, <6>4
        <5>2. mem[p].attempt <= last
          BY <2>0, <4>1 DEF Record, Commit, Settle, Working, Installs, Restores,
                            Numbered
        <5>3. QED
          BY <5>1, <5>2 DEF Numbered, TypeOK
      <4>2. CASE ~(Record(p) \/ Commit(p) \/ Settle(p))
        <5>1. receipt' = receipt
          BY <1>1, <2>2, <4>2 DEF Step, Progress, Install, Rollback, Reconcile,
              BackUp, SwapIn, Reread, Acquire, Refuse, Remove, PutBack,
              DropTemp, GiveUp, LeakLock, PrepareFails, SwapFails, Crash, disk
        <5>2. QED
          BY <5>1 DEF Numbered
      <4>3. QED
        BY <4>1, <4>2
    <3>4. ASSUME NEW q \in Procs
          PROVE  IF pc'[q] = "prepare" THEN mem'[q].attempt = last + 1
                 ELSE mem'[q] # NoReceipt => mem'[q].attempt <= last
      <4>1. CASE q # p
        BY <1>1, <4>1, StepOnly DEF Only, Numbered
      <4>2. ASSUME NEW o \in Operations, NEW k \in Packages, Install(p, o, k)
            PROVE  pc'[p] = "prepare" /\ mem'[p].attempt = last + 1
        BY <4>2 DEF Install, Goto, TypeOK
      <4>3. ASSUME NEW o \in Operations, Rollback(p, o) \/ Reconcile(p, o)
            PROVE  /\ pc'[p] # "prepare"
                   /\ mem'[p] # NoReceipt => mem'[p].attempt <= last
        BY <4>3 DEF Rollback, Reconcile, Goto, TypeOK, Numbered
      <4>4. CASE Reread(p)
        <5>1. call[p].op \in Operations
          BY <4>4 DEF Reread, TypeOK, Locked, Call
        <5>2. QED
          BY <4>4, <5>1 DEF Reread, Goto, TypeOK, Numbered
      <4>5. CASE BackUp(p) \/ SwapIn(p)
        <5>1. mem[p].attempt <= last /\ mem[p] \in Receipt
          BY <2>0, <4>5 DEF BackUp, SwapIn, Working, Installs, Numbered
        <5>2. pc'[p] # "prepare"
          BY <4>5 DEF BackUp, SwapIn, Goto, TypeOK
        <5>3. mem'[p].attempt = mem[p].attempt
          <6>1. PICK phase : SetPhase(p, at[p], phase)
            BY <4>5 DEF BackUp, SwapIn
          <6>2. mem'[p] = [mem[p] EXCEPT !.phase[at[p]] = phase]
            BY <6>1 DEF SetPhase, TypeOK
          <6>3. QED
            BY <5>1, <6>2 DEF Receipt
        <5>4. QED
          BY <4>1, <5>1, <5>2, <5>3
      <4>6. CASE \/ Record(p) \/ Commit(p) \/ Acquire(p) \/ Refuse(p)
                 \/ Remove(p) \/ PutBack(p) \/ DropTemp(p) \/ Settle(p)
                 \/ GiveUp(p) \/ LeakLock(p) \/ PrepareFails(p)
                 \/ SwapFails(p) \/ Crash(p)
        <5>1. /\ pc'[p] # "prepare"
              /\ \/ mem'[p] = NoReceipt
                 \/ mem'[p] = mem[p] /\ pc[p] # "prepare"
          BY <4>6 DEF Record, Commit, Acquire, Refuse, Remove, PutBack,
                DropTemp, Settle, GiveUp, LeakLock, PrepareFails, SwapFails,
                Crash, Return, Goto, TypeOK, disk
        <5>2. QED
          BY <4>1, <5>1 DEF Numbered
      <4>7. QED
        BY <1>1, <2>2, <4>1, <4>2, <4>3, <4>4, <4>5, <4>6 DEF Step, Progress
    <3>5. \A a \in Attempts, i \in Targets : a > last => bak'[a][i] = Absent
      <4>1. CASE BackUp(p) \/ PutBack(p)
        <5>1. mem[p].attempt <= last /\ mem[p].attempt \in Attempts
          BY <2>0, <4>1 DEF BackUp, PutBack, Working, Installs, Restores, Numbered
        <5>2. \A a \in Attempts : a # mem[p].attempt => bak'[a] = bak[a]
          BY <4>1 DEF BackUp, PutBack, Set, TypeOK
        <5>3. QED
          BY <1>0, <5>1, <5>2 DEF Numbered, Attempts
      <4>2. CASE ~(BackUp(p) \/ PutBack(p))
        <5>1. bak' = bak
          BY <1>1, <2>2, <4>2 DEF Step, Progress, Install, Rollback, Reconcile,
              Record, Commit, SwapIn, Reread, Acquire, Refuse, Remove, Settle,
              DropTemp, GiveUp, LeakLock, PrepareFails, SwapFails, Crash, disk
        <5>2. QED
          BY <5>1 DEF Numbered
      <4>3. QED
        BY <4>1, <4>2
    <3>6. QED
      BY <3>1, <3>2, <3>3, <3>4, <3>5 DEF Numbered
  <2>3. QED
    BY <2>1, <2>2
<1>2. CASE Others
  BY <1>2 DEF Others, Unlock, Clean, Edit, vars, disk, history, Numbered
<1>3. QED
  BY <1>1, <1>2, StepCases

-------------------------------------------------------------------------------
\* While a process is at work nobody else changes trees, receipts or history.
Steady(q) == /\ UNCHANGED <<dst, tmp, bak, receipt, last, before, moved, touched>>
             /\ pc'[q] = pc[q] /\ call'[q] = call[q]
             /\ mem'[q] = mem[q] /\ at'[q] = at[q]

LEMMA OthersWait ==
    ASSUME TypeOK, Locked, NEW p \in Procs, Step(p),
           NEW q \in Procs \ {p}, pc[q] \in Working
    PROVE  Steady(q)
<1>1. lock = q /\ pc[p] \notin Working
  BY DEF Locked
<1>2. lock # Free /\ lock # p
  BY <1>1, LockAssumption
<1>3. \/ \E o \in Operations : Rollback(p, o) \/ Reconcile(p, o)
      \/ Reread(p) \/ Refuse(p) \/ Crash(p)
  BY <1>1, <1>2 DEF Step, Progress, Install, Prepare, BackUp, Record, SwapIn,
     Commit, Acquire, Remove, PutBack, DropTemp, Settle, GiveUp, LeakLock,
     PrepareFails, SwapFails, Working, Installs, Restores
<1>4. UNCHANGED <<dst, tmp, bak, receipt, last, before, moved, touched>>
  BY <1>1, <1>3 DEF Rollback, Reconcile, Reread, Refuse, Crash, HalfRemove,
     Working, Restores, disk, history
<1>5. QED
  BY <1>4, StepOnly DEF Only, Steady

LEMMA AllWait ==
    ASSUME TypeOK, Locked, Others, NEW q \in Procs, pc[q] \in Working
    PROVE  Steady(q)
<1>1. lock = q
  BY DEF Locked
<1>2. QED
  BY <1>1, LockAssumption
     DEF Others, Unlock, Clean, Edit, vars, disk, history, Steady

\* What Swapping says of one process.
SwappingBy(p) ==
    pc[p] \in Installs =>
        /\ mem[p].attempt = last
        /\ last \notin moved
        /\ \A j \in Targets :
              /\ j < at[p] => mem[p].phase[j] = "swapped" /\ In(mem[p], j)
              /\ j > at[p] => mem[p].phase[j] = "prepared" /\ Before(mem[p].attempt, j)
        /\ SwappingAt(p)
        /\ receipt[call[p].op] # NoReceipt
        /\ receipt[call[p].op].attempt = last
        /\ receipt[call[p].op].package = mem[p].package
        /\ pc[p] # "record" => receipt[call[p].op].phase = mem[p].phase
        /\ \A o \in Operations \ {call[p].op} :
              receipt[o] # NoReceipt => receipt[o].attempt # last

LEMMA SwappingSteady ==
    ASSUME NEW q \in Procs, SwappingBy(q), Steady(q)
    PROVE  SwappingBy(q)'
BY DEF Steady, SwappingBy, SwappingAt, In, Away, Before

\* Before an installation moves anything all destinations are as before.
LEMMA PrepareSwapping ==
    ASSUME TypeOK, Locked, Numbered, NEW p \in Procs, Prepare(p)
    PROVE  SwappingBy(p)'
<1>0. /\ mem[p] \in Receipt /\ mem[p] # NoReceipt /\ call[p].op \in Operations
      /\ mem[p].attempt \in Attempts /\ last \in Nat /\ at[p] = 1
      /\ mem[p].attempt = last + 1
      /\ \A i \in Targets : mem[p].phase[i] = "prepared"
  BY HolderTyped, NoReceiptAssumption, BoundsAssumption
     DEF Prepare, Working, Installs, Restores, TypeOK, Locked, Numbered
<1>1. /\ pc'[p] = "backUp" /\ last' = last + 1 /\ moved' = 1 .. last
      /\ UNCHANGED <<dst, call, mem, at>>
  BY <1>0 DEF Prepare, Goto, TypeOK
<1>2. /\ receipt'[call[p].op] = mem[p]
      /\ \A o \in Operations \ {call[p].op} : receipt'[o] = receipt[o]
  BY <1>0 DEF Prepare, TypeOK
<1>3. \A j \in Targets : Before(mem[p].attempt, j)'
  BY <1>0, <1>1 DEF Prepare, Before, TypeOK
<1>4. \A o \in Operations \ {call[p].op} :
         receipt[o] # NoReceipt => receipt[o].attempt # last + 1
  <2>1. ASSUME NEW o \in Operations, receipt[o] # NoReceipt
        PROVE  receipt[o].attempt # last + 1
    <3>1. receipt[o].attempt \in Nat /\ receipt[o].attempt <= last
      BY <2>1 DEF TypeOK, Receipt, Attempts, Numbered
    <3>2. QED
      BY <1>0, <3>1
  <2>2. QED
    BY <2>1
<1>5. 1 \in Targets /\ \A j \in Targets : ~(j < 1)
  BY BoundsAssumption DEF Targets
<1>6. QED
  BY <1>0, <1>1, <1>2, <1>3, <1>4, <1>5 DEF SwappingBy, SwappingAt

\* A destination that is moved away.
LEMMA BackUpSwapping ==
    ASSUME TypeOK, Locked, NEW p \in Procs, SwappingBy(p), BackUp(p)
    PROVE  SwappingBy(p)'
<1> DEFINE r == mem[p]
           i == at[p]
           a == mem[p].attempt
<1>0. /\ r \in Receipt /\ i \in Targets /\ a \in Attempts
      /\ r.phase \in [Targets -> Phases]
  BY HolderTyped DEF BackUp, Working, Installs
<1>1. /\ mem'[p] = [r EXCEPT !.phase[i] = "backedUp"]
      /\ pc'[p] = "record"
      /\ UNCHANGED <<tmp, receipt, last, call, at, before, moved>>
  BY DEF BackUp, SetPhase, Goto, TypeOK, history
<1>2. /\ mem'[p].attempt = a /\ mem'[p].package = r.package
      /\ mem'[p].phase[i] = "backedUp"
      /\ \A j \in Targets \ {i} : mem'[p].phase[j] = r.phase[j]
  BY <1>0, <1>1 DEF Receipt
<1>3. /\ dst'[i] = Absent /\ bak'[a][i] = dst[i]
      /\ \A j \in Targets \ {i} : dst'[j] = dst[j] /\ bak'[a][j] = bak[a][j]
  <2>1. Before(a, i)
    BY DEF SwappingBy, SwappingAt, BackUp, Installs
  <2>2. QED
    BY <1>0, <2>1 DEF BackUp, Before, TypeOK, Set
<1>4. Away(mem[p].attempt, at[p])'
  <2>1. Before(a, i)
    BY DEF SwappingBy, SwappingAt, BackUp, Installs
  <2>2. QED
    BY <1>1, <1>2, <1>3, <2>1 DEF Before, Away
<1>5. /\ r.attempt = last /\ last \notin moved
      /\ receipt[call[p].op] # NoReceipt
      /\ receipt[call[p].op].attempt = last
      /\ receipt[call[p].op].package = r.package
      /\ \A o \in Operations \ {call[p].op} :
            receipt[o] # NoReceipt => receipt[o].attempt # last
      /\ \A j \in Targets :
            /\ j < i => r.phase[j] = "swapped" /\ In(r, j)
            /\ j > i => r.phase[j] = "prepared" /\ Before(a, j)
  BY DEF SwappingBy, BackUp, Installs
<1>6. \A j \in Targets :
         /\ j < at'[p] => mem'[p].phase[j] = "swapped" /\ In(mem[p], j)'
         /\ j > at'[p] => mem'[p].phase[j] = "prepared"
                          /\ Before(mem[p].attempt, j)'
  <2>1. \A j \in Targets : j < i \/ j > i => j # i
    BY <1>0 DEF Targets
  <2>2. QED
    BY <1>0, <1>1, <1>2, <1>3, <1>5, <2>1 DEF In, Before
<1>7. QED
  BY <1>1, <1>2, <1>4, <1>5, <1>6 DEF SwappingBy, SwappingAt

\* A phase that is written down.
LEMMA RecordSwapping ==
    ASSUME TypeOK, Locked, NEW p \in Procs, SwappingBy(p), Record(p)
    PROVE  SwappingBy(p)'
<1> DEFINE r == mem[p]
           i == at[p]
<1>0. r \in Receipt /\ i \in Targets /\ r # NoReceipt /\ call[p].op \in Operations
  BY HolderTyped, NoReceiptAssumption DEF Record, Working, Installs
<1>1. /\ receipt'[call[p].op] = r
      /\ \A o \in Operations \ {call[p].op} : receipt'[o] = receipt[o]
      /\ UNCHANGED <<dst, tmp, bak, last, call, mem, before, moved>>
  BY <1>0 DEF Record, TypeOK, history
<1>2. /\ r.attempt = last /\ last \notin moved
      /\ \A o \in Operations \ {call[p].op} :
            receipt[o] # NoReceipt => receipt[o].attempt # last
      /\ \A j \in Targets :
            /\ j < i => r.phase[j] = "swapped" /\ In(r, j)
            /\ j > i => r.phase[j] = "prepared" /\ Before(r.attempt, j)
      /\ \/ r.phase[i] = "backedUp" /\ Away(r.attempt, i)
         \/ r.phase[i] = "swapped" /\ In(r, i)
  BY DEF SwappingBy, SwappingAt, Record, Installs
<1>3. \A j \in Targets : (In(r, j) => In(mem[p], j)')
         /\ (Before(r.attempt, j) => Before(mem[p].attempt, j)')
         /\ (Away(r.attempt, j) => Away(mem[p].attempt, j)')
  BY <1>1 DEF In, Before, Away
<1>4. CASE r.phase[i] = "backedUp"
  <2>1. pc'[p] = "swapIn" /\ at'[p] = i
    <3>1. Goto(p, "swapIn") /\ UNCHANGED at
      BY <1>4, Zenon DEF Record
    <3>2. QED
      BY <3>1 DEF Goto, TypeOK
  <2>2. Away(mem[p].attempt, at[p])'
    BY <1>1, <1>2, <1>4, <2>1 DEF Away
  <2>3. QED
    BY <1>0, <1>1, <1>2, <1>3, <1>4, <2>1, <2>2 DEF SwappingBy, SwappingAt
<1>5. CASE r.phase[i] = "swapped" /\ i < LastTarget
  <2>1. pc'[p] = "backUp" /\ at'[p] = i + 1
    <3>1. Goto(p, "backUp") /\ at' = [at EXCEPT ![p] = @ + 1]
      BY <1>0, <1>5 DEF Record, Targets
    <3>2. QED
      BY <3>1 DEF Goto, TypeOK
  <2>2. /\ i + 1 \in Targets /\ i + 1 > i
        /\ \A j \in Targets : /\ j < i + 1 => j < i \/ j = i
                             /\ j > i + 1 => j > i
    BY <1>0, <1>5, BoundsAssumption DEF Targets
  <2>3. \A j \in Targets :
           /\ j < at'[p] => mem'[p].phase[j] = "swapped" /\ In(mem[p], j)'
           /\ j >= at'[p] => mem'[p].phase[j] = "prepared"
                             /\ Before(mem[p].attempt, j)'
    <3>1. \A j \in Targets : j >= i + 1 => j > i
      BY <1>0 DEF Targets
    <3>2. In(r, i)
      BY <1>2, <1>5
    <3>3. ASSUME NEW j \in Targets, j < i + 1
          PROVE  r.phase[j] = "swapped" /\ In(r, j)
      <4>1. CASE j < i
        BY <1>2, <4>1
      <4>2. CASE j = i
        BY <1>5, <3>2, <4>2 DEF In
      <4>3. j < i \/ j = i
        BY <1>0, <3>3 DEF Targets
      <4>4. QED
        BY <4>1, <4>2, <4>3
    <3>4. mem'[p] = r /\ at'[p] = i + 1
      BY <1>1, <2>1
    <3>5. QED
      BY <1>2, <1>3, <3>1, <3>3, <3>4
  <2>4. at'[p] \in Targets /\ at'[p] \in Nat /\ \A j \in Targets : j \in Nat
    BY <2>1, <2>2 DEF Targets
  <2>5. \A j \in Targets : j > at'[p] => j >= at'[p]
    BY <2>4
  <2>6. SwappingAt(p)'
    BY <1>1, <2>1, <2>3, <2>4 DEF SwappingAt
  <2>7. QED
    BY <1>0, <1>1, <1>2, <2>1, <2>3, <2>5, <2>6 DEF SwappingBy
<1>6. CASE r.phase[i] = "swapped" /\ i = LastTarget
  <2>1. pc'[p] = "commit" /\ at'[p] = i
    BY <1>0, <1>6 DEF Record, Goto, TypeOK, Targets
  <2>2. QED
    BY <1>0, <1>1, <1>2, <1>3, <1>6, <2>1 DEF SwappingBy, SwappingAt
<1>7. QED
  BY <1>0, <1>2, <1>4, <1>5, <1>6, BoundsAssumption DEF Targets

\* A package that is moved in.
LEMMA SwapInSwapping ==
    ASSUME TypeOK, Locked, NEW p \in Procs, SwappingBy(p), SwapIn(p)
    PROVE  SwappingBy(p)'
<1> DEFINE r == mem[p]
           i == at[p]
           a == mem[p].attempt
<1>0. /\ r \in Receipt /\ i \in Targets /\ a \in Attempts
      /\ r.phase \in [Targets -> Phases]
  BY HolderTyped DEF SwapIn, Working, Installs
<1>1. /\ mem'[p] = [r EXCEPT !.phase[i] = "swapped"]
      /\ pc'[p] = "record"
      /\ UNCHANGED <<bak, receipt, last, call, at, before, moved>>
  BY DEF SwapIn, SetPhase, Goto, TypeOK, history
<1>2. /\ mem'[p].attempt = a /\ mem'[p].package = r.package
      /\ mem'[p].phase[i] = "swapped"
      /\ \A j \in Targets \ {i} : mem'[p].phase[j] = r.phase[j]
  BY <1>0, <1>1 DEF Receipt
<1>3. /\ dst'[i] = r.package /\ tmp'[a][i] = FALSE
      /\ \A j \in Targets \ {i} : dst'[j] = dst[j] /\ tmp'[a][j] = tmp[a][j]
  BY <1>0 DEF SwapIn, TypeOK, Set
<1>4. In(mem[p], at[p])'
  <2>1. Away(a, i)
    BY DEF SwappingBy, SwappingAt, SwapIn, Installs
  <2>2. QED
    BY <1>1, <1>2, <1>3, <2>1 DEF In, Away
<1>5. /\ r.attempt = last /\ last \notin moved
      /\ receipt[call[p].op] # NoReceipt
      /\ receipt[call[p].op].attempt = last
      /\ receipt[call[p].op].package = r.package
      /\ \A o \in Operations \ {call[p].op} :
            receipt[o] # NoReceipt => receipt[o].attempt # last
      /\ \A j \in Targets :
            /\ j < i => r.phase[j] = "swapped" /\ In(r, j)
            /\ j > i => r.phase[j] = "prepared" /\ Before(a, j)
  BY DEF SwappingBy, SwapIn, Installs
<1>6. \A j \in Targets :
         /\ j < at'[p] => mem'[p].phase[j] = "swapped" /\ In(mem[p], j)'
         /\ j > at'[p] => mem'[p].phase[j] = "prepared"
                          /\ Before(mem[p].attempt, j)'
  <2>1. \A j \in Targets : j < i \/ j > i => j # i
    BY <1>0 DEF Targets
  <2>2. QED
    BY <1>0, <1>1, <1>2, <1>3, <1>5, <2>1 DEF In, Before
<1>7. QED
  BY <1>1, <1>2, <1>4, <1>5, <1>6 DEF SwappingBy, SwappingAt

LEMMA SwappingPreserved ==
    TypeOK /\ Locked /\ Numbered /\ Swapping /\ [Next]_vars => Swapping'
<1> SUFFICES ASSUME TypeOK, Locked, Numbered, Swapping, [Next]_vars,
                    NEW q \in Procs
             PROVE  SwappingBy(q)'
  BY DEF Swapping, SwappingBy
<1>0. SwappingBy(q)
  BY DEF Swapping, SwappingBy
<1>1. ASSUME Step(q)
      PROVE  SwappingBy(q)'
  <2>1. CASE Prepare(q) \/ BackUp(q) \/ Record(q) \/ SwapIn(q)
    BY <1>0, <2>1, PrepareSwapping, BackUpSwapping, RecordSwapping,
       SwapInSwapping
  <2>2. CASE ~(Prepare(q) \/ BackUp(q) \/ Record(q) \/ SwapIn(q))
    <3>1. pc'[q] \notin Installs
      BY <1>1, <2>2 DEF Step, Progress, Install, Rollback, Reconcile, Commit,
         Reread, Acquire, Refuse, Remove, PutBack, DropTemp, Settle, GiveUp,
         LeakLock, PrepareFails, SwapFails, Crash, Return, Goto, Installs,
         TypeOK
    <3>2. QED
      BY <3>1 DEF SwappingBy
  <2>3. QED
    BY <2>1, <2>2
<1>2. ASSUME NEW p \in Procs \ {q}, Step(p)
      PROVE  SwappingBy(q)'
  <2>1. pc'[q] = pc[q]
    BY <1>2, StepOnly DEF Only
  <2>2. CASE pc[q] \in Installs
    BY <1>0, <1>2, <2>2, OthersWait, SwappingSteady DEF Working
  <2>3. CASE pc[q] \notin Installs
    BY <2>1, <2>3 DEF SwappingBy
  <2>4. QED
    BY <2>2, <2>3
<1>3. CASE Others
  <2>1. pc' = pc
    BY <1>3 DEF Others, Unlock, Clean, Edit, vars
  <2>2. CASE pc[q] \in Installs
    BY <1>0, <1>3, <2>2, AllWait, SwappingSteady DEF Working
  <2>3. CASE pc[q] \notin Installs
    BY <2>1, <2>3 DEF SwappingBy
  <2>4. QED
    BY <2>2, <2>3
<1>4. QED
  BY <1>1, <1>2, <1>3, StepCases

-------------------------------------------------------------------------------
\* The memory of an installation is true of the disk.
LEMMA SwappingCoherent ==
    ASSUME TypeOK, Locked, NEW p \in Procs, SwappingBy(p), pc[p] \in Installs
    PROVE  \A j \in Targets : Coherent(mem[p], j)
<1>1. at[p] \in Targets
  BY DEF TypeOK
<1>2. ASSUME NEW j \in Targets
      PROVE  Coherent(mem[p], j)
  <2>1. CASE j < at[p] \/ j > at[p]
    BY <2>1 DEF SwappingBy, Coherent
  <2>2. CASE j = at[p]
    BY <2>2 DEF SwappingBy, SwappingAt, Coherent, Installs
  <2>3. QED
    BY <1>1, <2>1, <2>2 DEF Targets
<1>3. QED
  BY <1>2

\* What Restoring says of one process.
Left(p) == IF pc[p] = "remove" THEN 1 .. at[p] ELSE 1 .. at[p] - 1

LeftOver(p) ==
    pc[p] \in {"remove", "putBack", "dropTemp"} =>
        \A j \in Left(p) :
            /\ mem[p].phase[j] = "backedUp" => dst[j] \in {Absent, mem[p].package}
            /\ call[p].fresh => Coherent(mem[p], j)

Returning(p) ==
    pc[p] = "putBack" =>
        /\ \/ dst[at[p]] = Absent
           \/ bak[mem[p].attempt][at[p]] = Absent
           \/ mem[p].phase[at[p]] = "restored"
        /\ call[p].fresh =>
              /\ mem[p].phase[at[p]] # "restored"
              /\ Away(mem[p].attempt, at[p]) \/ Before(mem[p].attempt, at[p])

Returned(p) ==
    (pc[p] \in Restores /\ call[p].fresh) =>
        \A j \in Targets :
            (pc[p] = "settle" \/ j > at[p] \/ (pc[p] = "dropTemp" /\ j = at[p]))
            => dst[j] = before[mem[p].attempt][j]

RestoringBy(p) ==
    /\ LeftOver(p)
    /\ Returning(p)
    /\ Returned(p)
    /\ pc[p] \in {"putBack", "dropTemp", "settle"} =>
          /\ 1 .. last \subseteq moved
          /\ 1 .. last \subseteq touched \cup {mem[p].attempt}

LEMMA RestoringSteady ==
    ASSUME NEW q \in Procs, RestoringBy(q), Steady(q)
    PROVE  RestoringBy(q)'
BY DEF Steady, RestoringBy, LeftOver, Left, Returning, Returned, Coherent, In,
       Away, Before

\* A restoration begins with all that has been done.
LEMMA BeginRestoring ==
    ASSUME TypeOK, Locked, Swapping, Recorded, NEW p \in Procs,
           SwapFails(p) \/ Acquire(p)
    PROVE  RestoringBy(p)'
<1>0. /\ mem[p] \in Receipt /\ call[p] \in Call /\ call[p].op \in Operations
      /\ mem[p] # NoReceipt
  BY HolderTyped, NoReceiptAssumption
     DEF SwapFails, Acquire, Working, Installs, Restores
<1>1. /\ pc'[p] = "remove" /\ at'[p] = LastTarget
      /\ UNCHANGED <<dst, tmp, bak, mem, before>>
  BY DEF SwapFails, Acquire, Goto, TypeOK, disk, history
<1>2. /\ ~(LastTarget \in Targets /\ \E j \in Targets : j > LastTarget)
      /\ 1 .. LastTarget = Targets
  BY BoundsAssumption DEF Targets
<1>3. ASSUME NEW j \in Targets
      PROVE  /\ mem[p].phase[j] = "backedUp" => dst[j] \in {Absent, mem[p].package}
             /\ call'[p].fresh => Coherent(mem[p], j)
  <2>1. CASE SwapFails(p)
    <3>1. Coherent(mem[p], j)
      BY <2>1, SwappingCoherent DEF SwapFails, Swapping, SwappingBy, Installs
    <3>2. QED
      BY <3>1 DEF Coherent, Away, In
  <2>2. CASE Acquire(p)
    <3>1. mem[p].phase[j] = "backedUp" => dst[j] \in {Absent, mem[p].package}
      BY <2>2 DEF Acquire, Restorable, RestorableAt
    <3>2. call'[p].fresh => /\ mem[p] = receipt[call[p].op]
                            /\ mem[p].attempt \notin moved
      BY <1>0, <2>2 DEF Acquire, TypeOK, Call
    <3>3. QED
      BY <1>0, <3>1, <3>2 DEF Recorded
  <2>3. QED
    BY <2>1, <2>2
<1>4. \A j \in Targets : Coherent(mem[p], j) => Coherent(mem[p], j)'
  BY <1>1 DEF Coherent, In, Away, Before
<1>5. LeftOver(p)'
  BY <1>1, <1>2, <1>3, <1>4 DEF LeftOver, Left
<1>6. Returned(p)'
  BY <1>1, BoundsAssumption DEF Returned, Targets
<1>7. QED
  BY <1>1, <1>5, <1>6 DEF RestoringBy, Returning

\* A package is removed.
LEMMA RemoveRestoring ==
    ASSUME TypeOK, Locked, NEW p \in Procs, RestoringBy(p), Remove(p)
    PROVE  RestoringBy(p)'
<1> DEFINE r == mem[p]
           i == at[p]
           a == mem[p].attempt
<1>0. /\ r \in Receipt /\ i \in Targets /\ i \in Nat
      /\ r.phase \in [Targets -> Phases]
  BY HolderTyped, BoundsAssumption DEF Remove, Working, Restores, Targets
<1>1. /\ pc[p] = "remove" /\ pc'[p] = "putBack"
      /\ moved' = 1 .. last
      /\ 1 .. last \subseteq touched' \cup {a}
      /\ UNCHANGED <<tmp, bak, last, call, mem, at, before>>
  BY DEF Remove, Disturb, Goto, TypeOK
<1>2. \A j \in Targets : j # i => dst'[j] = dst[j]
  BY DEF Remove, TypeOK
<1>3. \A j \in 1 .. i - 1 : j \in Targets /\ j # i /\ j \in 1 .. i
  BY <1>0, BoundsAssumption DEF Targets
<1>4. LeftOver(p)'
  <2>1. ASSUME NEW j \in 1 .. i - 1
        PROVE  /\ r.phase[j] = "backedUp" => dst'[j] \in {Absent, r.package}
               /\ call[p].fresh => Coherent(mem[p], j)'
    <3>1. /\ r.phase[j] = "backedUp" => dst[j] \in {Absent, r.package}
          /\ call[p].fresh => Coherent(r, j)
      BY <1>1, <1>3 DEF RestoringBy, LeftOver, Left
    <3>2. dst'[j] = dst[j]
      BY <1>2, <1>3
    <3>3. QED
      BY <1>1, <3>1, <3>2 DEF Coherent, In, Away, Before
  <2>2. QED
    BY <1>1, <2>1 DEF LeftOver, Left
<1>5. Returning(p)'
  <2>1. call[p].fresh => Coherent(r, i)
    <3>1. i \in 1 .. i
      BY <1>0 DEF Targets
    <3>2. QED
      BY <1>1, <3>1 DEF RestoringBy, LeftOver, Left
  <2>2. CASE r.phase[i] \in {"backedUp", "swapped"}
    <3>1. dst'[i] = Absent
      BY <1>0, <2>2 DEF Remove, TypeOK
    <3>2. QED
      BY <1>1, <2>1, <2>2, <3>1 DEF Returning, Coherent, In, Away
  <2>3. CASE r.phase[i] = "prepared"
    <3>1. dst' = dst /\ (dst[i] = Absent \/ bak[a][i] = Absent)
      BY <2>3 DEF Remove, Removable
    <3>2. QED
      BY <1>1, <2>1, <2>3, <3>1 DEF Returning, Coherent, Before, Away
  <2>4. CASE r.phase[i] = "restored"
    BY <1>1, <2>1, <2>4 DEF Returning, Coherent
  <2>5. QED
    BY <1>0, <2>2, <2>3, <2>4 DEF Phases
<1>6. Returned(p)'
  <2>1. \A j \in Targets : j > i => j # i
    BY <1>0
  <2>2. QED
    BY <1>1, <1>2, <2>1 DEF RestoringBy, Returned, Restores
<1>7. QED
  BY <1>1, <1>4, <1>5, <1>6 DEF RestoringBy

\* A backup returns.
LEMMA PutBackRestoring ==
    ASSUME TypeOK, Locked, NEW p \in Procs, RestoringBy(p), PutBack(p)
    PROVE  RestoringBy(p)'
<1> DEFINE r == mem[p]
           i == at[p]
           a == mem[p].attempt
<1>0. /\ r \in Receipt /\ i \in Targets /\ i \in Nat /\ a \in Attempts
  BY HolderTyped, BoundsAssumption DEF PutBack, Working, Restores, Targets
<1>1. /\ pc[p] = "putBack" /\ pc'[p] = "dropTemp"
      /\ UNCHANGED <<tmp, last, call, mem, at, before, moved, touched>>
  BY DEF PutBack, Goto, TypeOK, history
<1>2. \A j \in Targets : j # i => dst'[j] = dst[j] /\ bak'[a][j] = bak[a][j]
  BY <1>0 DEF PutBack, TypeOK, Set
<1>3. \A j \in 1 .. i - 1 : j \in Targets /\ j # i
  BY <1>0, BoundsAssumption DEF Targets
<1>4. LeftOver(p)'
  <2>1. ASSUME NEW j \in 1 .. i - 1
        PROVE  /\ r.phase[j] = "backedUp" => dst'[j] \in {Absent, r.package}
               /\ call[p].fresh => Coherent(mem[p], j)'
    <3>1. /\ r.phase[j] = "backedUp" => dst[j] \in {Absent, r.package}
          /\ call[p].fresh => Coherent(r, j)
      BY <1>1, <1>3 DEF RestoringBy, LeftOver, Left
    <3>2. dst'[j] = dst[j] /\ bak'[a][j] = bak[a][j]
      BY <1>2, <1>3
    <3>3. QED
      BY <1>1, <3>1, <3>2 DEF Coherent, In, Away, Before
  <2>2. QED
    BY <1>1, <2>1 DEF LeftOver, Left
<1>5. call[p].fresh => dst'[i] = before[a][i]
  <2>1. call[p].fresh => /\ r.phase[i] # "restored"
                         /\ Away(a, i) \/ Before(a, i)
    BY <1>1 DEF RestoringBy, Returning
  <2>2. QED
    BY <1>0, <2>1 DEF PutBack, Away, Before, TypeOK
<1>6. Returned(p)'
  <2>1. \A j \in Targets : j > i => j # i
    BY <1>0
  <2>2. QED
    BY <1>1, <1>2, <1>5, <2>1 DEF RestoringBy, Returned, Restores
<1>7. QED
  BY <1>1, <1>4, <1>6 DEF RestoringBy, Returning

\* A copy is dropped, and the loop goes on.
LEMMA DropTempRestoring ==
    ASSUME TypeOK, Locked, NEW p \in Procs, RestoringBy(p), DropTemp(p)
    PROVE  RestoringBy(p)'
<1> DEFINE r == mem[p]
           i == at[p]
           a == mem[p].attempt
<1>0. /\ r \in Receipt /\ i \in Targets /\ i \in Nat /\ a \in Attempts
      /\ i >= 1
  BY HolderTyped, BoundsAssumption DEF DropTemp, Working, Restores, Targets
<1>1. /\ pc[p] = "dropTemp"
      /\ \/ i > 1 /\ pc'[p] = "remove" /\ at'[p] = i - 1
         \/ i = 1 /\ pc'[p] = "settle"
      /\ UNCHANGED <<dst, bak, last, call, mem, before, moved, touched>>
  <2>1. \/ i > 1 /\ Goto(p, "remove") /\ at' = [at EXCEPT ![p] = @ - 1]
        \/ ~(i > 1) /\ Goto(p, "settle")
    BY DEF DropTemp
  <2>2. QED
    BY <1>0, <2>1 DEF DropTemp, Goto, TypeOK, history
<1>2. \A j \in Targets : j # i => tmp'[a][j] = tmp[a][j]
  BY <1>0 DEF DropTemp, TypeOK, Set
<1>3. \A j \in 1 .. i - 1 : j \in Targets /\ j # i
  BY <1>0, BoundsAssumption DEF Targets
<1>4. LeftOver(p)'
  <2>1. ASSUME NEW j \in 1 .. i - 1
        PROVE  /\ r.phase[j] = "backedUp" => dst'[j] \in {Absent, r.package}
               /\ call[p].fresh => Coherent(mem[p], j)'
    <3>1. /\ r.phase[j] = "backedUp" => dst[j] \in {Absent, r.package}
          /\ call[p].fresh => Coherent(r, j)
      BY <1>1, <1>3 DEF RestoringBy, LeftOver, Left
    <3>2. tmp'[a][j] = tmp[a][j]
      BY <1>2, <1>3
    <3>3. QED
      BY <1>1, <3>1, <3>2 DEF Coherent, In, Away, Before
  <2>2. QED
    BY <1>1, <2>1 DEF LeftOver, Left
<1>5. Returned(p)'
  <2>1. call[p].fresh => \A j \in Targets :
                            j > i \/ j = i => dst[j] = before[a][j]
    BY <1>1 DEF RestoringBy, Returned, Restores
  <2>2. ASSUME NEW j \in Targets, call[p].fresh,
               \/ pc'[p] = "settle" \/ j > at'[p]
               \/ pc'[p] = "dropTemp" /\ j = at'[p]
        PROVE  dst[j] = before[a][j]
    <3>1. j > i \/ j = i
      <4>1. CASE i > 1 /\ pc'[p] = "remove" /\ at'[p] = i - 1
        <5>1. j > i - 1
          BY <2>2, <4>1
        <5>2. QED
          BY <1>0, <5>1, BoundsAssumption DEF Targets
      <4>2. CASE i = 1 /\ pc'[p] = "settle"
        BY <1>0, <4>2, BoundsAssumption DEF Targets
      <4>3. QED
        BY <1>1, <4>1, <4>2
    <3>2. QED
      BY <2>1, <2>2, <3>1
  <2>3. dst' = dst /\ before' = before /\ mem' = mem /\ call' = call
    BY <1>1
  <2>4. QED
    BY <2>2, <2>3 DEF Returned
<1>6. 1 .. last \subseteq moved /\ 1 .. last \subseteq touched \cup {a}
  BY <1>1 DEF RestoringBy
<1>7. QED
  BY <1>1, <1>4, <1>5, <1>6 DEF RestoringBy, Returning

LEMMA RestoringPreserved ==
    Inv /\ [Next]_vars => Restoring'
<1> SUFFICES ASSUME TypeOK, Locked, Numbered, Swapping, Restoring, Recorded,
                    [Next]_vars, NEW q \in Procs
             PROVE  RestoringBy(q)'
  BY DEF Inv, Restoring, RestoringBy, LeftOver, Left, Returning, Returned
<1>0. RestoringBy(q)
  BY DEF Restoring, RestoringBy, LeftOver, Left, Returning, Returned
<1>1. pc'[q] \notin Restores => RestoringBy(q)'
  BY DEF RestoringBy, LeftOver, Returning, Returned, Restores
<1>2. ASSUME Step(q)
      PROVE  RestoringBy(q)'
  <2>1. CASE \/ SwapFails(q) \/ Acquire(q) \/ Remove(q) \/ PutBack(q)
             \/ DropTemp(q)
    BY <1>0, <2>1, BeginRestoring, RemoveRestoring, PutBackRestoring,
       DropTempRestoring
  <2>2. CASE ~(\/ SwapFails(q) \/ Acquire(q) \/ Remove(q) \/ PutBack(q)
               \/ DropTemp(q))
    <3>1. pc'[q] \notin Restores
      BY <1>2, <2>2 DEF Step, Progress, Install, Rollback, Reconcile, Prepare,
         BackUp, Record, SwapIn, Commit, Reread, Refuse, Settle, GiveUp,
         LeakLock, PrepareFails, Crash, Return, Goto, Restores, TypeOK
    <3>2. QED
      BY <1>1, <3>1
  <2>3. QED
    BY <2>1, <2>2
<1>3. ASSUME NEW p \in Procs \ {q}, Step(p)
      PROVE  RestoringBy(q)'
  <2>1. pc'[q] = pc[q]
    BY <1>3, StepOnly DEF Only
  <2>2. CASE pc[q] \in Restores
    BY <1>0, <1>3, <2>2, OthersWait, RestoringSteady DEF Working
  <2>3. QED
    BY <1>1, <2>1, <2>2
<1>4. CASE Others
  <2>1. pc' = pc
    BY <1>4 DEF Others, Unlock, Clean, Edit, vars
  <2>2. CASE pc[q] \in Restores
    BY <1>0, <1>4, <2>2, AllWait, RestoringSteady DEF Working
  <2>3. QED
    BY <1>1, <2>1, <2>2
<1>5. QED
  BY <1>2, <1>3, <1>4, StepCases

-------------------------------------------------------------------------------
\* Once the destinations of every attempt may have been changed no receipt is
\* said to be coherent.
LEMMA AllMoved ==
    ASSUME TypeOK', Numbered', 1 .. last' \subseteq moved'
    PROVE  Recorded'
<1>1. ASSUME NEW o \in Operations, receipt'[o] # NoReceipt
      PROVE  receipt'[o].attempt \in moved'
  <2>1. receipt'[o].attempt \in Attempts /\ receipt'[o].attempt <= last'
    BY <1>1 DEF TypeOK, Receipt, Numbered
  <2>2. QED
    BY <2>1, BoundsAssumption DEF Attempts, TypeOK
<1>2. QED
  BY <1>1 DEF Recorded

\* The receipt that a working installation has written.
LEMMA InstallRecorded ==
    ASSUME TypeOK, Locked, Numbered, Swapping, Recorded,
           TypeOK', Locked', Numbered', Swapping', NEW p \in Procs,
           Prepare(p) \/ BackUp(p) \/ Record(p) \/ SwapIn(p)
    PROVE  Recorded'
<1>0. /\ mem[p] \in Receipt /\ mem[p].attempt \in Attempts /\ at[p] \in Targets
      /\ mem[p].phase \in [Targets -> Phases] /\ call[p].op \in Operations
  BY HolderTyped DEF Prepare, BackUp, Record, SwapIn, Working, Installs
<1>1. pc'[p] \in Installs /\ call' = call
  BY DEF Prepare, BackUp, Record, SwapIn, Goto, Installs, TypeOK
<1>2. SwappingBy(p)' /\ SwappingBy(p)
  BY DEF Swapping, SwappingBy
<1>3. \A j \in Targets : Coherent(mem[p], j)'
  <2>1. ASSUME NEW j \in Targets
        PROVE  Coherent(mem[p], j)'
    <3>0. at'[p] \in Targets
      BY DEF TypeOK
    <3>1. CASE j < at'[p] \/ j > at'[p]
      BY <1>1, <1>2, <3>1 DEF SwappingBy, Coherent
    <3>2. CASE j = at'[p]
      BY <1>1, <1>2, <3>2 DEF SwappingBy, SwappingAt, Coherent, Installs
    <3>3. QED
      BY <3>0, <3>1, <3>2, BoundsAssumption DEF Targets
  <2>2. QED
    BY <2>1
<1>4. ASSUME NEW o \in Operations \ {call[p].op}, receipt'[o] # NoReceipt
      PROVE  receipt'[o].attempt \in moved'
  <2>1. receipt'[o].attempt # last'
    BY <1>1, <1>2, <1>4 DEF SwappingBy
  <2>2. receipt'[o].attempt \in Attempts /\ receipt'[o].attempt <= last'
    BY <1>4 DEF TypeOK, Receipt, Numbered
  <2>3. receipt'[o].attempt \in 1 .. last'
    BY <2>2, BoundsAssumption DEF Attempts, TypeOK
  <2>4. QED
    BY <2>1, <2>3 DEF Numbered
<1>5. ASSUME NEW j \in Targets
      PROVE  Coherent(receipt[call[p].op], j)'
  <2>1. CASE Prepare(p) \/ Record(p)
    <3>1. receipt'[call'[p].op] = mem'[p]
      BY <1>0, <1>1, <2>1 DEF Prepare, Record, TypeOK
    <3>2. QED
      BY <1>3, <3>1 DEF Coherent, In
  <2>2. CASE BackUp(p) \/ SwapIn(p)
    <3>1. /\ receipt' = receipt /\ at' = at /\ pc'[p] = "record"
          /\ receipt[call[p].op].phase = mem[p].phase
          /\ receipt[call[p].op].attempt = mem[p].attempt
          /\ receipt[call[p].op].package = mem[p].package
      BY <1>2, <2>2 DEF BackUp, SwapIn, SwappingBy, Installs, Goto, TypeOK
    <3>2. PICK phase \in Phases : SetPhase(p, at[p], phase)
      BY <2>2 DEF BackUp, SwapIn, Phases
    <3>3. mem'[p] = [mem[p] EXCEPT !.phase[at[p]] = phase]
      BY <3>2 DEF SetPhase, TypeOK
    <3>4. /\ mem'[p].attempt = mem[p].attempt
          /\ mem'[p].package = mem[p].package
          /\ j # at[p] => mem'[p].phase[j] = mem[p].phase[j]
      BY <1>0, <3>3 DEF Receipt
    <3>5. CASE j # at[p]
      BY <1>1, <1>3, <3>1, <3>4, <3>5 DEF Coherent, In
    <3>6. CASE j = at[p] /\ BackUp(p)
      <4>1. mem[p].phase[j] = "prepared"
        BY <1>2, <3>6 DEF SwappingBy, SwappingAt, BackUp, Installs
      <4>2. mem'[p].phase[j] = "backedUp"
        BY <1>0, <3>6 DEF BackUp, SetPhase, TypeOK, Receipt
      <4>3. Away(mem[p].attempt, j)'
        <5>1. SwappingAt(p)'
          BY <1>1, <1>2 DEF SwappingBy
        <5>2. QED
          BY <3>1, <3>6, <4>2, <5>1 DEF SwappingAt
      <4>4. QED
        BY <1>1, <3>1, <3>4, <4>1, <4>3 DEF Coherent, Away
    <3>7. CASE j = at[p] /\ SwapIn(p)
      <4>1. mem[p].phase[j] = "backedUp"
        BY <1>2, <3>7 DEF SwappingBy, SwappingAt, SwapIn, Installs
      <4>2. mem'[p].phase[j] = "swapped"
        BY <1>0, <3>7 DEF SwapIn, SetPhase, TypeOK, Receipt
      <4>3. In(mem[p], j)'
        <5>1. SwappingAt(p)'
          BY <1>1, <1>2 DEF SwappingBy
        <5>2. QED
          BY <3>1, <3>7, <4>2, <5>1 DEF SwappingAt
      <4>4. QED
        BY <1>1, <3>1, <3>4, <4>1, <4>3 DEF Coherent, In
    <3>8. QED
      BY <2>2, <3>5, <3>6, <3>7
  <2>3. QED
    BY <2>1, <2>2
<1>6. QED
  BY <1>1, <1>4, <1>5 DEF Recorded

LEMMA RecordedPreserved ==
    ASSUME Inv, [Next]_vars, TypeOK', Locked', Numbered', Swapping'
    PROVE  Recorded'
<1> USE DEF Inv
<1>1. ASSUME NEW p \in Procs, Step(p)
      PROVE  Recorded'
  <2>1. CASE Prepare(p) \/ BackUp(p) \/ Record(p) \/ SwapIn(p)
    BY <2>1, InstallRecorded
  <2>2. CASE Commit(p)
    <3>1. /\ mem[p] \in Receipt /\ call[p].op \in Operations
      BY <2>2, HolderTyped DEF Commit, Working, Installs
    <3>2. \A j \in Targets : Coherent(mem[p], j)
      BY <2>2, SwappingCoherent DEF Commit, Swapping, SwappingBy, Installs
    <3>3. /\ UNCHANGED <<dst, tmp, bak, before, moved>>
          /\ \A o \in Operations : o # call[p].op => receipt'[o] = receipt[o]
          /\ receipt'[call[p].op] = [mem[p] EXCEPT !.status = "committed"]
      BY <2>2, <3>1 DEF Commit, history, TypeOK
    <3>4. /\ receipt'[call[p].op].phase = mem[p].phase
          /\ receipt'[call[p].op].attempt = mem[p].attempt
          /\ receipt'[call[p].op].package = mem[p].package
      BY <3>1, <3>3 DEF Receipt
    <3>5. ASSUME NEW o \in Operations, receipt'[o] # NoReceipt,
                 receipt'[o].attempt \notin moved', NEW j \in Targets
          PROVE  Coherent(receipt[o], j)'
      <4>1. CASE o = call[p].op
        BY <3>2, <3>3, <3>4, <4>1 DEF Coherent, In, Away, Before
      <4>2. CASE o # call[p].op
        <5>1. Coherent(receipt[o], j)
          BY <3>3, <3>5, <4>2 DEF Recorded
        <5>2. QED
          BY <3>3, <4>2, <5>1 DEF Coherent, In, Away, Before
      <4>3. QED
        BY <4>1, <4>2
    <3>6. QED
      BY <3>5 DEF Recorded
  <2>3. CASE Remove(p) \/ PutBack(p) \/ DropTemp(p) \/ Settle(p)
    <3>1. last' = last /\ 1 .. last \subseteq moved'
      BY <2>3 DEF Remove, Disturb, PutBack, DropTemp, Settle, history, Restoring
    <3>2. QED
      BY <3>1, AllMoved
  <2>4. CASE \/ GiveUp(p) /\ pc[p] = "remove"
             \/ Crash(p) /\ HalfRemove(p) /\ Disturb(p)
    BY <2>4, AllMoved DEF GiveUp, Crash, Disturb
  <2>5. CASE ~(\/ Prepare(p) \/ BackUp(p) \/ Record(p) \/ SwapIn(p)
               \/ Commit(p) \/ Remove(p) \/ PutBack(p) \/ DropTemp(p)
               \/ Settle(p) \/ (GiveUp(p) /\ pc[p] = "remove")
               \/ (Crash(p) /\ HalfRemove(p) /\ Disturb(p)))
    <3>1. CASE GiveUp(p) /\ pc[p] # "remove"
      <4>1. UNCHANGED dst
        BY <3>1, Zenon DEF GiveUp
      <4>2. UNCHANGED <<tmp, bak, receipt, before, moved>>
        BY <3>1 DEF GiveUp
      <4>3. QED
        BY <4>1, <4>2 DEF Recorded, Coherent, In, Away, Before
    <3>2. CASE ~(GiveUp(p) /\ pc[p] # "remove")
      <4>1. CASE Reread(p) \/ Acquire(p) \/ Refuse(p) \/ LeakLock(p)
                 \/ PrepareFails(p) \/ SwapFails(p) \/ Crash(p)
        <5>1. UNCHANGED <<dst, tmp, bak, receipt, before, moved>>
          BY <2>5, <4>1 DEF Reread, Acquire, Refuse, LeakLock, PrepareFails,
             SwapFails, Crash, disk, history
        <5>2. QED
          BY <5>1 DEF Recorded, Coherent, In, Away, Before
      <4>2. CASE \E o \in Operations : \/ \E k \in Packages : Install(p, o, k)
                                       \/ Rollback(p, o)
                                       \/ Reconcile(p, o)
        <5>1. UNCHANGED <<dst, tmp, bak, receipt, before, moved>>
          BY <4>2 DEF Install, Rollback, Reconcile, disk, history
        <5>2. QED
          BY <5>1 DEF Recorded, Coherent, In, Away, Before
      <4>3. QED
        BY <1>1, <2>5, <3>2, <4>1, <4>2 DEF Step, Progress
    <3>3. QED
      BY <3>1, <3>2
  <2>6. QED
    BY <2>1, <2>2, <2>3, <2>4, <2>5
<1>2. CASE Others
  <2>1. CASE \E i \in Targets, t \in UserTrees : Edit(i, t)
    BY <2>1, AllMoved DEF Edit
  <2>2. CASE ~\E i \in Targets, t \in UserTrees : Edit(i, t)
    <3>1. UNCHANGED <<dst, tmp, bak, receipt, before, moved>>
      BY <1>2, <2>2 DEF Others, Unlock, Clean, vars, disk, history
    <3>2. QED
      BY <3>1 DEF Recorded, Coherent, In, Away, Before
  <2>3. QED
    BY <2>1, <2>2
<1>3. QED
  BY <1>1, <1>2, StepCases

-------------------------------------------------------------------------------
\* The step of a command that takes back the attempt of receipt r.
LEMMA TakingBackKept ==
    ASSUME TypeOK, Locked, Restoring, NEW p \in Procs, NEW r, NEW i \in Targets,
           r.attempt \in Attempts, r.attempt = mem[p].attempt, Half(r, i),
           \/ Remove(p) \/ PutBack(p) \/ DropTemp(p)
           \/ HalfRemove(p) /\ UNCHANGED <<tmp, bak, before>>
    PROVE  Half(r, i)'
<1> DEFINE a == r.attempt
           j == at[p]
<1>0. /\ mem[p] \in Receipt /\ j \in Targets /\ a \in Attempts
  BY HolderTyped DEF Remove, PutBack, DropTemp, HalfRemove, Working, Restores
<1>1. before' = before
  BY DEF Remove, PutBack, DropTemp, history
<1>2. CASE Remove(p) \/ (HalfRemove(p) /\ UNCHANGED <<tmp, bak, before>>)
  <2>1. /\ UNCHANGED <<tmp, bak>>
        /\ dst'[i] = dst[i] \/ dst'[i] \in {Absent, Damaged}
    BY <1>0, <1>2 DEF Remove, HalfRemove, TypeOK
  <2>. QED  BY <1>1, <2>1 DEF Half
<1>3. CASE PutBack(p)
  <2>1. CASE UNCHANGED <<dst, bak>>
    BY <1>1, <1>3, <2>1 DEF PutBack, Half
  <2>2. CASE ~UNCHANGED <<dst, bak>>
    <3>1. /\ dst' = [dst EXCEPT ![j] = bak[a][j]] /\ bak' = Set(bak, a, j, Absent)
          /\ tmp' = tmp
      BY <1>3, <2>2 DEF PutBack
    <3>2. i # j => dst'[i] = dst[i] /\ bak'[a][i] = bak[a][i]
      BY <1>0, <3>1 DEF TypeOK, Set
    <3>3. i = j => dst'[i] = bak[a][i] /\ bak'[a][i] = Absent
      BY <1>0, <3>1 DEF TypeOK, Set
    <3>4. CASE i # j
      BY <1>1, <3>1, <3>2, <3>4 DEF Half
    <3>5. CASE i = j
      BY <1>1, <3>3, <3>5 DEF Half
    <3>. QED  BY <3>4, <3>5
  <2>. QED  BY <2>1, <2>2
<1>4. CASE DropTemp(p)
  <2>1. UNCHANGED <<dst, bak>> /\ (tmp'[a][i] => tmp[a][i])
    BY <1>0, <1>4 DEF DropTemp, Set, TypeOK
  <2>. QED  BY <1>1, <2>1 DEF Half
<1>. QED  BY <1>2, <1>3, <1>4

\* Receipts of which only a part may have been taken back are so described.
LEMMA HalfwayPreserved ==
    ASSUME Inv, [Next]_vars, TypeOK', Numbered', Recorded'
    PROVE  Halfway'
<1> USE DEF Inv
<1>. SUFFICES ASSUME NEW o \in Operations, receipt'[o] # NoReceipt,
                     receipt'[o].attempt \in moved', receipt'[o].attempt \notin touched',
                     NEW i \in Targets
              PROVE  Half(receipt[o], i)'
  <2>1. ASSUME NEW o \in Operations, NEW i \in Targets, Coherent(receipt[o], i)'
        PROVE  Half(receipt[o], i)'
    BY <2>1 DEF Coherent, Half, In, Away, Before
  <2>2. ASSUME NEW o \in Operations, receipt'[o] # NoReceipt,
               receipt'[o].attempt \notin moved', NEW i \in Targets
        PROVE  Coherent(receipt[o], i)'
    BY <2>2 DEF Recorded
  <2>. QED  BY <2>1, <2>2 DEF Halfway
<1>0. receipt'[o] \in Receipt
  BY DEF TypeOK
<1>1. /\ receipt'[o] \in Receipt /\ receipt'[o].attempt \in 1 .. last'
      /\ receipt'[o].attempt = last'
  <2>1. moved' \subseteq 1 .. last' /\ 1 .. last' \subseteq touched' \cup {last'}
    BY DEF Numbered
  <2>. QED  BY <1>0, <2>1
<1>2. ASSUME NEW p \in Procs, Step(p)
      PROVE  Half(receipt[o], i)'
  <2>1. CASE Prepare(p)
    BY <2>1 DEF Prepare
  <2>2. CASE BackUp(p) \/ Record(p) \/ SwapIn(p) \/ Commit(p)
    <3>1. UNCHANGED <<moved, last>> /\ last \notin moved
      BY <2>2 DEF BackUp, Record, SwapIn, Commit, history, Swapping, Installs
    <3>. QED  BY <1>1, <3>1
  <2>3. CASE Remove(p) \/ PutBack(p) \/ DropTemp(p)
             \/ (HalfRemove(p) /\ Disturb(p) /\ (GiveUp(p) \/ Crash(p)))
    <3>1. UNCHANGED <<receipt, last>>
      BY <2>3 DEF Remove, PutBack, DropTemp, GiveUp, Crash
    <3>2. touched \subseteq touched' /\ 1 .. last \subseteq touched' \cup {mem[p].attempt}
      BY <2>3 DEF Remove, PutBack, DropTemp, Disturb, Restoring, history
    <3>3. /\ receipt[o].attempt = mem[p].attempt
          /\ receipt[o] # NoReceipt /\ receipt[o].attempt \notin touched
          /\ receipt[o].attempt \in Attempts
      BY <1>1, <3>1, <3>2 DEF Receipt
    <3>4. Half(receipt[o], i)
      BY <3>3 DEF Halfway
    <3>5. \/ Remove(p) \/ PutBack(p) \/ DropTemp(p)
          \/ HalfRemove(p) /\ UNCHANGED <<tmp, bak, before>>
      BY <2>3 DEF GiveUp, Crash
    <3>6. ASSUME NEW r, r = receipt[o]
          PROVE  Half(r, i)'
      BY <3>3, <3>4, <3>5, <3>6, TakingBackKept
    <3>. QED  BY <3>1, <3>6 DEF Half
  <2>4. CASE Settle(p)
    <3>1. /\ mem[p] \in Receipt /\ call[p].op \in Operations
      BY <2>4, HolderTyped DEF Settle, Working, Restores
    <3>2. CASE o = call[p].op
      <4>1. receipt'[o] = Aborted(mem[p])
        BY <2>4, <3>1, <3>2 DEF Settle, TypeOK
      <4>2. Aborted(mem[p]).phase[i] = "restored"
        BY <3>1 DEF Aborted, Receipt
      <4>. QED  BY <4>1, <4>2 DEF Half
    <3>3. CASE o # call[p].op
      <4>1. receipt'[o] = receipt[o] /\ UNCHANGED <<dst, tmp, bak, before, touched>>
        BY <2>4, <3>1, <3>3 DEF Settle, TypeOK, history
      <4>2. Half(receipt[o], i)
        BY <4>1 DEF Halfway
      <4>. QED  BY <4>1, <4>2 DEF Half
    <3>. QED  BY <3>2, <3>3
  <2>5. CASE ~(\/ Prepare(p) \/ BackUp(p) \/ Record(p) \/ SwapIn(p) \/ Commit(p)
               \/ Remove(p) \/ PutBack(p) \/ DropTemp(p) \/ Settle(p)
               \/ (HalfRemove(p) /\ Disturb(p) /\ (GiveUp(p) \/ Crash(p))))
    <3>1. UNCHANGED <<dst, tmp, bak, receipt, before>> /\ touched \subseteq touched'
      <4>1. CASE GiveUp(p)
        <5>1. UNCHANGED dst \/ HalfRemove(p)
          BY <4>1, Zenon DEF GiveUp
        <5>2. HalfRemove(p) => Disturb(p)
          BY <4>1 DEF GiveUp, HalfRemove
        <5>3. touched \subseteq touched'
          BY <4>1 DEF GiveUp, Disturb
        <5>. QED  BY <2>5, <4>1, <5>1, <5>2, <5>3 DEF GiveUp
      <4>2. CASE Crash(p)
        BY <2>5, <4>2 DEF Crash
      <4>3. CASE ~(GiveUp(p) \/ Crash(p))
        BY <1>2, <2>5, <4>3 DEF Step, Progress, Install, Rollback, Reconcile, Reread,
           Acquire, Refuse, LeakLock, PrepareFails, SwapFails, disk, history
      <4>. QED  BY <4>1, <4>2, <4>3
    <3>2. Half(receipt[o], i)
      BY <3>1 DEF Halfway
    <3>. QED  BY <3>1, <3>2 DEF Half
  <2>. QED  BY <2>1, <2>2, <2>3, <2>4, <2>5
<1>3. CASE Others
  <2>1. CASE \E j \in Targets, t \in UserTrees : Edit(j, t)
    BY <2>1 DEF Edit
  <2>2. CASE ~\E j \in Targets, t \in UserTrees : Edit(j, t)
    <3>1. UNCHANGED <<dst, tmp, bak, receipt, before, touched>>
      BY <1>3, <2>2 DEF Others, Unlock, Clean, vars, disk, history
    <3>2. Half(receipt[o], i)
      BY <3>1 DEF Halfway
    <3>. QED  BY <3>1, <3>2 DEF Half
  <2>. QED  BY <2>1, <2>2
<1>. QED  BY <1>2, <1>3, StepCases

\* The invariant holds throughout.
THEOREM InvCorrect == Spec => []Inv
<1>1. Inv /\ [Next]_vars => Inv'
  BY TypePreserved, LockedPreserved, NumberedPreserved, SwappingPreserved,
     RestoringPreserved, RecordedPreserved, HalfwayPreserved DEF Inv
<1>2. QED
  BY <1>1, InvInitial, PTL DEF Spec

\* The state of NativeInstall is well typed throughout: the loops over the
\* destinations stay within them, and attempts within their bound.
THEOREM TypeCorrect == Spec => []TypeOK
<1>1. Inv => TypeOK
  BY DEF Inv
<1>2. QED
  BY <1>1, InvCorrect, PTL

\* Wherever native_install_package or a command that takes the installation back
\* has stopped, by a crash, an error or at its end, the receipt lets
\* native_rollback_transaction begin until somebody else changes the destinations;
\* if the installation was being taken back, what may refuse it is a destination
\* that holds its former tree again, or a package that was removed in part.
THEOREM CrashIsRecoverableCorrect == Spec => []CrashIsRecoverable
<1>1. ASSUME Inv
      PROVE  CrashIsRecoverable
  <2>1. SUFFICES ASSUME NEW o \in Operations, receipt[o] # NoReceipt,
                        receipt[o].attempt \notin touched, NEW i \in Targets
                 PROVE  \/ RestorableAt(receipt[o], i)
                        \/ /\ receipt[o].attempt \in moved
                           /\ dst[i] \in {before[receipt[o].attempt][i], Damaged}
    BY DEF CrashIsRecoverable
  <2>2. CASE receipt[o].attempt \notin moved
    <3>1. Coherent(receipt[o], i)
      BY <1>1, <2>1, <2>2 DEF Inv, Recorded
    <3>2. QED
      BY <3>1 DEF RestorableAt, Coherent, In, Away, Before
  <2>3. CASE receipt[o].attempt \in moved
    <3>1. Half(receipt[o], i)
      BY <1>1, <2>1 DEF Inv, Halfway
    <3>2. QED
      BY <2>3, <3>1 DEF RestorableAt, Half
  <2>4. QED
    BY <2>2, <2>3
<1>2. QED
  BY <1>1, InvCorrect, PTL

-------------------------------------------------------------------------------
\* A destination that is about to be removed holds the package, or nothing.
LEMMA RemovesPackage ==
    ASSUME Inv, NEW p \in Procs, pc[p] = "remove", Removable(p, at[p]),
           mem[p].phase[at[p]] \in {"backedUp", "swapped"}
    PROVE  dst[at[p]] \in {Absent} \cup Packages
<1>1. at[p] \in Targets /\ mem[p].package \in Packages
  BY HolderTyped DEF Inv, Working, Restores
<1>2. CASE mem[p].phase[at[p]] = "backedUp"
  <2>1. at[p] \in 1 .. at[p]
    BY <1>1, BoundsAssumption DEF Targets
  <2>2. dst[at[p]] \in {Absent, mem[p].package}
    BY <1>2, <2>1 DEF Inv, Restoring
  <2>3. QED
    BY <1>1, <2>2
<1>3. CASE mem[p].phase[at[p]] = "swapped"
  BY <1>1, <1>3 DEF Removable
<1>4. QED
  BY <1>2, <1>3

\* A step of a process keeps every tree of a user.
LEMMA StepKeeps ==
    ASSUME Inv, NEW p \in Procs, Step(p),
           NEW i \in Targets, NEW t \in UserTrees, Kept(i, t)
    PROVE  Kept(i, t)'
<1> DEFINE a == mem[p].attempt
           j == at[p]
<1> USE DEF Inv
<1>0. t # Absent /\ t \notin Packages
  BY TreesAssumption
<1>1. pc[p] \in Working => a \in Attempts /\ j \in Targets /\ mem[p] \in Receipt
  BY HolderTyped
<1>2. CASE Prepare(p)
  <2>1. bak[a][i] = Absent /\ UNCHANGED dst
    BY <1>1, <1>2 DEF Prepare, Working, Numbered, TypeOK, Attempts
  <2>2. \A b \in Attempts : b # a => bak'[b] = bak[b]
    BY <1>2 DEF Prepare, TypeOK
  <2>3. QED
    BY <1>0, <2>1, <2>2 DEF Kept
<1>3. CASE BackUp(p)
  <2>1. bak[a][j] = Absent
    BY <1>3 DEF BackUp, Swapping, SwappingAt, Installs, Before
  <2>2. a \in Attempts /\ j \in Targets
    BY <1>1, <1>3 DEF BackUp, Working, Installs
  <2>3. \A b \in Attempts : bak[b][i] = t => bak'[b][i] = t
    BY <1>0, <1>3, <2>1, <2>2 DEF BackUp, Set, TypeOK
  <2>4. dst[i] = t => dst'[i] = t \/ bak'[a][i] = t
    BY <1>0, <1>3, <2>2 DEF BackUp, Set, TypeOK
  <2>5. QED
    BY <2>2, <2>3, <2>4 DEF Kept
<1>4. CASE SwapIn(p)
  <2>1. dst[j] = Absent
    BY <1>4 DEF SwapIn, Swapping, SwappingAt, Installs, Away
  <2>2. QED
    BY <1>0, <1>4, <2>1 DEF SwapIn, TypeOK, Kept
<1>5. CASE Remove(p)
  <2>1. dst'[i] = dst[i] \/ dst[i] \in {Absent} \cup Packages
    BY <1>5, RemovesPackage DEF Remove, TypeOK
  <2>2. bak' = bak
    BY <1>5 DEF Remove
  <2>3. QED
    BY <1>0, <2>1, <2>2 DEF Kept
<1>6. CASE PutBack(p)
  <2>1. a \in Attempts /\ j \in Targets
    BY <1>1, <1>6 DEF PutBack, Working, Restores
  <2>2. \/ dst[j] = Absent
        \/ bak[a][j] = Absent
        \/ mem[p].phase[j] = "restored"
    BY <1>6 DEF PutBack, Restoring
  <2>3. CASE bak[a][j] = Absent \/ mem[p].phase[j] = "restored"
    BY <1>6, <2>3 DEF PutBack, Kept
  <2>4. CASE ~(bak[a][j] = Absent \/ mem[p].phase[j] = "restored")
    <3>1. /\ dst[j] = Absent
          /\ dst' = [dst EXCEPT ![j] = bak[a][j]]
          /\ bak' = Set(bak, a, j, Absent)
      BY <1>6, <2>2, <2>4 DEF PutBack
    <3>2. dst[i] = t => dst'[i] = t
      BY <1>0, <3>1 DEF TypeOK
    <3>3. ASSUME NEW b \in Attempts, bak[b][i] = t
          PROVE  dst'[i] = t \/ bak'[b][i] = t
      BY <2>1, <3>1, <3>3 DEF TypeOK, Set
    <3>4. QED
      BY <3>2, <3>3 DEF Kept
  <2>5. QED
    BY <2>3, <2>4
<1>7. CASE GiveUp(p) \/ Crash(p)
  <2>1. dst'[i] = dst[i] \/ dst[i] \in {Absent} \cup Packages
    <3>1. UNCHANGED dst \/ HalfRemove(p)
      BY <1>7, Zenon DEF GiveUp, Crash
    <3>2. QED
      BY <3>1, RemovesPackage DEF HalfRemove, TypeOK
  <2>2. bak' = bak
    BY <1>7 DEF GiveUp, Crash
  <2>3. QED
    BY <1>0, <2>1, <2>2 DEF Kept
<1>8. CASE ~(\/ Prepare(p) \/ BackUp(p) \/ SwapIn(p)
             \/ Remove(p) \/ PutBack(p) \/ GiveUp(p) \/ Crash(p))
  <2>1. CASE Progress(p)
    <3>1. UNCHANGED <<dst, bak>>
      BY <1>8, <2>1 DEF Progress, Record, Commit, Reread, Acquire, Refuse,
         DropTemp, Settle, disk
    <3>2. QED
      BY <3>1 DEF Kept
  <2>2. CASE ~Progress(p)
    <3>1. UNCHANGED <<dst, bak>>
      BY <1>8, <2>2 DEF Step, Install, Rollback, Reconcile, LeakLock,
         PrepareFails, SwapFails, disk
    <3>2. QED
      BY <3>1 DEF Kept
  <2>3. QED
    BY <2>1, <2>2
<1>9. QED
  BY <1>2, <1>3, <1>4, <1>5, <1>6, <1>7, <1>8

\* No command destroys a tree that a user has put at a destination, whatever
\* crashes, fails, or runs at the same time: native_install_package,
\* native_rollback_transaction and native_reconcile_transactions remove
\* packages only.
THEOREM NothingLostCorrect == Spec => NothingLost
<1>1. ASSUME Inv, [Next]_vars
      PROVE  \A i \in Targets, t \in UserTrees : Kept(i, t) => Kept(i, t)'
  <2> SUFFICES ASSUME NEW i \in Targets, NEW t \in UserTrees, Kept(i, t)
               PROVE  Kept(i, t)'
    OBVIOUS
  <2>1. ASSUME NEW p \in Procs, Step(p)
        PROVE  Kept(i, t)'
    BY <1>1, <2>1, StepKeeps
  <2>2. CASE Others
    <3>1. CASE \E j \in Targets, u \in UserTrees : Edit(j, u)
      BY <1>1, <3>1 DEF Edit, Kept, Inv, TypeOK
    <3>2. CASE ~\E j \in Targets, u \in UserTrees : Edit(j, u)
      BY <2>2, <3>2 DEF Others, Unlock, Clean, vars, disk, Kept
    <3>3. QED
      BY <3>1, <3>2
  <2>3. QED
    BY <1>1, <2>1, <2>2, StepCases
<1>2. QED
  BY <1>1, InvCorrect, PTL DEF Spec, NothingLost

-------------------------------------------------------------------------------
\* Receipts change where one is written: when an installation begins, goes on
\* or is committed, and when it has been taken back.
LEMMA ReceiptWritten ==
    ASSUME TypeOK, [Next]_vars, receipt' # receipt
    PROVE  \E p \in Procs : Prepare(p) \/ Record(p) \/ Commit(p) \/ Settle(p)
<1>1. ~Others
  BY DEF Others, Unlock, Clean, Edit, vars, disk
<1>2. PICK p \in Procs : Step(p)
  BY <1>1, StepCases
<1>3. Progress(p)
  BY <1>2 DEF Step, Install, Rollback, Reconcile, LeakLock, PrepareFails,
     SwapFails, Crash, disk
<1>4. QED
  BY <1>3 DEF Progress, BackUp, SwapIn, Reread, Acquire, Refuse, Remove,
     PutBack, DropTemp, GiveUp, disk

\* A receipt becomes committed when the package is at every destination.
THEOREM CommittedIsInstalledCorrect == Spec => CommittedIsInstalled
<1>1. ASSUME Inv, [Next]_vars, NEW o \in Operations,
             receipt'[o] # receipt[o], receipt'[o].status = "committed",
             NEW i \in Targets
      PROVE  dst'[i] = receipt'[o].package
  <2> USE <1>1 DEF Inv
  <2>1. PICK p \in Procs : Prepare(p) \/ Record(p) \/ Commit(p) \/ Settle(p)
    BY ReceiptWritten
  <2>2. /\ mem[p] \in Receipt
        /\ pc[p] \in {"prepare", "record"} => mem[p].status = "started"
    BY <2>1, HolderTyped DEF Locked, Prepare, Record, Commit, Settle, Working,
       Installs, Restores
  <2>3. /\ \A q \in Operations \ {call[p].op} : receipt'[q] = receipt[q]
        /\ o = call[p].op
    BY <2>1 DEF Prepare, Record, Commit, Settle, TypeOK
  <2>4. CASE Prepare(p) \/ Record(p)
    BY <2>2, <2>3, <2>4 DEF Prepare, Record, TypeOK
  <2>5. CASE Settle(p)
    BY <2>2, <2>3, <2>5 DEF Settle, Aborted, Receipt, TypeOK
  <2>6. CASE Commit(p)
    <3>1. receipt'[o].package = mem[p].package /\ UNCHANGED dst
      BY <2>2, <2>3, <2>6 DEF Commit, Receipt, TypeOK
    <3>2. at[p] = LastTarget /\ In(mem[p], LastTarget)
      BY <2>6 DEF Commit, Swapping, SwappingAt, Installs
    <3>3. i < LastTarget => In(mem[p], i)
      BY <2>6, <3>2 DEF Commit, Swapping, Installs
    <3>4. i < LastTarget \/ i = LastTarget
      BY BoundsAssumption DEF Targets
    <3>5. QED
      BY <3>1, <3>2, <3>3, <3>4 DEF In
  <2>7. QED
    BY <2>1, <2>4, <2>5, <2>6
<1>2. Inv /\ [Next]_vars =>
          \A o \in Operations :
              (receipt'[o] # receipt[o] /\ receipt'[o].status = "committed")
              => \A i \in Targets : dst'[i] = receipt'[o].package
  BY <1>1
<1>3. QED
  BY <1>2, InvCorrect, PTL DEF Spec, CommittedIsInstalled

\* A receipt becomes aborted when every destination holds what it held before
\* the installation: after an installation that failed, and after a rollback
\* from an up-to-date receipt.
THEOREM AbortedIsRestoredCorrect == Spec => AbortedIsRestored
<1>1. ASSUME Inv, [Next]_vars, NEW p \in Procs,
             pc[p] = "settle", call[p].fresh, receipt' # receipt,
             pc'[p] = "idle"
      PROVE  dst' = before[mem[p].attempt]
  <2> USE <1>1 DEF Inv
  <2>1. PICK q \in Procs : Prepare(q) \/ Record(q) \/ Commit(q) \/ Settle(q)
    BY ReceiptWritten
  <2>2. UNCHANGED dst
    BY <2>1 DEF Prepare, Record, Commit, Settle
  <2>3. \A j \in Targets : dst[j] = before[mem[p].attempt][j]
    BY DEF Restoring, Restores
  <2>4. mem[p].attempt \in Attempts
    BY HolderTyped DEF Working, Restores
  <2>5. QED
    BY <2>2, <2>3, <2>4 DEF TypeOK
<1>2. Inv /\ [Next]_vars =>
          \A p \in Procs :
              (pc[p] = "settle" /\ call[p].fresh /\ receipt' # receipt
               /\ pc'[p] = "idle")
              => dst' = before[mem[p].attempt]
  BY <1>1
<1>3. QED
  BY <1>2, InvCorrect, PTL DEF Spec, AbortedIsRestored
===============================================================================
