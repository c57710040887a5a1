--------------------------- MODULE RegistrationProofs ---------------------------
(***************************************************************************)
(* Proofs about Registration.tla for any processes, operations and         *)
(* manifests, and any number of crashes and failures.                      *)
(*                                                                         *)
(* Only the holder of the lock changes the target (Locked).  Swapping says *)
(* how far a registration is, Returning what a command that takes one back *)
(* finds and leaves; ReceiptTrue is what they have in common, and holds    *)
(* while nobody else changes the target.                                   *)
(***************************************************************************)
EXTENDS Registration, TLAPS

Swaps == {"moveAway", "moveIn", "commit"}
Undoes == {"dropTemp", "putBack", "settle"}
Working == {"stage", "remove"} \cup Swaps \cup Undoes

LockedBy(p) ==
    /\ lock = p <=> pc[p] \in Working
    /\ pc[p] # "idle" => call[p] # NoCall /\ mem[p] # NoReceipt
    /\ pc[p] \in {"stage"} \cup Swaps => call[p].kind = "register" /\ call[p].fresh
    /\ pc[p] \in {"acquire", "remove"} =>
           \/ call[p].kind = "rollback" /\ mem[p].status = "committed"
           \/ call[p].kind = "reconcile" /\ mem[p].status = "started"
    /\ (pc[p] \in Working /\ call[p].kind = "register") => mem[p].status = "started"

Locked == \A p \in Procs : LockedBy(p)

\* A receipt outlives its operation; without one nothing was moved.
Unstaged == \A o \in Operations : receipt[o] = NoReceipt => bak[o] = Absent

\* Operation o has moved the old manifest away, or not.
Moved(o) == bak[o] = before[o]
Unmoved(o) == target = before[o] /\ bak[o] = Absent

SwappingBy(p) ==
    LET o == call[p].op IN
    /\ pc[p] = "stage" => receipt[o] = NoReceipt
    /\ (pc[p] \in Swaps \cup Undoes /\ call[p].kind = "register") =>
           /\ receipt[o] = mem[p]
           /\ touched = Operations \ {o}
    /\ pc[p] = "moveAway" => Unmoved(o)
    /\ pc[p] = "moveIn" => target = Absent /\ Moved(o)
    /\ pc[p] = "commit" => target = mem[p].manifest /\ Moved(o)

\* The exception that a reconcile makes for an equal manifest.
Clear(p) ==
    /\ call[p].fresh
    /\ call[p].kind = "reconcile" => before[call[p].op] # mem[p].manifest

ReturningBy(p) ==
    LET o == call[p].op
        undo == pc[p] \in Undoes
    IN  /\ pc[p] = "remove" => /\ target \in {Absent, mem[p].manifest}
                               /\ Clear(p) => Moved(o)
        /\ (undo /\ call[p].kind = "register") =>
               Unmoved(o) \/ (target = Absent /\ Moved(o))
        /\ (undo /\ call[p].kind # "register") => touched = Operations
        /\ (pc[p] \in {"dropTemp", "putBack"} /\ Clear(p)) =>
               Unmoved(o) \/ (target = Absent /\ Moved(o))
        /\ (pc[p] = "settle" /\ Clear(p)) => target = before[o]

AtWork == \A p \in Procs : SwappingBy(p) /\ ReturningBy(p)

Inv == TypeOK /\ Locked /\ Unstaged /\ AtWork /\ ReceiptTrue

-------------------------------------------------------------------------------
Step(p) ==
    \/ \E o \in Operations : \/ \E k \in Manifests : Register(p, o, k)
                             \/ Rollback(p, o)
                             \/ Reconcile(p, o)
    \/ Progress(p)
    \/ LeakLock(p)
    \/ StageFails(p)
    \/ SwapFails(p)
    \/ Ignore(p)
    \/ GiveUp(p)
    \/ Crash(p)

Environment == \/ Unlock
               \/ Clean
               \/ \E t \in Others : Edit(t)
               \/ UNCHANGED vars

LEMMA StepCases == [Next]_vars => (\E p \in Procs : Step(p)) \/ Environment
BY DEF Next, Step, Environment

\* At first nobody runs anything and there are no receipts.
LEMMA InvInitial == Init => Inv
<1> SUFFICES ASSUME Init PROVE Inv
  OBVIOUS
<1>1. TypeOK
  <2>1. /\ residue \in BOOLEAN
        /\ touched \subseteq Operations /\ tmp \subseteq Operations
    BY DEF Init
  <2>2. /\ target \in Contents
        /\ bak \in [Operations -> Contents]
        /\ before \in [Operations -> Contents]
        /\ receipt \in [Operations -> Receipt \cup {NoReceipt}]
        /\ lock \in Procs \cup {Free, Leaked}
    BY DEF Init, Contents
  <2>3. /\ pc \in [Procs -> Steps]
        /\ call \in [Procs -> Call \cup {NoCall}]
        /\ mem \in [Procs -> Receipt \cup {NoReceipt}]
        /\ faults \in 0 .. MaxFaults
    BY FaultsAssumption DEF Init, Steps
  <2>4. QED
    BY <2>1, <2>2, <2>3 DEF TypeOK
<1>2. Locked
  BY LockAssumption DEF Init, Locked, LockedBy, Working, Swaps, Undoes
<1>3. Unstaged /\ AtWork /\ ReceiptTrue
  BY DEF Init, Unstaged, AtWork, SwappingBy, ReturningBy, ReceiptTrue, Clear,
     Swaps, Undoes
<1>4. QED
  BY <1>1, <1>2, <1>3 DEF Inv

\* What a process that runs a command holds in memory.
LEMMA Running ==
    ASSUME TypeOK, Locked, NEW p \in Procs, pc[p] # "idle"
    PROVE  /\ call[p] \in Call /\ mem[p] \in Receipt
           /\ call[p].op \in Operations /\ mem[p].manifest \in Manifests
BY DEF TypeOK, Locked, LockedBy, Call, Receipt

\* Ending a command keeps memory well typed.
LEMMA ReturnTyped ==
    ASSUME TypeOK, NEW p \in Procs, Return(p)
    PROVE  /\ pc' \in [Procs -> Steps] /\ call' \in [Procs -> Call \cup {NoCall}]
           /\ mem' \in [Procs -> Receipt \cup {NoReceipt}]
           /\ lock' \in Procs \cup {Free, Leaked}
BY DEF TypeOK, Return, Goto, Steps

\* Every step of a process keeps the state well typed.
LEMMA StepTyped ==
    ASSUME TypeOK, Locked, NEW p \in Procs, Step(p)
    PROVE  TypeOK'
<1> USE FaultsAssumption
<1>0. Fault => faults' \in 0 .. MaxFaults
  BY DEF Fault, TypeOK
<1>1. pc[p] # "idle" => /\ call[p] \in Call /\ mem[p] \in Receipt
                        /\ call[p].op \in Operations
                        /\ mem[p].manifest \in Manifests
  BY Running
<1>2. ASSUME NEW o \in Operations, NEW k \in Manifests, Register(p, o, k)
      PROVE  TypeOK'
  <2>1. [manifest |-> k, status |-> "started"] \in Receipt
    BY DEF Receipt
  <2>2. [kind |-> "register", op |-> o, fresh |-> TRUE] \in Call
    BY DEF Call
  <2>3. QED
    BY <1>2, <2>1, <2>2 DEF Register, Start, Goto, disk, history, TypeOK, Steps
<1>3. ASSUME NEW o \in Operations, Rollback(p, o) \/ Reconcile(p, o)
      PROVE  TypeOK'
  <2>1. call' \in [Procs -> Call \cup {NoCall}]
    <3>1. \A kind \in {"rollback", "reconcile"} :
              [kind |-> kind, op |-> o, fresh |-> TRUE] \in Call
      BY DEF Call
    <3>2. CASE Rollback(p, o)
      BY <3>1, <3>2 DEF Rollback, Start, TypeOK
    <3>3. CASE Reconcile(p, o)
      BY <3>1, <3>3 DEF Reconcile, Start, TypeOK
    <3>4. QED
      BY <1>3, <3>2, <3>3
  <2>2. QED
    BY <1>3, <2>1 DEF Rollback, Reconcile, Start, Goto, disk, history, TypeOK,
       Steps
<1>4. CASE Stage(p)
  BY <1>1, <1>4 DEF Stage, Goto, TypeOK, Steps
<1>5. CASE MoveAway(p) \/ MoveIn(p)
  BY <1>1, <1>5 DEF MoveAway, MoveIn, Goto, history, TypeOK, Steps, Contents
<1>6. CASE Commit(p)
  <2>1. [mem[p] EXCEPT !.status = "committed"] \in Receipt
    BY <1>1, <1>6 DEF Commit, Receipt
  <2>2. QED
    BY <1>1, <1>6, <2>1, ReturnTyped DEF Commit, history, TypeOK
<1>7. CASE Acquire(p)
  <2>1. call' \in [Procs -> Call \cup {NoCall}]
    BY <1>1, <1>7 DEF Acquire, TypeOK, Call
  <2>2. QED
    BY <1>7, <2>1 DEF Acquire, Goto, disk, history, TypeOK, Steps
<1>8. CASE Refuse(p)
  BY <1>8, ReturnTyped DEF Refuse, disk, history, TypeOK
<1>9. CASE Remove(p) \/ DropTemp(p)
  BY <1>9 DEF Remove, DropTemp, Goto, history, TypeOK, Steps, Contents
<1>10. CASE PutBack(p)
  <2>1. target' \in Contents /\ bak' \in [Operations -> Contents]
    BY <1>1, <1>10 DEF PutBack, TypeOK, Contents
  <2>2. QED
    BY <1>10, <2>1 DEF PutBack, Goto, history, TypeOK, Steps
<1>11. CASE Settle(p)
  <2>1. TakenBack(p) \in Receipt
    BY <1>1, <1>11 DEF Settle, TakenBack, Receipt
  <2>2. QED
    BY <1>1, <1>11, <2>1, ReturnTyped DEF Settle, history, TypeOK
<1>12. CASE LeakLock(p)
  BY <1>0, <1>12 DEF LeakLock, Goto, disk, history, TypeOK, Steps
<1>13. CASE StageFails(p)
  BY <1>0, <1>13, ReturnTyped DEF StageFails, history, TypeOK
<1>14. CASE SwapFails(p)
  BY <1>0, <1>14 DEF SwapFails, Goto, disk, history, TypeOK, Steps
<1>15. CASE Ignore(p)
  <2>1. residue' \in BOOLEAN
    BY <1>15, Zenon DEF Ignore, TypeOK
  <2>2. /\ pc' \in [Procs -> Steps] /\ call' \in [Procs -> Call \cup {NoCall}]
        /\ mem' \in [Procs -> Receipt \cup {NoReceipt}]
        /\ lock' \in Procs \cup {Free, Leaked}
    <3>1. CASE Return(p)
      BY <3>1, ReturnTyped
    <3>2. CASE ~Return(p)
      <4>1. /\ pc' = [pc EXCEPT ![p] = "putBack"] \/ pc' = [pc EXCEPT ![p] = "settle"]
            /\ call' = [call EXCEPT ![p].fresh = FALSE]
            /\ UNCHANGED <<lock, mem>>
        BY <1>15, <3>2, Zenon DEF Ignore, Goto
      <4>2. call' \in [Procs -> Call \cup {NoCall}]
        BY <1>1, <1>15, <4>1 DEF Ignore, TypeOK, Call
      <4>3. QED
        BY <4>1, <4>2 DEF TypeOK, Steps
    <3>3. QED
      BY <3>1, <3>2
  <2>3. QED
    BY <1>0, <1>15, <2>1, <2>2 DEF Ignore, history, TypeOK
<1>16. CASE GiveUp(p)
  <2>1. residue' \in BOOLEAN
    BY <1>16, Zenon DEF GiveUp, TypeOK
  <2>2. QED
    BY <1>0, <1>16, <2>1, ReturnTyped DEF GiveUp, history, TypeOK
<1>17. CASE Crash(p)
  <2>1. residue' \in BOOLEAN
    BY <1>17, Zenon DEF Crash, TypeOK
  <2>2. QED
    BY <1>0, <1>17, <2>1 DEF Crash, Goto, history, TypeOK, Steps
<1>18. QED
  BY <1>2, <1>3, <1>4, <1>5, <1>6, <1>7, <1>8, <1>9, <1>10, <1>11, <1>12,
     <1>13, <1>14, <1>15, <1>16, <1>17 DEF Step, Progress

LEMMA TypePreserved == TypeOK /\ Locked /\ [Next]_vars => TypeOK'
<1> SUFFICES ASSUME TypeOK, Locked, [Next]_vars PROVE TypeOK'
  OBVIOUS
<1>1. CASE Environment
  BY <1>1 DEF Environment, Unlock, Clean, Edit, vars, disk, history, TypeOK,
     Contents
<1>2. QED
  BY <1>1, StepTyped, StepCases

-------------------------------------------------------------------------------
\* A process changes its own place, command and memory only.
Only(p) == \A q \in Procs \ {p} : /\ pc'[q] = pc[q]
                                  /\ call'[q] = call[q]
                                  /\ mem'[q] = mem[q]

LEMMA StepOnly ==
    ASSUME TypeOK, NEW p \in Procs, Step(p)
    PROVE  Only(p)
<1>1. CASE Progress(p)
  BY <1>1 DEF Progress, Stage, MoveAway, MoveIn, Commit, Acquire, Refuse,
     Remove, DropTemp, PutBack, Settle, Return, Goto, disk, history, TypeOK, Only
<1>2. CASE \E o \in Operations : \/ \E k \in Manifests : Register(p, o, k)
                                 \/ Rollback(p, o)
                                 \/ Reconcile(p, o)
  BY <1>2 DEF Register, Rollback, Reconcile, Start, Goto, TypeOK, Only
<1>3. CASE LeakLock(p) \/ StageFails(p) \/ SwapFails(p) \/ GiveUp(p) \/ Crash(p)
  BY <1>3 DEF LeakLock, StageFails, SwapFails, GiveUp, Crash, Return, Goto,
     TypeOK, Only
<1>4. CASE Ignore(p)
  BY <1>4 DEF Ignore, Return, Goto, TypeOK, Only
<1>5. QED
  BY <1>1, <1>2, <1>3, <1>4 DEF Step

\* While a process is at work nobody else changes target, backups, receipts or
\* history.
Steady(q) == /\ UNCHANGED <<target, bak, receipt, before, touched>>
             /\ pc'[q] = pc[q] /\ call'[q] = call[q] /\ mem'[q] = mem[q]

LEMMA OthersWait ==
    ASSUME TypeOK, Locked, NEW p \in Procs, Step(p),
           NEW q \in Procs \ {p}, pc[q] \in Working
    PROVE  Steady(q)
<1>1. lock = q /\ pc[p] \notin Working
  BY DEF Locked, LockedBy
<1>2. lock # Free /\ lock # p
  BY <1>1, LockAssumption
<1>3. \/ \E o \in Operations : Rollback(p, o) \/ Reconcile(p, o)
      \/ Refuse(p) \/ Crash(p)
  BY <1>1, <1>2 DEF Step, Progress, Register, Stage, MoveAway, MoveIn, Commit,
     Acquire, Remove, DropTemp, PutBack, Settle, LeakLock, StageFails,
     SwapFails, Ignore, GiveUp, Working, Swaps, Undoes
<1>4. UNCHANGED <<target, bak, receipt, before, touched>>
  BY <1>3 DEF Rollback, Reconcile, Refuse, Crash, disk, history
<1>5. QED
  BY <1>4, StepOnly DEF Only, Steady

LEMMA AllWait ==
    ASSUME TypeOK, Locked, Environment, NEW q \in Procs, pc[q] \in Working
    PROVE  Steady(q)
<1>1. lock = q
  BY DEF Locked, LockedBy
<1>2. QED
  BY <1>1, LockAssumption
     DEF Environment, Unlock, Clean, Edit, vars, disk, history, Steady

-------------------------------------------------------------------------------
\* How the lock changes hands.
LEMMA LockMoves ==
    ASSUME NEW p \in Procs, Step(p)
    PROVE  \/ lock' = lock
           \/ lock = Free /\ lock' \in {p, Leaked}
           \/ lock = p /\ lock' \in {Free, Leaked}
<1>1. CASE Progress(p)
  BY <1>1 DEF Progress, Stage, MoveAway, MoveIn, Commit, Acquire, Refuse,
     Remove, DropTemp, PutBack, Settle, Return
<1>2. CASE \E o \in Operations : \/ \E k \in Manifests : Register(p, o, k)
                                 \/ Rollback(p, o)
                                 \/ Reconcile(p, o)
  BY <1>2 DEF Register, Rollback, Reconcile
<1>3. CASE LeakLock(p) \/ StageFails(p) \/ SwapFails(p) \/ GiveUp(p) \/ Crash(p)
  BY <1>3 DEF LeakLock, StageFails, SwapFails, GiveUp, Crash, Return
<1>4. CASE Ignore(p)
  BY <1>4 DEF Ignore, Return
<1>5. QED
  BY <1>1, <1>2, <1>3, <1>4 DEF Step

\* A command that ends gives the lock back, if it has it.
LEMMA EndedLocked ==
    ASSUME TypeOK, NEW p \in Procs, pc' = [pc EXCEPT ![p] = "idle"], lock' # p
    PROVE  LockedBy(p)'
BY DEF TypeOK, LockedBy, Working, Swaps, Undoes

\* A step of a process and its own lock.
LEMMA OwnLocked ==
    ASSUME TypeOK, Locked, NEW p \in Procs, Step(p)
    PROVE  LockedBy(p)'
<1> USE LockAssumption, NoReceiptAssumption, NoCallAssumption
<1>0. LockedBy(p)
  BY DEF Locked
<1>1. pc[p] # "idle" => call[p] \in Call /\ mem[p] \in Receipt
  BY Running
<1>2. CASE Return(p) \/ LeakLock(p) \/ Crash(p)
  BY <1>2, EndedLocked DEF Return, LeakLock, Crash, Goto
<1>3. CASE \E o \in Operations, k \in Manifests : Register(p, o, k)
  <2>1. PICK o \in Operations, k \in Manifests : Register(p, o, k)
    BY <1>3
  <2>2. /\ pc'[p] = "stage" /\ lock' = p
        /\ mem'[p] = [manifest |-> k, status |-> "started"]
        /\ call'[p] = [kind |-> "register", op |-> o, fresh |-> TRUE]
    BY <2>1 DEF Register, Start, Goto, TypeOK
  <2>3. mem'[p] \in Receipt /\ call'[p] # NoCall
    <3>1. /\ [kind |-> "register", op |-> o, fresh |-> TRUE] \in Call
          /\ [manifest |-> k, status |-> "started"] \in Receipt
      BY DEF Call, Receipt
    <3>2. QED
      BY <2>2, <3>1
  <2>4. call'[p].kind = "register" /\ call'[p].fresh
    BY <2>2
  <2>5. mem'[p] # NoReceipt /\ mem'[p].status = "started"
    BY <2>2, <2>3
  <2>6. pc'[p] = "stage" /\ lock' = p
    BY <2>2
  <2>7. QED
    BY <2>3, <2>4, <2>5, <2>6 DEF LockedBy, Working, Swaps, Undoes
<1>4. CASE \E o \in Operations : Rollback(p, o) \/ Reconcile(p, o)
  <2>1. PICK o \in Operations : Rollback(p, o) \/ Reconcile(p, o)
    BY <1>4
  <2>2. /\ pc[p] = "idle" /\ pc'[p] = "acquire" /\ lock' = lock
        /\ mem'[p] = receipt[o] /\ mem'[p] # NoReceipt
    BY <2>1 DEF Rollback, Reconcile, Start, Goto, TypeOK
  <2>3. \A kind \in {"rollback", "reconcile"} :
            [kind |-> kind, op |-> o, fresh |-> TRUE] \in Call
    BY DEF Call
  <2>4. CASE Rollback(p, o)
    <3>1. /\ call'[p] = [kind |-> "rollback", op |-> o, fresh |-> TRUE]
          /\ receipt[o].status = "committed"
      BY <2>4 DEF Rollback, Start, TypeOK
    <3>2. call'[p] # NoCall
      BY <2>3, <3>1
    <3>3. QED
      BY <1>0, <2>2, <3>1, <3>2 DEF LockedBy, Working, Swaps, Undoes
  <2>5. CASE Reconcile(p, o)
    <3>1. /\ call'[p] = [kind |-> "reconcile", op |-> o, fresh |-> TRUE]
          /\ receipt[o].status = "started"
      BY <2>5 DEF Reconcile, Start, TypeOK
    <3>2. call'[p] # NoCall
      BY <2>3, <3>1
    <3>3. QED
      BY <1>0, <2>2, <3>1, <3>2 DEF LockedBy, Working, Swaps, Undoes
  <2>6. QED
    BY <2>1, <2>4, <2>5
<1>5. CASE Stage(p) \/ MoveAway(p) \/ MoveIn(p) \/ SwapFails(p)
  BY <1>0, <1>5 DEF Stage, MoveAway, MoveIn, SwapFails, Goto, disk, history,
     TypeOK, LockedBy, Working, Swaps, Undoes
<1>6. CASE Acquire(p)
  <2>1. /\ pc[p] = "acquire" /\ pc'[p] = "remove" /\ lock' = p
        /\ call'[p].kind = call[p].kind /\ call'[p] \in Call
        /\ UNCHANGED mem
    BY <1>1, <1>6 DEF Acquire, Goto, TypeOK, Call
  <2>2. QED
    BY <1>0, <2>1 DEF LockedBy, Working, Swaps, Undoes
<1>7. CASE Remove(p) \/ DropTemp(p) \/ PutBack(p)
  <2>1. /\ pc[p] \in {"remove"} \cup Undoes /\ pc'[p] \in Undoes
        /\ UNCHANGED <<lock, call, mem>>
    BY <1>7 DEF Remove, DropTemp, PutBack, Goto, TypeOK, Undoes
  <2>2. QED
    BY <1>0, <2>1 DEF LockedBy, Working, Swaps, Undoes
<1>8. CASE Ignore(p) /\ ~Return(p)
  <2>1. /\ pc[p] \in Undoes /\ pc'[p] \in Undoes
        /\ call' = [call EXCEPT ![p].fresh = FALSE]
        /\ UNCHANGED <<lock, mem>>
    BY <1>8 DEF Ignore, Goto, TypeOK, Undoes
  <2>2. call'[p].kind = call[p].kind /\ call'[p] \in Call
    BY <1>1, <2>1 DEF TypeOK, Call, Undoes
  <2>3. QED
    BY <1>0, <2>1, <2>2 DEF LockedBy, Working, Swaps, Undoes
<1>9. QED
  BY <1>2, <1>3, <1>4, <1>5, <1>6, <1>7, <1>8
     DEF Step, Progress, Commit, Refuse, Settle, StageFails, GiveUp

LEMMA LockedPreserved == TypeOK /\ Locked /\ [Next]_vars => Locked'
<1> SUFFICES ASSUME TypeOK, Locked, [Next]_vars PROVE Locked'
  OBVIOUS
<1>1. ASSUME NEW p \in Procs, Step(p)
      PROVE  Locked'
  <2>1. ASSUME NEW q \in Procs, q # p
        PROVE  LockedBy(q)'
    <3>1. pc'[q] = pc[q] /\ call'[q] = call[q] /\ mem'[q] = mem[q]
      BY <1>1, <2>1, StepOnly DEF Only
    <3>2. lock' = q <=> lock = q
      BY <1>1, <2>1, LockMoves, LockAssumption
    <3>3. QED
      BY <3>1, <3>2 DEF Locked, LockedBy
  <2>2. QED
    BY <1>1, <2>1, OwnLocked DEF Locked
<1>2. CASE Environment
  <2>1. /\ UNCHANGED <<pc, call, mem>>
        /\ \A p \in Procs : lock' = p <=> lock = p
    BY <1>2, LockAssumption
       DEF Environment, Unlock, Clean, Edit, vars
  <2>2. QED
    BY <2>1 DEF Locked, LockedBy
<1>3. QED
  BY <1>1, <1>2, StepCases

-------------------------------------------------------------------------------
\* What an operation without a receipt has moved: nothing.
LEMMA UnstagedPreserved ==
    TypeOK /\ Locked /\ Unstaged /\ AtWork /\ [Next]_vars => Unstaged'
<1> SUFFICES ASSUME TypeOK, Locked, Unstaged, AtWork, [Next]_vars,
                    NEW o \in Operations, receipt'[o] = NoReceipt
             PROVE  bak'[o] = Absent
  BY DEF Unstaged
<1>1. CASE Environment
  BY <1>1 DEF Environment, Unlock, Clean, Edit, vars, disk, Unstaged
<1>2. ASSUME NEW p \in Procs, Step(p)
      PROVE  bak'[o] = Absent
  <2>1. pc[p] # "idle" => /\ call[p].op \in Operations /\ mem[p] \in Receipt
                          /\ TakenBack(p) \in Receipt
                          /\ [mem[p] EXCEPT !.status = "committed"] \in Receipt
    BY Running DEF TakenBack, Receipt
  <2>2. receipt[o] = NoReceipt
    <3>1. CASE Stage(p) \/ Commit(p) \/ Settle(p)
      BY <1>2, <2>1, <3>1, NoReceiptAssumption DEF Stage, Commit, Settle, TypeOK
    <3>2. CASE Progress(p) /\ ~(Stage(p) \/ Commit(p) \/ Settle(p))
      BY <3>2 DEF Progress, MoveAway, MoveIn, Acquire, Refuse, Remove, DropTemp,
         PutBack, disk
    <3>3. CASE ~Progress(p)
      BY <1>2, <3>3 DEF Step, Register, Rollback, Reconcile, LeakLock,
         StageFails, SwapFails, Ignore, GiveUp, Crash, disk
    <3>4. QED
      BY <3>1, <3>2, <3>3
  <2>3. CASE MoveAway(p)
    <3>1. call[p].op # o
      BY <2>1, <2>2, <2>3, NoReceiptAssumption
         DEF MoveAway, AtWork, SwappingBy, Swaps, Locked, LockedBy
    <3>2. QED
      BY <2>2, <2>3, <3>1 DEF MoveAway, TypeOK, Unstaged
  <2>4. CASE PutBack(p)
    BY <2>1, <2>2, <2>4 DEF PutBack, TypeOK, Unstaged
  <2>5. CASE ~(MoveAway(p) \/ PutBack(p))
    <3>1. bak' = bak
      <4>1. CASE Progress(p)
        BY <2>5, <4>1 DEF Progress, Stage, MoveIn, Commit, Acquire, Refuse,
           Remove, DropTemp, Settle, disk
      <4>2. CASE ~Progress(p)
        BY <1>2, <4>2 DEF Step, Register, Rollback, Reconcile, LeakLock,
           StageFails, SwapFails, Ignore, GiveUp, Crash, disk
      <4>3. QED
        BY <4>1, <4>2
    <3>2. QED
      BY <2>2, <3>1 DEF Unstaged
  <2>6. QED
    BY <2>3, <2>4, <2>5
<1>3. QED
  BY <1>1, <1>2, StepCases

-------------------------------------------------------------------------------
\* A command that takes a registration back begins with what its receipt says.
LEMMA AcquireAtWork ==
    ASSUME TypeOK, Locked, ReceiptTrue, NEW p \in Procs, Acquire(p)
    PROVE  SwappingBy(p)' /\ ReturningBy(p)'
<1> DEFINE o == call[p].op
<1>1. /\ call[p] \in Call /\ mem[p] \in Receipt /\ o \in Operations
      /\ mem[p] # NoReceipt
  BY Running, NoReceiptAssumption DEF Acquire
<1>2. /\ pc'[p] = "remove"
      /\ UNCHANGED <<target, bak, receipt, mem, before, touched>>
      /\ Removable(p)
  BY DEF Acquire, Goto, disk, history, TypeOK
<1>3. /\ call'[p].op = o /\ call'[p].kind = call[p].kind
      /\ call'[p].fresh => mem[p] = receipt[o] /\ o \notin touched
  BY <1>1 DEF Acquire, TypeOK, Call
<1>4. \/ call[p].kind = "rollback" /\ mem[p].status = "committed"
      \/ call[p].kind = "reconcile" /\ mem[p].status = "started"
  BY DEF Acquire, Locked, LockedBy
<1>5. target \in {Absent, mem[p].manifest}
  BY <1>2 DEF Removable
<1>6. ASSUME Clear(p)'
      PROVE  Moved(o)
  <2>1. mem[p] = receipt[o] /\ o \notin touched
    BY <1>3, <1>6 DEF Clear
  <2>2. CASE call[p].kind = "rollback"
    BY <1>1, <1>4, <2>1, <2>2 DEF ReceiptTrue, Moved
  <2>3. CASE call[p].kind = "reconcile"
    <3>1. before[o] # mem[p].manifest
      BY <1>2, <1>3, <1>6, <2>3 DEF Clear
    <3>2. Moved(o) \/ Unmoved(o)
      BY <1>1, <1>4, <2>1, <2>3 DEF ReceiptTrue, Moved, Unmoved
    <3>3. QED
      BY <1>5, <3>1, <3>2 DEF Moved, Unmoved
  <2>4. QED
    BY <1>4, <2>2, <2>3
<1>7. SwappingBy(p)'
  BY <1>2 DEF SwappingBy, Swaps, Undoes
<1>8. ReturningBy(p)'
  <2>1. Clear(p)' => Moved(call[p].op)'
    BY <1>2, <1>3, <1>6 DEF Moved
  <2>2. QED
    BY <1>2, <1>3, <1>5, <2>1 DEF ReturningBy, Undoes, Moved
<1>9. QED
  BY <1>7, <1>8

\* The steps of a registration.
LEMMA SwapAtWork ==
    ASSUME TypeOK, Locked, Unstaged, AtWork, NEW p \in Procs,
           Stage(p) \/ MoveAway(p) \/ MoveIn(p) \/ SwapFails(p)
    PROVE  SwappingBy(p)' /\ ReturningBy(p)'
<1> DEFINE o == call[p].op
<1>1. o \in Operations /\ mem[p] \in Receipt
  BY Running DEF Stage, MoveAway, MoveIn, SwapFails
<1>2. call[p].kind = "register" /\ UNCHANGED <<call, mem>>
  BY DEF Stage, MoveAway, MoveIn, SwapFails, Locked, LockedBy, Swaps
<1>3. CASE Stage(p)
  <2>1. bak[o] = Absent
    BY <1>1, <1>3 DEF Stage, AtWork, SwappingBy, Unstaged
  <2>2. /\ pc'[p] = "moveAway" /\ UNCHANGED <<target, bak>>
        /\ receipt'[o] = mem[p] /\ before'[o] = target
        /\ touched' = Operations \ {o}
    BY <1>1, <1>3 DEF Stage, Goto, TypeOK
  <2>3. QED
    BY <1>2, <2>1, <2>2 DEF SwappingBy, ReturningBy, Swaps, Undoes, Unmoved
<1>4. CASE MoveAway(p)
  <2>1. pc'[p] = "moveIn" /\ target' = Absent /\ bak'[o] = before[o]
    BY <1>1, <1>4 DEF MoveAway, Goto, AtWork, SwappingBy, Unmoved, TypeOK
  <2>2. receipt'[o] = mem[p] /\ touched' = Operations \ {o} /\ UNCHANGED before
    BY <1>2, <1>4 DEF MoveAway, AtWork, SwappingBy, Swaps, history
  <2>3. QED
    BY <1>2, <2>1, <2>2 DEF SwappingBy, ReturningBy, Swaps, Undoes, Moved
<1>5. CASE MoveIn(p)
  <2>1. /\ pc'[p] = "commit" /\ target' = mem[p].manifest
        /\ bak'[o] = before[o] /\ UNCHANGED before
    BY <1>1, <1>5 DEF MoveIn, Goto, AtWork, SwappingBy, Moved, TypeOK, history
  <2>2. receipt'[o] = mem[p] /\ touched' = Operations \ {o}
    BY <1>2, <1>5 DEF MoveIn, AtWork, SwappingBy, Swaps, history
  <2>3. QED
    BY <1>2, <2>1, <2>2 DEF SwappingBy, ReturningBy, Swaps, Undoes, Moved
<1>6. CASE SwapFails(p)
  <2>1. /\ pc'[p] = "dropTemp"
        /\ UNCHANGED <<target, bak, receipt, before, touched>>
        /\ pc[p] \in {"moveAway", "moveIn"}
    BY <1>6 DEF SwapFails, Goto, disk, history, TypeOK
  <2>2. Unmoved(o) \/ (target = Absent /\ Moved(o))
    BY <2>1 DEF AtWork, SwappingBy
  <2>3. receipt[o] = mem[p] /\ touched = Operations \ {o}
    BY <1>2, <2>1 DEF AtWork, SwappingBy, Swaps
  <2>4. QED
    BY <1>2, <2>1, <2>2, <2>3
       DEF SwappingBy, ReturningBy, Swaps, Undoes, Moved, Unmoved
<1>7. QED
  BY <1>3, <1>4, <1>5, <1>6

\* The steps that take a registration back.
LEMMA UndoAtWork ==
    ASSUME TypeOK, Locked, AtWork, NEW p \in Procs,
           Remove(p) \/ DropTemp(p) \/ PutBack(p)
    PROVE  SwappingBy(p)' /\ ReturningBy(p)'
<1> DEFINE o == call[p].op
<1>1. o \in Operations /\ mem[p] \in Receipt
  BY Running DEF Remove, DropTemp, PutBack
<1>2. UNCHANGED <<call, mem, receipt, before>>
  BY DEF Remove, DropTemp, PutBack, history
<1>3. CASE Remove(p)
  <2>1. /\ pc[p] = "remove" /\ pc'[p] \in {"dropTemp", "putBack"}
        /\ target' = Absent /\ touched' = Operations /\ UNCHANGED bak
    BY <1>3 DEF Remove, Goto, TypeOK
  <2>2. call[p].kind # "register"
    BY <2>1 DEF Locked, LockedBy
  <2>3. Clear(p) => Moved(o)
    BY <2>1 DEF AtWork, ReturningBy
  <2>4. QED
    BY <1>2, <2>1, <2>2, <2>3
       DEF SwappingBy, ReturningBy, Swaps, Undoes, Moved, Unmoved, Clear
<1>4. CASE DropTemp(p)
  <2>1. /\ pc[p] = "dropTemp" /\ pc'[p] = "putBack"
        /\ UNCHANGED <<target, bak, touched>>
    BY <1>4 DEF DropTemp, Goto, TypeOK, history
  <2>2. SwappingBy(p) /\ ReturningBy(p)
    BY DEF AtWork
  <2>3. QED
    BY <1>2, <2>1, <2>2
       DEF SwappingBy, ReturningBy, Swaps, Undoes, Moved, Unmoved, Clear
<1>5. CASE PutBack(p)
  <2>1. pc[p] = "putBack" /\ pc'[p] = "settle" /\ UNCHANGED touched
    BY <1>5 DEF PutBack, Goto, TypeOK, history
  <2>2. SwappingBy(p) /\ ReturningBy(p)
    BY DEF AtWork
  <2>3. ASSUME Unmoved(o) \/ (target = Absent /\ Moved(o))
        PROVE  target' = before[o] /\ (Unmoved(o) \/ (target = Absent /\ Moved(o)))'
    <3>1. CASE bak[o] # Absent /\ target = Absent
      <4>1. target' = bak[o] /\ bak'[o] = Absent /\ Moved(o)
        BY <1>1, <1>5, <2>3, <3>1 DEF PutBack, TypeOK, Unmoved
      <4>2. QED
        BY <1>2, <4>1 DEF Moved, Unmoved
    <3>2. CASE ~(bak[o] # Absent /\ target = Absent)
      <4>1. UNCHANGED <<target, bak>>
        BY <1>5, <3>2 DEF PutBack
      <4>2. QED
        BY <1>2, <2>3, <3>2, <4>1 DEF Moved, Unmoved
    <3>3. QED
      BY <3>1, <3>2
  <2>4. SwappingBy(p)'
    BY <1>2, <2>1, <2>2 DEF SwappingBy, Swaps, Undoes
  <2>5. ReturningBy(p)'
    BY <1>2, <2>1, <2>2, <2>3 DEF ReturningBy, Undoes, Clear, Moved, Unmoved
  <2>6. QED
    BY <2>4, <2>5
<1>6. QED
  BY <1>3, <1>4, <1>5

\* A step of a process and what it has reached itself.
LEMMA OwnAtWork ==
    ASSUME TypeOK, Locked, Unstaged, AtWork, ReceiptTrue, NEW p \in Procs, Step(p)
    PROVE  SwappingBy(p)' /\ ReturningBy(p)'
<1>1. CASE pc'[p] \in {"idle", "acquire"}
  BY <1>1 DEF SwappingBy, ReturningBy, Swaps, Undoes
<1>2. CASE Return(p) \/ LeakLock(p) \/ Crash(p)
  BY <1>1, <1>2 DEF Return, LeakLock, Crash, Goto, TypeOK
<1>3. CASE \E o \in Operations, k \in Manifests : Register(p, o, k)
  <2>1. PICK o \in Operations, k \in Manifests : Register(p, o, k)
    BY <1>3
  <2>2. /\ pc'[p] = "stage" /\ receipt'[o] = NoReceipt
        /\ call'[p] = [kind |-> "register", op |-> o, fresh |-> TRUE]
    BY <2>1 DEF Register, Start, Goto, disk, TypeOK
  <2>3. call'[p].op = o
    BY <2>2
  <2>4. QED
    BY <2>2, <2>3 DEF SwappingBy, ReturningBy, Swaps, Undoes
<1>4. CASE \E o \in Operations : Rollback(p, o) \/ Reconcile(p, o)
  BY <1>1, <1>4 DEF Rollback, Reconcile, Start, Goto, TypeOK
<1>5. CASE Ignore(p) /\ ~Return(p)
  <2>1. /\ pc[p] \in Undoes /\ pc'[p] \in Undoes
        /\ call' = [call EXCEPT ![p].fresh = FALSE]
        /\ UNCHANGED <<mem, target, bak, receipt, before, touched>>
    BY <1>5 DEF Ignore, Goto, history, TypeOK, Undoes
  <2>2. call[p] \in Call /\ call[p].kind = "register"
    BY <1>5, <2>1, Running DEF Ignore, Undoes
  <2>3. /\ call'[p].kind = "register" /\ call'[p].op = call[p].op
        /\ ~call'[p].fresh
    BY <2>1, <2>2 DEF TypeOK, Call
  <2>4. ~Clear(p)'
    BY <2>3 DEF Clear
  <2>5. SwappingBy(p) /\ ReturningBy(p)
    BY DEF AtWork
  <2>6. SwappingBy(p)'
    BY <2>1, <2>2, <2>3, <2>5 DEF SwappingBy, Swaps, Undoes
  <2>7. ReturningBy(p)'
    BY <2>1, <2>2, <2>3, <2>4, <2>5 DEF ReturningBy, Undoes, Moved, Unmoved
  <2>8. QED
    BY <2>6, <2>7
<1>6. QED
  BY <1>2, <1>3, <1>4, <1>5, AcquireAtWork, SwapAtWork, UndoAtWork
     DEF Step, Progress, Commit, Refuse, Settle, StageFails, GiveUp

LEMMA AtWorkPreserved ==
    TypeOK /\ Locked /\ Unstaged /\ AtWork /\ ReceiptTrue /\ [Next]_vars => AtWork'
<1> SUFFICES ASSUME TypeOK, Locked, Unstaged, AtWork, ReceiptTrue, [Next]_vars,
                    NEW q \in Procs
             PROVE  SwappingBy(q)' /\ ReturningBy(q)'
  BY DEF AtWork
<1>1. ASSUME Steady(q)
      PROVE  SwappingBy(q)' /\ ReturningBy(q)'
  <2>1. SwappingBy(q) /\ ReturningBy(q)
    BY DEF AtWork
  <2>2. QED
    BY <1>1, <2>1
       DEF Steady, SwappingBy, ReturningBy, Clear, Moved, Unmoved
<1>2. ASSUME pc'[q] \notin Working
      PROVE  SwappingBy(q)' /\ ReturningBy(q)'
  BY <1>2 DEF SwappingBy, ReturningBy, Working, Swaps, Undoes
<1>3. ASSUME NEW p \in Procs, Step(p)
      PROVE  SwappingBy(q)' /\ ReturningBy(q)'
  <2>1. CASE q = p
    BY <1>3, <2>1, OwnAtWork
  <2>2. CASE q # p /\ pc[q] \in Working
    BY <1>1, <1>3, <2>2, OthersWait
  <2>3. CASE q # p /\ pc[q] \notin Working
    BY <1>2, <1>3, <2>3, StepOnly DEF Only
  <2>4. QED
    BY <2>1, <2>2, <2>3
<1>4. CASE Environment
  <2>1. pc' = pc
    BY <1>4 DEF Environment, Unlock, Clean, Edit, vars
  <2>2. QED
    BY <1>1, <1>2, <1>4, <2>1, AllWait
<1>5. QED
  BY <1>3, <1>4, StepCases

-------------------------------------------------------------------------------
\* Where a registration stops, its receipt says what is there.
LEMMA ReceiptTruePreserved ==
    TypeOK /\ Locked /\ AtWork /\ AtWork' /\ ReceiptTrue /\ [Next]_vars
    => ReceiptTrue'
<1> SUFFICES ASSUME TypeOK, Locked, AtWork, AtWork', ReceiptTrue, [Next]_vars
             PROVE  ReceiptTrue'
  OBVIOUS
<1>1. CASE touched' = Operations
  BY <1>1 DEF ReceiptTrue
<1>2. CASE UNCHANGED <<target, bak, receipt, before, touched>>
  BY <1>2 DEF ReceiptTrue
<1>3. CASE Environment
  BY <1>1, <1>2, <1>3 DEF Environment, Unlock, Clean, Edit, vars, disk, history
<1>4. ASSUME NEW p \in Procs, Step(p)
      PROVE  ReceiptTrue'
  <2> DEFINE o == call[p].op
  <2>1. ASSUME NEW q \in Operations, touched' = Operations \ {q},
               receipt'[q].status = "started",
               \/ bak'[q] = before'[q] /\ target' \in {Absent, receipt'[q].manifest}
               \/ target' = before'[q] /\ bak'[q] = Absent
        PROVE  ReceiptTrue'
    BY <2>1 DEF ReceiptTrue
  <2>2. pc[p] # "idle" => o \in Operations /\ mem[p] \in Receipt
    BY Running
  <2>3. SwappingBy(p)' /\ ReturningBy(p)' /\ SwappingBy(p) /\ ReturningBy(p)
    BY DEF AtWork
  <2>4. CASE Stage(p) \/ MoveAway(p) \/ MoveIn(p)
    <3>1. /\ pc[p] \in {"stage"} \cup Swaps /\ pc'[p] \in Swaps
          /\ UNCHANGED <<call, mem>>
      BY <2>4 DEF Stage, MoveAway, MoveIn, Goto, TypeOK, Swaps
    <3>2. call[p].kind = "register" /\ mem[p].status = "started"
      BY <3>1 DEF Locked, LockedBy, Working
    <3>3. receipt'[o] = mem[p] /\ touched' = Operations \ {o}
      BY <2>3, <3>1, <3>2 DEF SwappingBy
    <3>4. \/ bak'[o] = before'[o] /\ target' \in {Absent, mem[p].manifest}
          \/ target' = before'[o] /\ bak'[o] = Absent
      BY <2>3, <3>1 DEF SwappingBy, Swaps, Moved, Unmoved
    <3>5. QED
      BY <2>1, <2>2, <3>1, <3>2, <3>3, <3>4 DEF Swaps
  <2>5. CASE PutBack(p)
    <3>1. /\ pc[p] = "putBack" /\ pc'[p] = "settle"
          /\ UNCHANGED <<call, mem>>
      BY <2>5 DEF PutBack, Goto, TypeOK
    <3>2. CASE call[p].kind = "register"
      <4>1. mem[p].status = "started"
        BY <3>1, <3>2 DEF Locked, LockedBy, Working, Undoes
      <4>2. receipt'[o] = mem[p] /\ touched' = Operations \ {o}
        BY <2>3, <3>1, <3>2 DEF SwappingBy, Undoes
      <4>3. \/ bak'[o] = before'[o] /\ target' = Absent
            \/ target' = before'[o] /\ bak'[o] = Absent
        BY <2>3, <3>1, <3>2 DEF ReturningBy, Undoes, Moved, Unmoved
      <4>4. QED
        BY <2>1, <2>2, <3>1, <4>1, <4>2, <4>3
    <3>3. CASE call[p].kind # "register"
      BY <1>1, <2>3, <3>1, <3>3 DEF ReturningBy, Undoes
    <3>4. QED
      BY <3>2, <3>3
  <2>6. CASE Commit(p)
    <3>1. pc[p] = "commit" /\ UNCHANGED <<target, bak, before, touched>>
      BY <2>6 DEF Commit, history
    <3>2. call[p].kind = "register"
      BY <3>1 DEF Locked, LockedBy, Swaps
    <3>3. /\ touched = Operations \ {o}
          /\ target = mem[p].manifest /\ Moved(o)
      BY <2>3, <3>1, <3>2 DEF SwappingBy, Swaps
    <3>4. /\ receipt'[o].status = "committed"
          /\ receipt'[o].manifest = mem[p].manifest
      BY <2>2, <2>6, <3>1 DEF Commit, TypeOK, Receipt
    <3>5. QED
      BY <3>1, <3>3, <3>4 DEF ReceiptTrue, Moved
  <2>7. CASE Settle(p)
    <3>1. UNCHANGED <<target, bak, before, touched>> /\ pc[p] = "settle"
      BY <2>7 DEF Settle, history
    <3>2. receipt'[o].status \in {"rolledback", "aborted"}
      BY <2>2, <2>7, <3>1 DEF Settle, TakenBack, TypeOK, Receipt
    <3>3. \A q \in Operations \ {o} : receipt'[q] = receipt[q]
      BY <2>7 DEF Settle, TypeOK
    <3>4. QED
      BY <3>1, <3>2, <3>3 DEF ReceiptTrue
  <2>8. CASE Remove(p)
    BY <1>1, <2>8 DEF Remove
  <2>9. CASE ~(\/ Stage(p) \/ MoveAway(p) \/ MoveIn(p) \/ PutBack(p)
               \/ Commit(p) \/ Settle(p) \/ Remove(p))
    <3>1. CASE Progress(p)
      BY <1>2, <2>9, <3>1 DEF Progress, Acquire, Refuse, DropTemp, disk, history
    <3>2. CASE ~Progress(p)
      BY <1>2, <1>4, <3>2 DEF Step, Register, Rollback, Reconcile, LeakLock,
         StageFails, SwapFails, Ignore, GiveUp, Crash, disk, history
    <3>3. QED
      BY <3>1, <3>2
  <2>10. QED
    BY <2>4, <2>5, <2>6, <2>7, <2>8, <2>9
<1>5. QED
  BY <1>3, <1>4, StepCases

\* The inductive invariant: the lock protects target and receipts, and every
\* command has reached what its next step needs.
THEOREM InvCorrect == Spec => []Inv
<1>1. Inv /\ [Next]_vars => Inv'
  BY TypePreserved, LockedPreserved, UnstagedPreserved, AtWorkPreserved,
     ReceiptTruePreserved DEF Inv
<1>2. QED
  BY <1>1, InvInitial, PTL DEF Spec

\* Target, receipts and what commands hold in memory are always well typed; in
\* particular every receipt has one of the four statuses that
\* read_registration_receipt knows.
THEOREM TypeCorrect == Spec => []TypeOK
BY InvCorrect, PTL DEF Inv

\* As long as nobody else has changed the target, a committed receipt means
\* that the new manifest is there and the old one in the backup, and a started
\* one that nothing is lost: what native_rollback_registration and
\* native_reconcile_registrations rely on after a crash.
THEOREM ReceiptTrueCorrect == Spec => []ReceiptTrue
BY InvCorrect, PTL DEF Inv

-------------------------------------------------------------------------------
\* No step of a command destroys a manifest of others.
LEMMA StepKeeps ==
    ASSUME Inv, NEW p \in Procs, Step(p), NEW t \in Others, Kept(t)
    PROVE  Kept(t)'
<1> DEFINE o == call[p].op
<1> USE ManifestsAssumption DEF Inv
<1>1. pc[p] # "idle" => o \in Operations /\ mem[p].manifest \in Manifests
  BY Running
<1>2. SwappingBy(p) /\ ReturningBy(p) /\ t # Absent
  BY DEF AtWork
<1>3. CASE MoveAway(p)
  <2>1. pc[p] = "moveAway" /\ o \in Operations /\ bak[o] = Absent
    BY <1>1, <1>2, <1>3 DEF MoveAway, SwappingBy, Unmoved
  <2>2. bak'[o] = target /\ \A q \in Operations \ {o} : bak'[q] = bak[q]
    BY <1>3, <2>1 DEF MoveAway, TypeOK
  <2>3. QED
    BY <1>2, <2>1, <2>2 DEF Kept
<1>4. CASE MoveIn(p)
  <2>1. target = Absent /\ bak' = bak
    BY <1>2, <1>4 DEF MoveIn, SwappingBy
  <2>2. QED
    BY <1>2, <2>1 DEF Kept
<1>5. CASE Remove(p)
  <2>1. target \in {Absent, mem[p].manifest} /\ bak' = bak
    BY <1>2, <1>5 DEF Remove, ReturningBy
  <2>2. target # t
    BY <1>1, <1>2, <1>5, <2>1 DEF Remove
  <2>3. QED
    BY <2>1, <2>2 DEF Kept
<1>6. CASE PutBack(p)
  <2>1. CASE bak[o] # Absent /\ target = Absent
    <3>1. /\ target' = bak[o]
          /\ \A q \in Operations \ {o} : bak'[q] = bak[q]
      BY <1>6, <2>1 DEF PutBack, TypeOK
    <3>2. QED
      BY <1>2, <2>1, <3>1 DEF Kept
  <2>2. CASE ~(bak[o] # Absent /\ target = Absent)
    BY <1>6, <2>2 DEF PutBack, Kept
  <2>3. QED
    BY <2>1, <2>2
<1>7. CASE ~(MoveAway(p) \/ MoveIn(p) \/ Remove(p) \/ PutBack(p))
  <2>1. UNCHANGED <<target, bak>>
    <3>1. CASE Progress(p)
      BY <1>7, <3>1 DEF Progress, Stage, Commit, Acquire, Refuse, DropTemp,
         Settle, disk
    <3>2. CASE ~Progress(p)
      BY <3>2 DEF Step, Register, Rollback, Reconcile, LeakLock, StageFails,
         SwapFails, Ignore, GiveUp, Crash, disk
    <3>3. QED
      BY <3>1, <3>2
  <2>2. QED
    BY <2>1 DEF Kept
<1>8. QED
  BY <1>3, <1>4, <1>5, <1>6, <1>7

\* No command destroys a marketplace manifest that others have written, and
\* nobody's backup is overwritten: native_register_marketplace moves it away,
\* and what the others remove has the digest of their own manifest.
THEOREM NothingLostCorrect == Spec => NothingLost
<1>1. ASSUME Inv, [Next]_vars
      PROVE  \A t \in Others : Kept(t) => Kept(t)'
  <2> SUFFICES ASSUME NEW t \in Others, Kept(t)
               PROVE  Kept(t)'
    OBVIOUS
  <2>1. ASSUME NEW p \in Procs, Step(p)
        PROVE  Kept(t)'
    BY <1>1, <2>1, StepKeeps
  <2>2. CASE Environment
    BY <2>2 DEF Environment, Unlock, Clean, Edit, vars, disk, Kept
  <2>3. QED
    BY <1>1, <2>1, <2>2, StepCases
<1>2. QED
  BY <1>1, InvCorrect, PTL DEF Spec, NothingLost

-------------------------------------------------------------------------------
\* Receipts change where one is written.
LEMMA ReceiptWritten ==
    ASSUME TypeOK, [Next]_vars, receipt' # receipt
    PROVE  \E p \in Procs : Stage(p) \/ Commit(p) \/ Settle(p)
<1>1. ~Environment
  BY DEF Environment, Unlock, Clean, Edit, vars, disk
<1>2. PICK p \in Procs : Step(p)
  BY <1>1, StepCases
<1>3. Progress(p)
  BY <1>2 DEF Step, Register, Rollback, Reconcile, LeakLock, StageFails,
     SwapFails, Ignore, GiveUp, Crash, disk
<1>4. QED
  BY <1>3 DEF Progress, MoveAway, MoveIn, Acquire, Refuse, Remove, DropTemp,
     PutBack, disk

\* A registration that has been taken back, by itself, by a rollback or by a
\* reconcile, has left the target as it was before, unless a reconcile has met
\* an equal manifest that was there before.
THEOREM TakenBackIsRestoredCorrect == Spec => TakenBackIsRestored
<1>1. ASSUME Inv, [Next]_vars, NEW p \in Procs, TakesBack(p),
             call[p].kind = "reconcile" => before[call[p].op] # mem[p].manifest
      PROVE  target' = before[call[p].op]
  <2> USE <1>1 DEF Inv
  <2>1. PICK q \in Procs : Stage(q) \/ Commit(q) \/ Settle(q)
    BY ReceiptWritten DEF TakesBack
  <2>2. UNCHANGED target
    BY <2>1 DEF Stage, Commit, Settle
  <2>3. ReturningBy(p) /\ Clear(p) /\ pc[p] = "settle"
    BY DEF AtWork, TakesBack, Clear
  <2>4. QED
    BY <2>2, <2>3 DEF ReturningBy
<1>2. Inv /\ [Next]_vars =>
          \A p \in Procs :
              LET o == call[p].op IN
              (/\ TakesBack(p) /\ pc'[p] = "idle"
               /\ call[p].kind = "reconcile" => before[o] # mem[p].manifest)
              => target' = before[o]
  BY <1>1
<1>3. QED
  BY <1>2, InvCorrect, PTL DEF Spec, TakenBackIsRestored
===============================================================================
