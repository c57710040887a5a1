------------------------- MODULE TaskTransitionProofs -------------------------
(***************************************************************************)
(* Proofs about TaskTransition.tla for any number of tasks, operations,    *)
(* passports and failing writes.                                           *)
(*                                                                         *)
(* What a call has read stays true while it holds the lock (Validated,     *)
(* Underway); passports are told apart by their ids (DistinctPassports);   *)
(* and a task that is not Done can show a passport that is current and     *)
(* spent only while a call is between tasks.md and the passport (Dead).    *)
(***************************************************************************)
EXTENDS TaskTransition, TLAPS


\* What the call has validated holds until it rewrites tasks.md.
Validated ==
    step \in {"begin", "write"} =>
        /\ tasks[call.task] = call.from
        /\ CanTransition(call.from, call.to)
        /\ call.to = "Done" =>
               /\ call.seen # NoPassport
               /\ call.seen.row = rows[call.task]
               /\ call.from # "Done" /\ call.seen.id \in spent
                      => call.task \in torn

\* From then on tasks.md shows the target, and the receipt is the call's own.
Underway ==
    /\ step \in {"supersede", "restore"} =>
           Reopening /\ tasks[call.task] = "InProgress"
    /\ step = "commit" => tasks[call.task] = call.to
    /\ step \in {"write", "supersede", "restore", "commit"}
           => InProgressFor(receipt, request)

\* Passports are numbered in the order they are written.
DistinctPassports ==
    /\ spent \subseteq 1 .. issued
    /\ \A t \in Tasks : passports[t] # NoPassport => passports[t].id <= issued
    /\ \A t, u \in Tasks :
           t # u /\ passports[t] # NoPassport /\ passports[u] # NoPassport
               => passports[t].id # passports[u].id
    /\ step # "idle" /\ call.seen # NoPassport =>
           /\ call.seen.id <= issued
           /\ \A u \in Tasks : u # call.task /\ passports[u] # NoPassport
                                   => passports[u].id # call.seen.id

\* Only a call between tasks.md and the passport, or one that was cut there,
\* leaves a spent passport current on a task that is not Done.
Dead ==
    /\ \A t \in Tasks :
           tasks[t] # "Done" /\ t \notin torn =>
               \/ ~SpentCurrent(t)
               \/ step \in {"supersede", "restore"} /\ t = call.task
    /\ step \in {"begin", "write", "supersede", "restore"}
       /\ call.from = "Done" /\ call.to = "InProgress" =>
           passports[call.task] = call.seen \/ ~SpentCurrent(call.task)

Inv == TypeOK /\ Validated /\ Underway /\ DistinctPassports /\ Dead

\* The workspace a run starts from is well typed.
LEMMA TypeInitial == Init => TypeOK
BY BoundsAssumption DEF Init, TypeOK, Steps

\* The files a call writes stay well typed, whatever each write's outcome.
LEMMA WritesTyped ==
    ASSUME TypeOK, Validated, Underway, NEW outcome \in Outcomes, Writes(outcome)
    PROVE  TypeOK'
<1> USE BoundsAssumption, TargetsAssumption
    DEF TypeOK, Steps, Calls, Write, Written, Failed, Outcomes,
        history, files
<1>0. step # "idle" /\ call \in Calls
  BY DEF Writes, Begin, WriteTasks, Supersede, Restore, Commit, Abort
<1> DEFINE statusTyped(s) == Stamp(request, s) \in Receipts(Requests)
<1>r. /\ statusTyped("started") /\ statusTyped("committed")
      /\ statusTyped("aborted")
  BY <1>0 DEF request, Stamp, Receipts, Requests, Statuses
<1> HIDE DEF statusTyped
<1>1. ASSUME NEW s \in Statuses, SetReceipt(outcome, s)
      PROVE  receipts' \in [Operations -> Receipts(Requests) \cup {NoReceipt}]
  BY <1>0, <1>1, <1>r DEF SetReceipt, receipt, Statuses, statusTyped
<1>2. CASE Begin(outcome)
  BY <1>0, <1>1, <1>2 DEF Begin, Statuses
<1>3. CASE WriteTasks(outcome)
  <2>1. tasks' \in [Tasks -> TaskStatus]
    BY <1>0, <1>3 DEF WriteTasks, SetStatus
  <2>2. spent' \subseteq 1 .. MaxPassports
    BY <1>0, <1>3 DEF WriteTasks, Passport, Validated
  <2>3. QED
    BY <1>0, <1>3, <2>1, <2>2 DEF WriteTasks
<1>4. CASE Supersede(outcome)
  <2>1. passports' \in [Tasks -> Passport \cup {NoPassport}]
    BY <1>0, <1>4 DEF Supersede, Superseded, Passport,
                         Underway, Reopening
  <2>2. QED
    BY <1>0, <1>4, <2>1 DEF Supersede
<1>5. CASE Restore(outcome)
  BY <1>0, <1>5 DEF Restore, SetStatus
<1>6. CASE Commit(outcome)
  BY <1>0, <1>1, <1>6 DEF Commit, Statuses
<1>7. CASE Abort(outcome)
  BY <1>0, <1>1, <1>7 DEF Abort, Statuses
<1>8. QED
  BY <1>2, <1>3, <1>4, <1>5, <1>6, <1>7 DEF Writes

\* Every step of a call or of its environment keeps the state well typed.
LEMMA TypePreserved == TypeOK /\ Validated /\ Underway /\ [Next]_vars => TypeOK'
<1> SUFFICES ASSUME TypeOK, Validated, Underway, [Next]_vars
             PROVE  TypeOK'
  OBVIOUS
<1>1. ASSUME NEW o \in Operations, NEW t \in Tasks, NEW to \in Targets,
             Accept(o, t, to) \/ Reject(o, t, to)
      PROVE  TypeOK'
  <2>1. tasks[t] \in TaskStatus /\ Seen(t, to) \in Passport \cup {NoPassport}
    BY DEF TypeOK, Seen
  <2>2. call' \in Calls
    BY <1>1, <2>1 DEF Accept, Reject, Call, Calls
  <2>3. QED
    BY <1>1, <2>2 DEF Accept, Reject, Call, TypeOK, Steps, files, history
<1>2. ASSUME Proceed
      PROVE  TypeOK'
  <2>1. CASE \E outcome \in Outcomes : Writes(outcome)
    BY <2>1, WritesTyped
  <2>2. CASE BeginRefused \/ AbortRefused
    BY <2>2 DEF BeginRefused, AbortRefused, TypeOK, Steps, files, history
  <2>3. CASE Release \/ ReleaseFails
    <3>1. faults' \in 0 .. MaxFaults
      BY <2>3, BoundsAssumption
         DEF Release, ReleaseFails, Write, Failed, TypeOK
    <3>2. QED
      BY <2>3, <3>1
         DEF Release, ReleaseFails, End, TypeOK, Steps, files, history
  <2>4. QED
    BY <1>2, <2>1, <2>2, <2>3 DEF Proceed
<1>3. ASSUME Environment
      PROVE  TypeOK'
  <2>1. CASE Crash
    BY <2>1 DEF Crash, End, HalfReopened, TypeOK, Steps, Calls, files, history
  <2>2. CASE ReconcileLock
    BY <2>2 DEF ReconcileLock, TypeOK, files, history
  <2>3. ASSUME NEW o \in Operations, AbortOperation(o)
        PROVE  TypeOK'
    <3>1. Stamp(receipts[o].digest, "aborted") \in Receipts(Requests)
      BY <2>3 DEF AbortOperation, TypeOK, Stamp, Receipts, Statuses
    <3>2. receipts' \in [Operations -> Receipts(Requests) \cup {NoReceipt}]
      BY <2>3, <3>1 DEF AbortOperation, TypeOK
    <3>3. QED
      BY <2>3, <3>2 DEF AbortOperation, TypeOK, history
  <2>4. ASSUME NEW t \in Tasks, NEW row \in Rows, IssuePassport(t, row)
        PROVE  TypeOK'
    <3>1. [id |-> issued + 1, row |-> row, status |-> "current"] \in Passport
      BY <2>4, BoundsAssumption DEF IssuePassport, TypeOK, Passport
    <3>2. passports' \in [Tasks -> Passport \cup {NoPassport}]
      BY <2>4, <3>1 DEF IssuePassport, TypeOK
    <3>3. issued' \in 0 .. MaxPassports
      BY <2>4, BoundsAssumption DEF IssuePassport, TypeOK
    <3>4. QED
      BY <2>4, <3>2, <3>3 DEF IssuePassport, TypeOK, history
  <2>5. ASSUME NEW t \in Tasks, NEW row \in Rows, EditRow(t, row)
        PROVE  TypeOK'
    BY <2>5 DEF EditRow, TypeOK, history
  <2>6. QED
    BY <1>3, <2>1, <2>2, <2>3, <2>4, <2>5 DEF Environment
<1>4. CASE UNCHANGED vars
  BY <1>4 DEF vars, TypeOK
<1>5. QED
  BY <1>1, <1>2, <1>3, <1>4 DEF Next
-------------------------------------------------------------------------------
\* What a call validated stays true until it writes tasks.md: rows and
\* statuses change only under the lock.
LEMMA ValidatedPreserved == Inv /\ [Next]_vars => Validated'
<1> SUFFICES ASSUME Inv, [Next]_vars
             PROVE  Validated'
  OBVIOUS
<1> USE DEF Validated, files, history
<1>1. ASSUME NEW o \in Operations, NEW t \in Tasks, NEW to \in Targets,
             Accept(o, t, to)
      PROVE  Validated'
  <2>1. CanTransition(tasks[t], to)
    BY <1>1 DEF Accept, Admits
  <2>2. ASSUME to = "Done"
        PROVE  /\ call'.seen # NoPassport
               /\ call'.seen.row = rows[t]
               /\ tasks[t] # "Done" /\ call'.seen.id \in spent => t \in torn
    <3>1. call'.seen = passports[t] /\ Validates(passports[t], t)
      BY <1>1, <2>2 DEF Accept, Call, Seen, Gate
    <3>2. QED
      BY <1>1, <3>1
         DEF Accept, Call, Inv, Dead, SpentCurrent, Validates, IsCurrent
  <2>3. QED
    BY <1>1, <2>1, <2>2 DEF Accept, Call
<1>2. ASSUME NEW o \in Operations, NEW t \in Tasks, NEW to \in Targets,
             Reject(o, t, to)
      PROVE  Validated'
  BY <1>2 DEF Reject
<1>3. CASE Proceed
  <2>1. ASSUME NEW outcome \in Outcomes, Begin(outcome)
        PROVE  Validated'
    BY <2>1 DEF Begin, Inv
  <2>2. ASSUME NEW outcome \in Outcomes, WriteTasks(outcome)
        PROVE  Validated'
    BY <2>2 DEF WriteTasks
  <2>3. ASSUME NEW outcome \in Outcomes,
               \/ Supersede(outcome) \/ Restore(outcome)
               \/ Commit(outcome) \/ Abort(outcome)
        PROVE  Validated'
    BY <2>3 DEF Supersede, Restore, Commit, Abort
  <2>4. CASE BeginRefused \/ AbortRefused \/ Release \/ ReleaseFails
    BY <2>4 DEF BeginRefused, AbortRefused, Release, ReleaseFails, End
  <2>5. QED
    BY <1>3, <2>1, <2>2, <2>3, <2>4 DEF Proceed, Writes
<1>4. CASE Environment
  BY <1>4 DEF Environment, Crash, End, ReconcileLock, AbortOperation,
              IssuePassport, EditRow, Inv
<1>5. CASE UNCHANGED vars
  BY <1>5 DEF vars, Inv
<1>6. QED
  BY <1>1, <1>2, <1>3, <1>4, <1>5 DEF Next

\* While a call works on tasks.md and the passport, its receipt stays started.
LEMMA UnderwayPreserved == Inv /\ [Next]_vars => Underway'
<1> SUFFICES ASSUME Inv, [Next]_vars
             PROVE  Underway'
  OBVIOUS
<1> USE DEF Underway, files, history, Reopening, InProgressFor, receipt, request
<1>1. ASSUME NEW o \in Operations, NEW t \in Tasks, NEW to \in Targets,
             Accept(o, t, to) \/ Reject(o, t, to)
      PROVE  Underway'
  BY <1>1 DEF Accept, Reject
<1>2. CASE Proceed
  <2>1. ASSUME NEW outcome \in Outcomes, Begin(outcome)
        PROVE  Underway'
    BY <2>1 DEF Begin, SetReceipt, Written, Failed, Inv, TypeOK, Calls, Outcomes
  <2>2. ASSUME NEW outcome \in Outcomes, WriteTasks(outcome)
        PROVE  Underway'
    BY <2>2 DEF WriteTasks, SetStatus, Written, Failed, Inv, TypeOK, Calls,
                Outcomes
  <2>3. ASSUME NEW outcome \in Outcomes,
               \/ Supersede(outcome) \/ Restore(outcome)
               \/ Commit(outcome) \/ Abort(outcome)
        PROVE  Underway'
    BY <2>3 DEF Supersede, Restore, Commit, Abort, Inv
  <2>4. CASE BeginRefused \/ AbortRefused \/ Release \/ ReleaseFails
    BY <2>4 DEF BeginRefused, AbortRefused, Release, ReleaseFails, End
  <2>5. QED
    BY <1>2, <2>1, <2>2, <2>3, <2>4 DEF Proceed, Writes
<1>3. CASE Environment
  BY <1>3 DEF Environment, Crash, End, ReconcileLock, AbortOperation,
              IssuePassport, EditRow, Inv
<1>4. CASE UNCHANGED vars
  BY <1>4 DEF vars, Inv
<1>5. QED
  BY <1>1, <1>2, <1>3, <1>4 DEF Next

\* A new passport gets a number no passport and no completion has used.
LEMMA DistinctPreserved == Inv /\ [Next]_vars => DistinctPassports'
<1> SUFFICES ASSUME Inv, [Next]_vars
             PROVE  DistinctPassports'
  OBVIOUS
<1> USE DEF DistinctPassports, files, history
<1>0. /\ issued \in Nat
      /\ \A t \in Tasks : passports[t] # NoPassport => passports[t].id \in Nat
      /\ step # "idle" /\ call.seen # NoPassport
             => call.seen.id \in Nat \ {0}
  BY BoundsAssumption DEF Inv, TypeOK, Passport, Calls
<1>1. ASSUME NEW o \in Operations, NEW t \in Tasks, NEW to \in Targets,
             Accept(o, t, to) \/ Reject(o, t, to)
      PROVE  DistinctPassports'
  <2>1. /\ call'.task = t
        /\ call'.seen = passports[t] \/ call'.seen = NoPassport
    BY <1>1 DEF Accept, Reject, Call, Seen
  <2>2. UNCHANGED <<passports, issued, spent>>
    BY <1>1 DEF Accept, Reject, Call
  <2>3. QED
    BY <2>1, <2>2 DEF Inv
<1>2. CASE Proceed
  <2>1. ASSUME NEW outcome \in Outcomes,
               \/ Begin(outcome) \/ Restore(outcome)
               \/ Commit(outcome) \/ Abort(outcome)
        PROVE  DistinctPassports'
    BY <2>1 DEF Begin, Restore, Commit, Abort, Inv
  <2>2. ASSUME NEW outcome \in Outcomes, WriteTasks(outcome)
        PROVE  DistinctPassports'
    <3>1. spent' \subseteq 1 .. issued
      <4>1. step = "write" /\ (spent' = spent \/ spent' = spent \cup {call.seen.id})
        BY <2>2 DEF WriteTasks
      <4>2. spent' # spent => call.seen # NoPassport
        BY <2>2 DEF WriteTasks, Inv, Validated
      <4>3. QED
        BY <1>0, <4>1, <4>2 DEF Inv
    <3>2. QED
      BY <2>2, <3>1 DEF WriteTasks, Inv
  <2>3. ASSUME NEW outcome \in Outcomes, Supersede(outcome)
        PROVE  DistinctPassports'
    <3>1. call.task \in Tasks /\ call.seen # NoPassport
      BY <2>3 DEF Supersede, Inv, TypeOK, Calls, Underway, Reopening
    <3>2. \A t \in Tasks : \/ passports'[t] = passports[t]
                           \/ t = call.task /\ passports'[t].id = call.seen.id
      BY <2>3, <3>1 DEF Supersede, Written, Superseded, Inv, TypeOK
    <3>3. QED
      BY <1>0, <2>3, <3>1, <3>2 DEF Supersede, Inv
  <2>4. CASE BeginRefused \/ AbortRefused \/ Release \/ ReleaseFails
    BY <2>4 DEF BeginRefused, AbortRefused, Release, ReleaseFails, End, Inv
  <2>5. QED
    BY <1>2, <2>1, <2>2, <2>3, <2>4 DEF Proceed, Writes
<1>3. CASE Environment
  <2>1. CASE Crash \/ ReconcileLock
    BY <2>1 DEF Crash, End, ReconcileLock, Inv
  <2>2. ASSUME NEW o \in Operations, AbortOperation(o)
        PROVE  DistinctPassports'
    BY <2>2 DEF AbortOperation, Inv
  <2>3. ASSUME NEW t \in Tasks, NEW row \in Rows, IssuePassport(t, row)
        PROVE  DistinctPassports'
    <3>1. \A u \in Tasks : IF u = t THEN passports'[u].id = issued + 1
                                    ELSE passports'[u] = passports[u]
      BY <2>3 DEF IssuePassport, Inv, TypeOK
    <3>2. spent' \subseteq 1 .. issued'
      BY <1>0, <2>3 DEF IssuePassport, Inv
    <3>3. QED
      BY <1>0, <2>3, <3>1, <3>2 DEF IssuePassport, Inv
  <2>4. ASSUME NEW t \in Tasks, NEW row \in Rows, EditRow(t, row)
        PROVE  DistinctPassports'
    BY <2>4 DEF EditRow, Inv
  <2>5. QED
    BY <1>3, <2>1, <2>2, <2>3, <2>4 DEF Environment
<1>4. CASE UNCHANGED vars
  BY <1>4 DEF vars, Inv
<1>5. QED
  BY <1>1, <1>2, <1>3, <1>4 DEF Next
\* No step revives the passport of an earlier completion, except by cutting a
\* reopening call between tasks.md and the passport.
LEMMA DeadPreserved == Inv /\ [Next]_vars => Dead'
<1> SUFFICES ASSUME Inv, [Next]_vars
             PROVE  Dead'
  OBVIOUS
<1> USE DEF Dead, files, history, SpentCurrent, IsCurrent
<1>1. ASSUME NEW o \in Operations, NEW t \in Tasks, NEW to \in Targets,
             Accept(o, t, to) \/ Reject(o, t, to)
      PROVE  Dead'
  <2>1. /\ call'.task = t /\ call'.from = tasks[t] /\ call'.to = to
        /\ call'.seen = Seen(t, to)
        /\ step = "idle" /\ step' \in {"begin", "release"}
        /\ UNCHANGED <<tasks, passports, spent, torn>>
    BY <1>1 DEF Accept, Reject, Call
  <2>2. tasks[t] = "Done" /\ to = "InProgress" =>
            Seen(t, to) = passports[t] \/ ~SpentCurrent(t)
    BY DEF Seen
  <2>3. QED
    BY <2>1, <2>2 DEF Inv
<1>2. CASE Proceed
  <2>1. ASSUME NEW outcome \in Outcomes,
               Begin(outcome) \/ Commit(outcome) \/ Abort(outcome)
        PROVE  Dead'
    BY <2>1 DEF Begin, Commit, Abort, Inv
  <2>2. ASSUME NEW outcome \in Outcomes, WriteTasks(outcome)
        PROVE  Dead'
    <3>1. /\ call.task \in Tasks /\ step = "write"
          /\ tasks[call.task] = call.from /\ CanTransition(call.from, call.to)
          /\ UNCHANGED <<passports, call>>
      BY <2>2 DEF WriteTasks, Inv, TypeOK, Calls, Validated
    <3>2. tasks' = [tasks EXCEPT
              ![call.task] = IF outcome = "lost" THEN tasks[call.task]
                                             ELSE call.to]
      BY <2>2 DEF WriteTasks, SetStatus, Written
    <3>3. ASSUME NEW t \in Tasks, t # call.task
          PROVE  tasks'[t] = tasks[t] /\ SpentCurrent(t)' = SpentCurrent(t)
      <4>1. tasks'[t] = tasks[t]
        BY <3>2, <3>3 DEF Inv, TypeOK
      <4>2. spent' = spent \/ (spent' = spent \cup {call.seen.id}
                               /\ call.seen # NoPassport)
        BY <2>2 DEF WriteTasks, Inv, Validated
      <4>3. passports[t] # NoPassport /\ call.seen # NoPassport
                => passports[t].id # call.seen.id
        BY <3>1, <3>3 DEF Inv, DistinctPassports
      <4>4. QED
        BY <3>1, <4>1, <4>2, <4>3
    <3>4. tasks'[call.task] = "Done" \/ spent' = spent
      BY <2>2, <3>1, <3>2 DEF WriteTasks, Inv, TypeOK
    <3>5. CASE call.from = "Done" /\ call.to = "InProgress"
      <4>1. /\ spent' = spent
            /\ passports[call.task] = call.seen \/ ~SpentCurrent(call.task)
        BY <2>2, <3>1, <3>5 DEF WriteTasks, Inv
      <4>2. ~SpentCurrent(call.task) \/ call.seen # NoPassport
        BY <4>1
      <4>3. call.seen # NoPassport => Reopening
        BY <3>5 DEF Reopening
      <4>4. outcome = "lost" \/ call.task \in torn' \/ step' = "supersede"
              \/ ~SpentCurrent(call.task)
        <5>1. CASE call.seen # NoPassport
          BY <2>2, <4>3, <5>1 DEF WriteTasks, Failed, Outcomes
        <5>2. QED
          BY <4>2, <5>1
      <4>5. torn \subseteq torn'
        BY <2>2 DEF WriteTasks
      <4>6. outcome = "lost" => tasks'[call.task] = "Done"
        BY <3>1, <3>2, <3>5 DEF Inv, TypeOK
      <4>7. QED
        BY <3>1, <3>3, <3>5, <4>1, <4>4, <4>5, <4>6 DEF Inv
    <3>6. CASE ~(call.from = "Done" /\ call.to = "InProgress")
      <4>1. torn' = torn
        BY <2>2, <3>6 DEF WriteTasks, Reopening
      <4>2. call.from = "Done" => call.to = "Done"
        BY <3>1, <3>6 DEF CanTransition, Moves
      <4>3. \/ tasks'[call.task] = "Done"
            \/ tasks[call.task] # "Done" /\ spent' = spent
        <5>1. CASE call.from = "Done"
          <6>1. tasks'[call.task] \in {call.from, call.to}
            BY <3>1, <3>2 DEF Inv, TypeOK
          <6>2. QED
            BY <4>2, <5>1, <6>1
        <5>2. CASE call.from # "Done"
          BY <3>1, <3>4, <5>2
        <5>3. QED
          BY <5>1, <5>2
      <4>4. QED
        BY <3>1, <3>3, <3>6, <4>1, <4>3 DEF Inv
    <3>7. QED
      BY <3>5, <3>6
  <2>3. ASSUME NEW outcome \in Outcomes, Supersede(outcome)
        PROVE  Dead'
    <3>1. call.task \in Tasks /\ Reopening
      BY <2>3 DEF Supersede, Inv, TypeOK, Calls, Underway
    <3>2. \A t \in Tasks : passports'[t] = IF t = call.task /\ outcome # "lost"
                                           THEN Superseded(call.seen)
                                           ELSE passports[t]
      BY <2>3 DEF Supersede, Written, Inv, TypeOK
    <3>3. Superseded(call.seen).status # "current"
      BY DEF Superseded
    <3>4. /\ UNCHANGED <<tasks, spent, torn, call>>
          /\ step = "supersede" /\ step' \in {"restore", "commit"}
          /\ outcome = "lost" => step' = "restore"
      BY <2>3 DEF Supersede, Failed
    <3>5. QED
      BY <3>1, <3>2, <3>3, <3>4 DEF Inv
  <2>4. ASSUME NEW outcome \in Outcomes, Restore(outcome)
        PROVE  Dead'
    <3>1. call.task \in Tasks /\ call.from = "Done" /\ call.to = "InProgress"
      BY <2>4 DEF Restore, Inv, TypeOK, Calls, Underway, Reopening
    <3>2. \A t \in Tasks : tasks'[t] = IF t = call.task /\ outcome # "lost"
                                       THEN "Done" ELSE tasks[t]
      BY <2>4, <3>1 DEF Restore, SetStatus, Written, Inv, TypeOK
    <3>3. /\ UNCHANGED <<passports, spent>> /\ torn \subseteq torn'
          /\ step = "restore" /\ step' = "abort"
          /\ outcome = "lost" /\ passports[call.task] = call.seen
                 => call.task \in torn'
      BY <2>4 DEF Restore
    <3>4. QED
      BY <3>1, <3>2, <3>3 DEF Inv
  <2>5. CASE BeginRefused \/ AbortRefused \/ Release \/ ReleaseFails
    BY <2>5 DEF BeginRefused, AbortRefused, Release, ReleaseFails, End, Inv
  <2>6. QED
    BY <1>2, <2>1, <2>2, <2>3, <2>4, <2>5 DEF Proceed, Writes
<1>3. CASE Environment
  <2>1. CASE Crash
    BY <2>1 DEF Crash, End, HalfReopened, Inv, Underway, Reopening
  <2>2. ASSUME NEW t \in Tasks, NEW row \in Rows, IssuePassport(t, row)
        PROVE  Dead'
    <3>1. \A u \in Tasks : u # t => passports'[u] = passports[u]
      BY <2>2 DEF IssuePassport, Inv, TypeOK
    <3>2. passports'[t].id \notin spent
      BY <2>2, BoundsAssumption
         DEF IssuePassport, Inv, TypeOK, DistinctPassports
    <3>3. QED
      BY <2>2, <3>1, <3>2 DEF IssuePassport, Inv
  <2>3. CASE ReconcileLock
    BY <2>3 DEF ReconcileLock, Inv
  <2>4. ASSUME NEW o \in Operations, AbortOperation(o)
        PROVE  Dead'
    BY <2>4 DEF AbortOperation, Inv
  <2>5. ASSUME NEW t \in Tasks, NEW row \in Rows, EditRow(t, row)
        PROVE  Dead'
    BY <2>5 DEF EditRow, Inv
  <2>6. QED
    BY <1>3, <2>1, <2>2, <2>3, <2>4, <2>5 DEF Environment
<1>4. CASE UNCHANGED vars
  BY <1>4 DEF vars, Inv
<1>5. QED
  BY <1>1, <1>2, <1>3, <1>4 DEF Next
\* At first no call is in flight and no passport exists.
LEMMA InvInitial == Init => Inv
<1> SUFFICES ASSUME Init
             PROVE  Inv
  OBVIOUS
<1>1. TypeOK
  BY TypeInitial
<1>2. Validated /\ Underway
  BY DEF Init, Validated, Underway
<1>3. DistinctPassports /\ Dead
  BY DEF Init, DistinctPassports, Dead, SpentCurrent, IsCurrent
<1>4. QED
  BY <1>1, <1>2, <1>3 DEF Inv

\* The inductive invariant holds in every reachable state.
THEOREM InvCorrect == Spec => []Inv
<1>1. Inv /\ [Next]_vars => Inv'
  BY TypePreserved, ValidatedPreserved, UnderwayPreserved, DistinctPreserved,
     DeadPreserved DEF Inv
<1>2. QED
  BY <1>1, InvInitial, PTL DEF Spec

\* Every file keeps its format, whichever writes fail.
THEOREM TransitionTypeCorrect == Spec => []TypeOK
<1>1. Inv => TypeOK
  BY DEF Inv
<1>2. QED
  BY <1>1, InvCorrect, PTL

\* Outside a cut reopening, a task that is not Done never shows a current
\* passport that has taken it to Done before.
THEOREM ReopenedPassportDeadCorrect == Spec => []ReopenedPassportDead
<1>1. Inv => ReopenedPassportDead
  BY DEF Inv, Dead, ReopenedPassportDead
<1>2. QED
  BY <1>1, InvCorrect, PTL

\* A completion rests on a passport about the row as it is, not used before.
THEOREM FreshPassportForDoneCorrect == Spec => FreshPassportForDone
<1> DEFINE Fresh(t) ==
      tasks[t] # "Done" /\ tasks'[t] = "Done" /\ step # "restore"
          => /\ t = call.task /\ call.seen # NoPassport
             /\ call.seen.row = rows[t]
             /\ call.seen.id \in spent => t \in torn
<1>1. Inv /\ [Next]_vars => [\A t \in Tasks : Fresh(t)]_vars
  <2> SUFFICES ASSUME Inv, Next, NEW t \in Tasks,
                      tasks[t] # "Done", tasks'[t] = "Done", step # "restore"
               PROVE  Fresh(t)
    OBVIOUS
  <2>1. \E outcome \in Outcomes : WriteTasks(outcome)
    BY DEF Next, Accept, Reject, Call, Proceed, Writes, Begin, Supersede,
           Restore, Commit, Abort, BeginRefused, AbortRefused, Release,
           ReleaseFails, Environment, Crash, ReconcileLock, AbortOperation,
           IssuePassport, EditRow, files
  <2>2. t = call.task /\ call.to = "Done" /\ step = "write"
    BY <2>1 DEF WriteTasks, SetStatus, Written, Inv, TypeOK, Calls
  <2>3. QED
    BY <2>2 DEF Inv, Validated
<1>2. QED
  BY <1>1, InvCorrect, PTL DEF Spec, FreshPassportForDone
-------------------------------------------------------------------------------
\* What can happen to the receipt of o in one step: the call that is begun,
\* committing or aborting stamps its own; abort_operation stamps any.
CallStamps(o) ==
    /\ step # "idle" /\ o = call.op
    /\ \/ /\ step = "begin" /\ Startable(receipt, request)
          /\ receipts'[o] = Stamp(request, "started")
       \/ /\ step = "commit" /\ InProgressFor(receipt, request)
          /\ receipts'[o] = Stamp(request, "committed")
       \/ /\ step = "abort" /\ InProgressFor(receipt, request)
          /\ receipts'[o] = Stamp(request, "aborted")

ApiStamps(o) ==
    /\ step = "idle" /\ receipts[o].status = "started"
    /\ receipts'[o] = Stamp(receipts[o].digest, "aborted")

\* A receipt is rewritten only by the call that holds it started, by a call
\* that may start it, or by an abort of a started one.
LEMMA ReceiptStep ==
    ASSUME Inv, Next, NEW o \in Operations, receipts'[o] # receipts[o]
    PROVE  CallStamps(o) \/ ApiStamps(o)
<1>1. ASSUME NEW outcome \in Outcomes,
             Begin(outcome) \/ Commit(outcome) \/ Abort(outcome)
      PROVE  CallStamps(o)
  <2>1. o = call.op /\ step # "idle"
    BY <1>1 DEF Begin, Commit, Abort, SetReceipt, Inv, TypeOK
  <2>2. QED
    BY <1>1, <2>1 DEF CallStamps, Begin, Commit, Abort, SetReceipt, Written,
                      receipt, Inv, TypeOK
<1>2. ASSUME NEW p \in Operations, AbortOperation(p)
      PROVE  ApiStamps(o)
  BY <1>2 DEF ApiStamps, AbortOperation, Inv, TypeOK
<1>3. \/ \E outcome \in Outcomes :
             Begin(outcome) \/ Commit(outcome) \/ Abort(outcome)
      \/ \E p \in Operations : AbortOperation(p)
  BY DEF Next, Accept, Reject, Call, Proceed, Writes, WriteTasks, Supersede,
         Restore, BeginRefused, AbortRefused, Release, ReleaseFails,
         Environment, Crash, ReconcileLock, IssuePassport, EditRow, files
<1>4. QED
  BY <1>1, <1>2, <1>3

\* A committed operation never runs again: its receipt is final, and a call
\* that repeats it moves no task.
THEOREM CommittedFinalCorrect == Spec => CommittedFinal
<1> DEFINE Final(o) ==
      Committed(o) => /\ receipts'[o] = receipts[o]
                      /\ step # "idle" /\ call.op = o => tasks' = tasks
<1>1. Inv /\ [Next]_vars => [\A o \in Operations : Final(o)]_vars
  <2> SUFFICES ASSUME Inv, Next, NEW o \in Operations, Committed(o)
               PROVE  Final(o)
    OBVIOUS
  <2>1. receipts'[o] = receipts[o]
    <3> SUFFICES ASSUME receipts'[o] # receipts[o]
                 PROVE  FALSE
      OBVIOUS
    <3>1. CallStamps(o) \/ ApiStamps(o)
      BY ReceiptStep
    <3>2. QED
      BY <3>1 DEF CallStamps, ApiStamps, Committed, Startable, InProgressFor,
                  Stamp, receipt
  <2>2. ASSUME step # "idle", call.op = o, tasks' # tasks
        PROVE  FALSE
    <3>1. \E outcome \in Outcomes : WriteTasks(outcome) \/ Restore(outcome)
      BY <2>2 DEF Next, Accept, Reject, Call, Proceed, Writes, Begin,
             Supersede, Commit, Abort, BeginRefused, AbortRefused, Release,
             ReleaseFails, Environment, Crash, ReconcileLock, AbortOperation,
             IssuePassport, EditRow, files
    <3>2. InProgressFor(receipt, request)
      BY <3>1 DEF WriteTasks, Restore, Inv, Underway
    <3>3. QED
      BY <2>2, <3>2 DEF Committed, InProgressFor, Stamp, receipt
  <2>3. QED
    BY <2>1, <2>2
<1>2. QED
  BY <1>1, InvCorrect, PTL DEF Spec, CommittedFinal

\* A receipt is committed only over a finished move: tasks.md shows the target
\* and a reopened task's passport is dead.
THEOREM CommitsWhatIsDoneCorrect == Spec => CommitsWhatIsDone
<1> DEFINE Finished(o) ==
      Committed(o)' /\ ~Committed(o) =>
          LET t == receipts'[o].digest[1]
          IN  /\ tasks[t] = receipts'[o].digest[2]
              /\ t \notin torn /\ tasks[t] # "Done" => ~SpentCurrent(t)
<1>1. Inv /\ [Next]_vars => [\A o \in Operations : Finished(o)]_vars
  <2> SUFFICES ASSUME Inv, Next, NEW o \in Operations,
                      Committed(o)', ~Committed(o)
               PROVE  LET t == receipts'[o].digest[1]
                      IN  /\ tasks[t] = receipts'[o].digest[2]
                          /\ t \notin torn /\ tasks[t] # "Done"
                                 => ~SpentCurrent(t)
    OBVIOUS
  <2>1. step = "commit" /\ receipts'[o] = Stamp(request, "committed")
    <3>1. receipts'[o] # receipts[o]
      BY DEF Committed
    <3>2. CallStamps(o) \/ ApiStamps(o)
      BY <3>1, ReceiptStep
    <3>3. QED
      BY <3>2 DEF CallStamps, ApiStamps, Committed, Stamp
  <2>2. /\ receipts'[o].digest[1] = call.task
        /\ receipts'[o].digest[2] = call.to
    BY <2>1 DEF Stamp, request
  <2>3. call.task \in Tasks /\ tasks[call.task] = call.to
    BY <2>1 DEF Inv, TypeOK, Calls, Underway
  <2>4. QED
    BY <2>1, <2>2, <2>3 DEF Inv, Dead
<1>2. QED
  BY <1>1, InvCorrect, PTL DEF Spec, CommitsWhatIsDone
-------------------------------------------------------------------------------
\* A step that changes the shown status of one task, along the lifecycle, or of
\* none, is allowed by TaskLifecycle.
LEMMA ShownMove ==
    ASSUME NEW t \in Tasks, NEW to \in TaskStatus,
           Shown' = [Shown EXCEPT ![t] = to], CanTransition(Shown[t], to)
    PROVE  [LC!Next]_Shown
BY DEF LC!Next, LC!Move, LC!CanTransition, CanTransition, LC!Moves, Moves,
       LC!TaskStatus, TaskStatus

\* Every step of a call and of its environment moves at most one task, and only
\* where can_transition allows it.
LEMMA StepMoves == Inv /\ [Next]_vars => [LC!Next]_Shown
<1> SUFFICES ASSUME Inv, [Next]_vars
             PROVE  [LC!Next]_Shown
  OBVIOUS
<1> DEFINE Half == {"supersede", "restore"}
<1>1. ASSUME step \notin Half, step' \notin Half, tasks' = tasks
      PROVE  [LC!Next]_Shown
  BY <1>1 DEF Shown
<1>2. ASSUME NEW outcome \in Outcomes, WriteTasks(outcome)
      PROVE  [LC!Next]_Shown
  <2>1. /\ step = "write" /\ call.task \in Tasks /\ call' = call
        /\ call.to \in TaskStatus
        /\ tasks[call.task] = call.from /\ CanTransition(call.from, call.to)
    BY <1>2, TargetsAssumption
       DEF WriteTasks, Inv, TypeOK, Calls, Validated
  <2>2. tasks' = [tasks EXCEPT
            ![call.task] = IF outcome = "lost" THEN tasks[call.task]
                                               ELSE call.to]
    BY <1>2 DEF WriteTasks, SetStatus, Written
  <2>3. Shown = tasks
    BY <2>1 DEF Shown, Inv, TypeOK
  <2>4. CASE step' \in Half
    <3>1. call.from = "Done" /\ step' = "supersede"
      BY <1>2, <2>4 DEF WriteTasks, Reopening
    <3>2. Shown' = Shown
      BY <2>1, <2>2, <2>3, <3>1 DEF Shown, Inv, TypeOK
    <3>3. QED
      BY <3>2
  <2>5. CASE step' \notin Half
    <3>1. Shown' = tasks'
      BY <2>1, <2>2, <2>5 DEF Shown, Inv, TypeOK
    <3>2. CASE outcome = "lost"
      BY <2>2, <2>3, <3>1, <3>2 DEF Inv, TypeOK
    <3>3. CASE outcome # "lost"
      BY <2>1, <2>2, <2>3, <3>1, <3>3, ShownMove
    <3>4. QED
      BY <3>2, <3>3
  <2>6. QED
    BY <2>4, <2>5
<1>3. ASSUME step \in Half
      PROVE  /\ call.task \in Tasks /\ tasks[call.task] = "InProgress"
             /\ Shown = [tasks EXCEPT ![call.task] = "Done"]
             /\ call.from = "Done"
  BY <1>3 DEF Inv, TypeOK, Calls, Underway, Reopening, Shown
\* The call leaves the window with tasks.md as it is: the task moves.
<1>4. ASSUME step \in Half, step' \notin Half, tasks' = tasks
      PROVE  [LC!Next]_Shown
  <2>1. Shown' = [Shown EXCEPT ![call.task] = "InProgress"]
    BY <1>3, <1>4 DEF Shown, Inv, TypeOK
  <2>2. CanTransition(Shown[call.task], "InProgress")
    BY <1>3, <1>4 DEF CanTransition, Moves, Inv, TypeOK
  <2>3. QED
    BY <1>3, <1>4, <2>1, <2>2, ShownMove DEF TaskStatus
<1>5. ASSUME NEW outcome \in Outcomes, Supersede(outcome)
      PROVE  [LC!Next]_Shown
  <2>1. CASE step' = "restore"
    <3>1. Shown' = Shown
      BY <1>5, <2>1 DEF Supersede, Shown
    <3>2. QED
      BY <3>1
  <2>2. CASE step' = "commit"
    BY <1>4, <1>5, <2>2 DEF Supersede
  <2>3. QED
    BY <1>5, <2>1, <2>2 DEF Supersede
<1>6. ASSUME NEW outcome \in Outcomes, Restore(outcome)
      PROVE  [LC!Next]_Shown
  <2>1. CASE outcome = "lost"
    <3>1. tasks' = tasks
      BY <1>6, <2>1 DEF Restore, SetStatus, Written, Inv, TypeOK
    <3>2. QED
      BY <1>4, <1>6, <3>1 DEF Restore
  <2>2. CASE outcome # "lost"
    <3>1. Shown' = Shown
      BY <1>3, <1>6, <2>2 DEF Restore, SetStatus, Written, Shown, Inv, TypeOK
    <3>2. QED
      BY <3>1
  <2>3. QED
    BY <2>1, <2>2
<1>7. CASE Crash
  BY <1>1, <1>4, <1>7 DEF Crash, End, files
<1>8. ASSUME NEW t \in Tasks, NEW row \in Rows, IssuePassport(t, row)
      PROVE  [LC!Next]_Shown
  <2>1. Shown' = Shown
    BY <1>8 DEF IssuePassport, Shown
  <2>2. QED
    BY <2>1
<1>9. CASE UNCHANGED vars
  <2>1. Shown' = Shown
    BY <1>9 DEF vars, Shown
  <2>2. QED
    BY <2>1
<1>10. ASSUME NEW o \in Operations, NEW t \in Tasks, NEW to \in Targets,
              Accept(o, t, to) \/ Reject(o, t, to)
       PROVE  [LC!Next]_Shown
  BY <1>1, <1>10 DEF Accept, Reject, Call, files
<1>11. ASSUME NEW outcome \in Outcomes,
              Begin(outcome) \/ Commit(outcome) \/ Abort(outcome)
       PROVE  [LC!Next]_Shown
  BY <1>1, <1>11 DEF Begin, Commit, Abort
<1>12. CASE BeginRefused \/ AbortRefused \/ Release \/ ReleaseFails
  BY <1>1, <1>12 DEF BeginRefused, AbortRefused, Release, ReleaseFails, End,
                     files
<1>13. CASE Proceed
  BY <1>2, <1>5, <1>6, <1>11, <1>12, <1>13 DEF Proceed, Writes
<1>14. CASE Environment
  <2>1. CASE ReconcileLock
    <3>1. Shown' = Shown
      BY <2>1 DEF ReconcileLock, files, Shown
    <3>2. QED
      BY <3>1
  <2>2. ASSUME NEW o \in Operations, AbortOperation(o)
        PROVE  [LC!Next]_Shown
    BY <1>1, <2>2 DEF AbortOperation
  <2>3. ASSUME NEW t \in Tasks, NEW row \in Rows, EditRow(t, row)
        PROVE  [LC!Next]_Shown
    BY <1>1, <2>3 DEF EditRow
  <2>4. QED
    BY <1>7, <1>8, <1>14, <2>1, <2>2, <2>3 DEF Environment
<1>15. QED
  BY <1>9, <1>10, <1>13, <1>14 DEF Next

\* transition_task implements the lifecycle: a reader who counts a task being
\* reopened as Done sees legal moves only, whatever fails.
THEOREM TransitionImplementsLifecycle == Spec => ImplementsLifecycle
<1>1. Init => LC!Init
  BY DEF Init, LC!Init, LC!TaskStatus, TaskStatus, Shown
<1>2. QED
  BY <1>1, StepMoves, InvCorrect, PTL DEF Spec, ImplementsLifecycle, LC!Spec
===============================================================================
