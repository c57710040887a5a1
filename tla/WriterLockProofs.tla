--------------------------- MODULE WriterLockProofs ---------------------------
(***************************************************************************)
(* Proofs about WriterLock.tla for any set of writers and any bound on the *)
(* failing system calls.  The argument is one fact, KeptLock: a writer     *)
(* that counts on the lock file being its own, and was not displaced,      *)
(* created the file that is there.  Nobody can then create another.        *)
(***************************************************************************)
EXTENDS WriterLock, TLAPS

\* Before anybody has tried to lock the workspace, the state is well typed.
LEMMA Initial == Init => TypeOK
BY FaultsAssumption DEF Init, TypeOK, Steps

\* TypeOK is inductive: every file and program counter stays in its type.
LEMMA TypePreserved == TypeOK /\ [Next]_vars => TypeOK'
<1> SUFFICES ASSUME TypeOK, [Next]_vars
             PROVE  TypeOK'
  OBVIOUS
<1> USE FaultsAssumption DEF TypeOK, Steps, Goto, Fault, UnlinkedBy, history
<1>1. ASSUME NEW w \in Writers, Scan(w)
      PROVE  TypeOK'
  BY <1>1 DEF Scan
<1>2. ASSUME NEW w \in Writers, Proceed(w)
      PROVE  TypeOK'
  <2>1. CASE Create(w) \/ Contended(w) \/ WriteToken(w)
    BY <2>1 DEF Create, Contended, WriteToken
  <2>2. CASE Detach(w)
    BY <2>2 DEF Detach, RenameToTombstone, Tombstone, LockExists
  <2>3. CASE DetachNotFound(w)
    BY <2>3 DEF DetachNotFound
  <2>4. CASE Finish(w)
    BY <2>4 DEF Finish, OwnDetached
  <2>5. CASE DropDetach(w)
    BY <2>5 DEF DropDetach, RenameToTombstone, Tombstone, LockExists
  <2>6. CASE DropNothing(w)
    BY <2>6 DEF DropNothing
  <2>7. CASE DropFinish(w)
    BY <2>7 DEF DropFinish, OwnDetached
  <2>8. QED
    BY <1>2, <2>1, <2>2, <2>3, <2>4, <2>5, <2>6, <2>7 DEF Proceed
<1>3. ASSUME NEW w \in Writers, Fail(w)
      PROVE  TypeOK'
  <2>1. CASE WriteTokenFails(w)
    BY <2>1 DEF WriteTokenFails
  <2>2. CASE DetachFails(w) \/ FinishFails(w)
    BY <2>2 DEF DetachFails, FinishFails
  <2>3. CASE DropDetachFails(w) \/ DropFinishFails(w)
    BY <2>3 DEF DropDetachFails, DropFinishFails
  <2>4. QED
    BY <1>3, <2>1, <2>2, <2>3 DEF Fail
<1>4. ASSUME NEW w \in Writers, Crash(w)
      PROVE  TypeOK'
  BY <1>4 DEF Crash
<1>5. CASE ReconcileLock
  BY <1>5 DEF ReconcileLock
<1>6. CASE ReconcileTombstone
  BY <1>6 DEF ReconcileTombstone
<1>7. CASE UNCHANGED vars
  BY <1>7 DEF vars
<1>8. QED
  BY <1>1, <1>2, <1>3, <1>4, <1>5, <1>6, <1>7 DEF Next

\* Every reachable state of the lock protocol is well typed.
THEOREM TypeCorrect == Spec => []TypeOK
BY Initial, TypePreserved, PTL DEF Spec

-------------------------------------------------------------------------------
\* A writer that counts on its lock file, and was not displaced, has it.
KeptLock == \A w \in Writers : Owning(w) /\ w \notin displaced => lockFile = w

\* While no release has failed on its tombstone, nobody is displaced, the file
\* a dropping writer is going to detach is its own, and a tombstone about to
\* be compared holds the comparing writer's token.
Orderly ==
    /\ displaced = {}
    /\ \A w \in Writers : pc[w] = "dropping" => lockFile = w
    /\ \A w \in Writers : pc[w] = "detached" => OwnDetached(w, "release") # {}

LockInv == /\ KeptLock
           /\ broken = {} => Orderly
           /\ ~TombstoneFaults => broken = {}

\* Nothing is held, detached or displaced at first.
LEMMA LockInvInitial == Init => LockInv
BY NoWriterAssumption, FaultsAssumption
   DEF Init, LockInv, KeptLock, Orderly, Owning

\* Every step keeps a writer's lock file its own unless it displaces the writer.
LEMMA KeptLockPreserved == TypeOK /\ KeptLock /\ [Next]_vars => KeptLock'
<1> SUFFICES ASSUME TypeOK, KeptLock, [Next]_vars,
                    NEW v \in Writers, Owning(v)', v \notin displaced'
             PROVE  lockFile' = v
  BY DEF KeptLock
<1> USE DEF KeptLock, TypeOK, Owning, Goto, history
<1>1. ASSUME NEW w \in Writers, Scan(w)
      PROVE  lockFile' = v
  BY <1>1 DEF Scan
<1>2. ASSUME NEW w \in Writers, Proceed(w)
      PROVE  lockFile' = v
  <2>1. CASE Create(w)
    BY <2>1, NoWriterAssumption DEF Create, LockExists
  <2>2. CASE Contended(w) \/ WriteToken(w)
    BY <2>2 DEF Contended, WriteToken
  <2>3. CASE Detach(w)
    BY <2>3 DEF Detach, RenameToTombstone, UnlinkedBy
  <2>4. CASE DetachNotFound(w) \/ Finish(w)
    BY <2>4 DEF DetachNotFound, Finish
  <2>5. CASE DropDetach(w)
    BY <2>5 DEF DropDetach, RenameToTombstone, UnlinkedBy
  <2>6. CASE DropNothing(w) \/ DropFinish(w)
    BY <2>6 DEF DropNothing, DropFinish
  <2>7. QED
    BY <1>2, <2>1, <2>2, <2>3, <2>4, <2>5, <2>6 DEF Proceed
<1>3. ASSUME NEW w \in Writers, Fail(w)
      PROVE  lockFile' = v
  <2>1. CASE WriteTokenFails(w)
    BY <2>1 DEF WriteTokenFails, UnlinkedBy
  <2>2. CASE DetachFails(w) \/ FinishFails(w)
    BY <2>2 DEF DetachFails, FinishFails
  <2>3. CASE DropDetachFails(w) \/ DropFinishFails(w)
    BY <2>3 DEF DropDetachFails, DropFinishFails
  <2>4. QED
    BY <1>3, <2>1, <2>2, <2>3 DEF Fail
<1>4. ASSUME NEW w \in Writers, Crash(w)
      PROVE  lockFile' = v
  BY <1>4 DEF Crash
<1>5. CASE ReconcileLock
  BY <1>5 DEF ReconcileLock, InUse
<1>6. CASE ReconcileTombstone
  BY <1>6 DEF ReconcileTombstone
<1>7. CASE UNCHANGED vars
  BY <1>7 DEF vars
<1>8. QED
  BY <1>1, <1>2, <1>3, <1>4, <1>5, <1>6, <1>7 DEF Next

\* As long as no release breaks, the lock is orderly: no step of a writer
\* reaches the lock file or the tombstone of another.
LEMMA OrderlyPreserved ==
    TypeOK /\ KeptLock /\ Orderly /\ [Next]_vars /\ broken' = {} => Orderly'
<1> SUFFICES ASSUME TypeOK, KeptLock, Orderly, [Next]_vars, broken' = {}
             PROVE  Orderly'
  OBVIOUS
<1> USE DEF KeptLock, Orderly, TypeOK, Owning, OwnDetached, Goto, history
<1>1. ASSUME NEW w \in Writers, Scan(w)
      PROVE  Orderly'
  BY <1>1 DEF Scan
<1>2. ASSUME NEW w \in Writers, Proceed(w)
      PROVE  Orderly'
  <2>1. CASE Create(w)
    BY <2>1, NoWriterAssumption DEF Create, LockExists
  <2>2. CASE Contended(w) \/ WriteToken(w)
    BY <2>2 DEF Contended, WriteToken
  <2>3. CASE Detach(w)
    <3>1. lockFile = w
      BY <2>3 DEF Detach
    <3>2. displaced' = {}
      BY <2>3, <3>1 DEF Detach, UnlinkedBy
    <3>3. OwnDetached(w, "release")' # {}
      <4>1. [by |-> w, step |-> "release", creator |-> w] \in tombstones'
        BY <2>3, <3>1 DEF Detach, RenameToTombstone
      <4>2. QED
        BY <4>1
    <3>4. QED
      BY <2>3, <3>1, <3>2, <3>3 DEF Detach, RenameToTombstone
  <2>4. CASE DetachNotFound(w)
    BY <2>4, NoWriterAssumption DEF DetachNotFound, LockExists
  <2>5. CASE Finish(w)
    BY <2>5 DEF Finish
  <2>6. CASE DropDetach(w)
    <3>1. lockFile = w
      BY <2>6 DEF DropDetach
    <3>2. displaced' = {}
      BY <2>6, <3>1 DEF DropDetach, UnlinkedBy
    <3>3. QED
      BY <2>6, <3>1, <3>2 DEF DropDetach, RenameToTombstone
  <2>7. CASE DropNothing(w) \/ DropFinish(w)
    BY <2>7 DEF DropNothing, DropFinish
  <2>8. QED
    BY <1>2, <2>1, <2>2, <2>3, <2>4, <2>5, <2>6, <2>7 DEF Proceed
<1>3. ASSUME NEW w \in Writers, Fail(w)
      PROVE  Orderly'
  <2>1. CASE WriteTokenFails(w)
    <3>1. lockFile = w
      BY <2>1 DEF WriteTokenFails
    <3>2. displaced' = {}
      BY <2>1, <3>1 DEF WriteTokenFails, UnlinkedBy
    <3>3. QED
      BY <2>1, <3>1, <3>2 DEF WriteTokenFails
  <2>2. CASE DetachFails(w)
    BY <2>2 DEF DetachFails
  <2>3. CASE FinishFails(w)
    BY <2>3 DEF FinishFails
  <2>4. CASE DropDetachFails(w) \/ DropFinishFails(w)
    BY <2>4 DEF DropDetachFails, DropFinishFails
  <2>5. QED
    BY <1>3, <2>1, <2>2, <2>3, <2>4 DEF Fail
<1>4. ASSUME NEW w \in Writers, Crash(w)
      PROVE  Orderly'
  BY <1>4 DEF Crash
<1>5. CASE ReconcileLock
  BY <1>5 DEF ReconcileLock, InUse
<1>6. CASE ReconcileTombstone
  BY <1>6 DEF ReconcileTombstone, InUse, Tombstone
<1>7. CASE UNCHANGED vars
  BY <1>7 DEF vars
<1>8. QED
  BY <1>1, <1>2, <1>3, <1>4, <1>5, <1>6, <1>7 DEF Next

\* A release can break only if the run lets tombstones fail.
LEMMA BrokenPreserved ==
    (~TombstoneFaults => broken = {}) /\ [Next]_vars
        => (~TombstoneFaults => broken' = {})
BY DEF Next, vars, history, Scan, Proceed, Fail, Crash, ReconcileLock,
       ReconcileTombstone, Create, Contended, WriteToken, Detach,
       DetachNotFound, Finish, DropDetach, DropNothing, DropFinish,
       WriteTokenFails, DetachFails, FinishFails, DropDetachFails,
       DropFinishFails

\* broken only grows, so Orderly is needed only up to the first broken release.
LEMMA BrokenGrows == [Next]_vars => broken \subseteq broken'
BY DEF Next, vars, history, Scan, Proceed, Fail, Crash, ReconcileLock,
       ReconcileTombstone, Create, Contended, WriteToken, Detach,
       DetachNotFound, Finish, DropDetach, DropNothing, DropFinish,
       WriteTokenFails, DetachFails, FinishFails, DropDetachFails,
       DropFinishFails

\* The inductive invariant holds in every reachable state.
THEOREM LockInvCorrect == Spec => []LockInv
<1>1. TypeOK /\ LockInv /\ [Next]_vars => LockInv'
  BY KeptLockPreserved, OrderlyPreserved, BrokenPreserved, BrokenGrows
     DEF LockInv
<1>2. QED
  BY <1>1, LockInvInitial, TypeCorrect, PTL DEF Spec

\* Two writers are inside a write operation together only if one of them had
\* its lock file unlinked under it, for any number of writers and failures.
THEOREM MutexUnlessDisplacedCorrect == Spec => []MutexUnlessDisplaced
<1>1. LockInv => MutexUnlessDisplaced
  BY DEF LockInv, KeptLock, MutexUnlessDisplaced, Holding, Owning
<1>2. QED
  BY <1>1, LockInvCorrect, PTL

\* A live writer loses its lock file only after a release that could not read
\* or remove its own tombstone.
THEOREM DisplacedCorrect == Spec => []DisplacedOnlyAfterBrokenRelease
<1>1. LockInv => DisplacedOnlyAfterBrokenRelease
  BY DEF LockInv, Orderly, DisplacedOnlyAfterBrokenRelease
<1>2. QED
  BY <1>1, LockInvCorrect, PTL

\* If releases can read and remove their tombstones, at most one process is
\* inside a write operation, in spite of crashes and of every other failure.
THEOREM MutualExclusionCorrect == ~TombstoneFaults /\ Spec => []MutualExclusion
<1>1. ~TombstoneFaults /\ LockInv => MutualExclusion
  BY DEF LockInv, KeptLock, Orderly, MutualExclusion, Holding, Owning
<1>2. ASSUME ~TombstoneFaults
      PROVE  Spec => []MutualExclusion
  <2>1. LockInv => MutualExclusion
    BY <1>1, <1>2
  <2>2. QED
    BY <2>1, LockInvCorrect, PTL
<1>3. QED
  BY <1>2

-------------------------------------------------------------------------------
\* A step of the file protocol is a step of the single writer promise, for the
\* writers that keep their lock file, or it changes nothing there.
LEMMA StepImplements ==
    TypeOK /\ KeptLock /\ [Next]_vars => [SW!Next]_(Holding \ displaced)
<1> SUFFICES ASSUME TypeOK, KeptLock, [Next]_vars
             PROVE  [SW!Next]_(Holding \ displaced)
  OBVIOUS
<1> DEFINE Kept == Holding \ displaced
<1> USE DEF KeptLock, TypeOK, Holding, Owning, Goto, history
\* At most one writer keeps its lock file.
<1>0. \A v, w \in Kept : v = w
  OBVIOUS
<1>1. ASSUME NEW w \in Writers, Scan(w)
      PROVE  Kept' = Kept
  BY <1>1 DEF Scan
<1>2. ASSUME NEW w \in Writers, Proceed(w)
      PROVE  [SW!Next]_Kept
  <2>1. CASE Create(w) \/ Contended(w)
    <3>1. Kept' = Kept
      BY <2>1 DEF Create, Contended
    <3>2. QED
      BY <3>1
  <2>2. CASE WriteToken(w)
    <3>1. CASE w \in displaced
      <4>1. Kept' = Kept
        BY <2>2, <3>1 DEF WriteToken
      <4>2. QED
        BY <4>1
    <3>2. CASE w \notin displaced
      <4>1. lockFile = w
        BY <2>2, <3>2 DEF WriteToken
      <4>2. Kept = {} /\ Kept' = {w}
        BY <2>2, <3>2, <4>1 DEF WriteToken
      <4>3. QED
        BY <4>2 DEF SW!Next, SW!Enter
    <3>3. QED
      BY <3>1, <3>2
  <2>3. CASE Detach(w) \/ DropDetach(w)
    <3>1. Kept' \subseteq Kept
      BY <2>3 DEF Detach, DropDetach, UnlinkedBy
    <3>2. QED
      BY <1>0, <3>1 DEF SW!Next, SW!Leave
  <2>4. CASE DetachNotFound(w)
    <3>1. Kept' \subseteq Kept
      BY <2>4 DEF DetachNotFound
    <3>2. QED
      BY <1>0, <3>1 DEF SW!Next, SW!Leave
  <2>5. CASE Finish(w) \/ DropNothing(w) \/ DropFinish(w)
    <3>1. Kept' = Kept
      BY <2>5 DEF Finish, DropNothing, DropFinish
    <3>2. QED
      BY <3>1
  <2>6. QED
    BY <1>2, <2>1, <2>2, <2>3, <2>4, <2>5 DEF Proceed
<1>3. ASSUME NEW w \in Writers, Fail(w) \/ Crash(w)
      PROVE  [SW!Next]_Kept
  <2>1. Kept' \subseteq Kept
    BY <1>3 DEF Fail, Crash, WriteTokenFails, DetachFails, FinishFails,
                DropDetachFails, DropFinishFails, UnlinkedBy
  <2>2. QED
    BY <1>0, <2>1 DEF SW!Next, SW!Leave
<1>4. CASE ReconcileLock \/ ReconcileTombstone \/ UNCHANGED vars
  <2>1. Kept' = Kept
    BY <1>4 DEF ReconcileLock, ReconcileTombstone, vars
  <2>2. QED
    BY <2>1
<1>5. QED
  BY <1>1, <1>2, <1>3, <1>4 DEF Next

\* The writer lock implements the abstract single writer, where a writer that
\* loses its lock file counts as having left.
THEOREM LockImplementsSingleWriter == Spec => ImplementsSingleWriter
<1>1. Init => SW!Init
  BY DEF Init, SW!Init, Holding
<1>2. LockInv => KeptLock
  BY DEF LockInv
<1>3. QED
  BY <1>1, <1>2, StepImplements, TypeCorrect, LockInvCorrect, PTL
     DEF Spec, ImplementsSingleWriter, SW!Spec
===============================================================================
