----------------------------- MODULE ClaimsProofs -----------------------------
(***************************************************************************)
(* Proofs about Claims.tla for any number of operations and owners, any    *)
(* fences, deadlines and failing writes.                                   *)
(*                                                                         *)
(* A lease in force that its owner knows of is the one on file (Known), so *)
(* a call that may touch the file begins only when nobody counts on a      *)
(* lease (Working).  Reading says what each step of a call may rely on.    *)
(***************************************************************************)
EXTENDS Claims, TLAPS

Working == {"begin", "write", "remove", "commit", "restore", "abort"}

Known == /\ \A l \in granted : /\ now < l.expires
                               /\ claim # NoClaim
                               /\ LeaseOf(claim) = l
         /\ step \in Working => granted = {}

Answered == step = "release" /\ answer = "ok"

Reading ==
    /\ step = "write" => Claiming
    /\ step \in {"remove", "restore"} => ~Claiming
    /\ step \in {"begin", "write"} /\ Claiming =>
           \/ claim = NoClaim
           \/ Expired(claim) /\ request.fence > claim.fence
    /\ step \in {"begin", "remove"} /\ ~Claiming => claim # NoClaim
    /\ (step \in {"commit", "rebegin", "recommit"} \/ Answered) /\ Claiming
           => claim = Record(call.op, request)
    /\ (step \in {"commit", "restore", "rebegin", "recommit"} \/ Answered)
       /\ ~Claiming => claim = NoClaim
    /\ step \in {"commit", "restore"} /\ ~Claiming => call.removed # NoClaim
    /\ answer = "ok" => step = "release"

Inv == TypeOK /\ Known /\ Reading

\* At first nothing is claimed, asked or recorded.
LEMMA InvInitial == Init => Inv
BY BoundsAssumption
   DEF Init, Inv, TypeOK, Known, Reading, Working, Answered, Steps, Times

\* The record a claim writes is well formed.
LEMMA RecordTyped ==
    ASSUME NEW o \in Operations, NEW r \in Request, r.kind = "claim"
    PROVE  Record(o, r) \in Claim
BY DEF Record, Request, Claim

\* Files, call and answer stay well typed when a call is asked for.
LEMMA AskTyped ==
    ASSUME TypeOK, NEW o \in Operations, NEW r \in Request, Ask(o, r)
    PROVE  TypeOK'
<1>1. ASSUME NEW next \in Steps \ {"idle"},
             NEW result \in {"none", "ok", "replay", "error"},
             Enter(o, r, next, result)
      PROVE  TypeOK'
  <2>1. call' \in Calls
    BY <1>1 DEF Enter, Calls
  <2>2. QED
    BY <1>1, <2>1 DEF Enter, TypeOK, Steps
<1>2. ASSUME Refuse
      PROVE  TypeOK'
  BY <1>2 DEF Refuse, vars, TypeOK
<1>3. CASE RepeatClaim(o, r)
  BY <1>1, <1>3 DEF RepeatClaim, Steps
<1>4. CASE StartClaim(o, r)
  BY <1>1, <1>4 DEF StartClaim, Steps
<1>5. CASE RepeatRelease(o, r)
  BY <1>1, <1>5 DEF RepeatRelease, Steps
<1>6. CASE StartRelease(o, r)
  BY <1>1, <1>6 DEF StartRelease, Steps
<1>7. CASE RefuseClaim(o, r) \/ RefuseRelease(o, r)
  BY <1>2, <1>7 DEF RefuseClaim, RefuseRelease
<1>8. QED
  BY <1>3, <1>4, <1>5, <1>6, <1>7 DEF Ask

\* The writes of a call keep the claim file and the receipts well formed.
LEMMA WritesTyped ==
    ASSUME TypeOK, Reading, NEW outcome \in Outcomes, Writes(outcome)
    PROVE  TypeOK'
<1>0. step # "idle" /\ call \in Calls
  BY DEF Writes, Begin, WriteClaim, RemoveClaim, Commit, RestoreClaim, Abort,
         BeginAgain, CommitAgain, TypeOK
<1>1. ASSUME NEW s \in Statuses, SetReceipt(outcome, s)
      PROVE  receipts' \in [Operations -> Receipts(Request) \cup {NoReceipt}]
  <2>1. Stamp(request, s) \in Receipts(Request)
    BY <1>0 DEF request, Calls, Stamp, Receipts
  <2>2. QED
    BY <1>0, <1>1, <2>1 DEF SetReceipt, receipt, Written, Calls, TypeOK
<1>2. Write(outcome) => faults' \in 0 .. MaxFaults
  BY BoundsAssumption DEF Write, TypeOK
<1>3. ASSUME NEW next \in Steps \ {"idle"}, NEW otherwise \in Steps \ {"idle"},
             Continue(outcome, next, otherwise)
      PROVE  /\ step' \in Steps \ {"idle"}
             /\ answer' \in {"none", "ok", "replay", "error"}
  BY <1>3 DEF Continue, TypeOK
<1> USE <1>0, <1>2 DEF TypeOK
<1>4. CASE Begin(outcome)
  BY <1>1, <1>3, <1>4 DEF Begin, Steps, Statuses
<1>5. CASE WriteClaim(outcome)
  <2>1. Record(call.op, request) \in Claim
    BY <1>5, RecordTyped DEF WriteClaim, Reading, Claiming, request, Calls
  <2>2. claim' \in Claim \cup {NoClaim}
    BY <1>5, <2>1 DEF WriteClaim, Written
  <2>3. QED
    BY <1>3, <1>5, <2>2 DEF WriteClaim, Steps
<1>6. CASE RemoveClaim(outcome)
  <2>1. call' \in Calls
    BY <1>6 DEF RemoveClaim, Calls
  <2>2. QED
    BY <1>3, <1>6, <2>1 DEF RemoveClaim, Written, Steps
<1>7. CASE Commit(outcome)
  BY <1>1, <1>7 DEF Commit, Steps, Statuses
<1>8. CASE RestoreClaim(outcome)
  <2>1. claim' \in Claim \cup {NoClaim}
    BY <1>8 DEF RestoreClaim, Written, Calls
  <2>2. QED
    BY <1>8, <2>1 DEF RestoreClaim, Steps
<1>9. CASE Abort(outcome)
  BY <1>1, <1>9 DEF Abort, Steps, Statuses
<1>10. CASE BeginAgain(outcome)
  BY <1>1, <1>3, <1>10 DEF BeginAgain, Steps, Statuses
<1>11. CASE CommitAgain(outcome)
  BY <1>1, <1>11 DEF CommitAgain, Steps, Statuses
<1>12. QED
  BY <1>4, <1>5, <1>6, <1>7, <1>8, <1>9, <1>10, <1>11 DEF Writes

\* Every step keeps the state well typed.
LEMMA TypePreserved == TypeOK /\ Reading /\ [Next]_vars => TypeOK'
<1> SUFFICES ASSUME TypeOK, Reading, [Next]_vars
             PROVE  TypeOK'
  OBVIOUS
<1>1. ASSUME NEW o \in Operations, NEW r \in Request, Ask(o, r)
      PROVE  TypeOK'
  BY <1>1, AskTyped
<1>2. CASE Proceed
  <2>1. ASSUME NEW outcome \in Outcomes, Writes(outcome)
        PROVE  TypeOK'
    BY <2>1, WritesTyped
  <2>2. CASE BeginRefused \/ AbortRefused
    BY <2>2 DEF BeginRefused, AbortRefused, TypeOK, Steps
  <2>3. CASE Release
    <3>1. Claiming => LeaseOf(request) \in Lease
      BY <2>3 DEF Release, Claiming, TypeOK, Calls, request, Request, LeaseOf,
                  Lease
    <3>2. QED
      BY <2>3, <3>1 DEF Release, End, TypeOK, Steps
  <2>4. CASE ReleaseFails
    <3>1. faults' \in 0 .. MaxFaults
      BY <2>4, BoundsAssumption DEF ReleaseFails, Write, Failed, TypeOK
    <3>2. QED
      BY <2>4, <3>1 DEF ReleaseFails, End, TypeOK, Steps
  <2>5. QED
    BY <1>2, <2>1, <2>2, <2>3, <2>4 DEF Proceed
<1>3. CASE Environment
  <2>1. CASE Tick
    <3>1. now' \in Times
      BY <2>1, BoundsAssumption DEF Tick, TypeOK, Times
    <3>2. QED
      BY <2>1, <3>1 DEF Tick, TypeOK
  <2>2. CASE Crash \/ ReconcileLock
    BY <2>2 DEF Crash, End, ReconcileLock, TypeOK, Steps
  <2>3. ASSUME NEW o \in Operations, AbortOperation(o)
        PROVE  TypeOK'
    <3>1. Stamp(receipts[o].digest, "aborted") \in Receipts(Request)
      BY <2>3 DEF AbortOperation, TypeOK, Stamp, Receipts, Statuses
    <3>2. receipts' \in [Operations -> Receipts(Request) \cup {NoReceipt}]
      BY <2>3, <3>1 DEF AbortOperation, TypeOK
    <3>3. QED
      BY <2>3, <3>2 DEF AbortOperation, TypeOK
  <2>4. QED
    BY <1>3, <2>1, <2>2, <2>3 DEF Environment
<1>4. CASE UNCHANGED vars
  BY <1>4 DEF vars, TypeOK
<1>5. QED
  BY <1>1, <1>2, <1>3, <1>4 DEF Next
-------------------------------------------------------------------------------
\* A call that may touch the claim file starts only when nobody counts on a
\* lease: a claim only over a claim that has lapsed, a release only of the
\* caller's own.
LEMMA AskKnown ==
    ASSUME Inv, NEW o \in Operations, NEW r \in Request, Ask(o, r)
    PROVE  Known'
<1> USE DEF Inv, Known, Working
<1>1. ASSUME NEW next, NEW result, Enter(o, r, next, result)
      PROVE  /\ granted' \subseteq granted /\ UNCHANGED <<claim, now>>
             /\ step' = next
             /\ \A l \in granted' :
                   ~(r.kind = "release" /\ l.owner = r.owner /\ l.fence = r.fence)
  BY <1>1 DEF Enter
<1>2. CASE RepeatClaim(o, r)
  BY <1>1, <1>2 DEF RepeatClaim
<1>3. CASE StartClaim(o, r)
  <2>1. \A l \in granted : claim.expires = l.expires
    BY DEF LeaseOf
  <2>2. granted = {}
    BY <1>3, <2>1 DEF StartClaim, Blocks, Expired, TypeOK, Claim, Lease, Times
  <2>3. QED
    BY <1>1, <1>3, <2>2 DEF StartClaim
<1>4. CASE RepeatRelease(o, r)
  BY <1>1, <1>4 DEF RepeatRelease
<1>5. CASE StartRelease(o, r)
  <2>1. \A l \in granted : l.owner = r.owner /\ l.fence = r.fence
    BY <1>5 DEF StartRelease, Owns, LeaseOf
  <2>2. granted' = {}
    BY <1>1, <1>5, <2>1 DEF StartRelease, IsRelease
  <2>3. QED
    BY <2>2
<1>6. CASE RefuseClaim(o, r) \/ RefuseRelease(o, r)
  BY <1>6 DEF RefuseClaim, RefuseRelease, Refuse, vars
<1>7. QED
  BY <1>2, <1>3, <1>4, <1>5, <1>6 DEF Ask

\* Only the claim that the owner was told of is on file while it is in force.
LEMMA KnownPreserved == Inv /\ [Next]_vars => Known'
<1> SUFFICES ASSUME Inv, [Next]_vars
             PROVE  Known'
  OBVIOUS
<1> USE DEF Inv, Known, Working
<1>1. ASSUME NEW o \in Operations, NEW r \in Request, Ask(o, r)
      PROVE  Known'
  BY <1>1, AskKnown
<1>2. CASE Proceed
  <2>1. ASSUME NEW outcome \in Outcomes,
               \/ Begin(outcome) \/ WriteClaim(outcome) \/ RemoveClaim(outcome)
               \/ Commit(outcome) \/ RestoreClaim(outcome) \/ Abort(outcome)
        PROVE  Known'
    BY <2>1 DEF Begin, WriteClaim, RemoveClaim, Commit, RestoreClaim, Abort
  <2>2. ASSUME NEW outcome \in Outcomes,
               BeginAgain(outcome) \/ CommitAgain(outcome)
        PROVE  Known'
    BY <2>2 DEF BeginAgain, CommitAgain, Continue
  <2>3. CASE BeginRefused \/ AbortRefused \/ ReleaseFails
    BY <2>3 DEF BeginRefused, AbortRefused, ReleaseFails, End
  <2>4. CASE Release
    <3>1. CASE Claiming /\ answer = "ok" /\ ~Expired(request)
      <4>1. claim = Record(call.op, request) /\ claim # NoClaim
        <5>1. call.op \in Operations /\ request \in Request
          BY <2>4 DEF Release, TypeOK, Calls, request
        <5>2. claim = Record(call.op, request)
          BY <2>4, <3>1 DEF Release, Reading, Answered
        <5>3. QED
          BY <3>1, <5>1, <5>2, RecordTyped, NoClaimAssumption DEF Claiming
      <4>2. LeaseOf(claim) = LeaseOf(request)
        BY <4>1 DEF Record, LeaseOf
      <4>3. LeaseOf(request).expires = request.expires
        BY DEF LeaseOf
      <4>4. now < request.expires
        BY <2>4, <3>1 DEF Release, Expired, TypeOK, Calls, Request, request, Times
      <4>5. QED
        BY <2>4, <3>1, <4>1, <4>2, <4>3, <4>4 DEF Release, End
    <3>2. CASE ~(Claiming /\ answer = "ok" /\ ~Expired(request))
      BY <2>4, <3>2 DEF Release, End
    <3>3. QED
      BY <3>1, <3>2
  <2>5. QED
    BY <1>2, <2>1, <2>2, <2>3, <2>4 DEF Proceed, Writes
<1>3. CASE Environment
  BY <1>3 DEF Environment, Tick, Crash, End, ReconcileLock, AbortOperation
<1>4. CASE UNCHANGED vars
  BY <1>4 DEF vars
<1>5. QED
  BY <1>1, <1>2, <1>3, <1>4 DEF Next

\* What a call has read of the claim file stays true under the lock.
LEMMA ReadingPreserved == Inv /\ [Next]_vars => Reading'
<1> SUFFICES ASSUME Inv, [Next]_vars
             PROVE  Reading'
  OBVIOUS
<1> USE DEF Inv, Reading, Claiming, request, Answered
<1>1. ASSUME NEW o \in Operations, NEW r \in Request, Ask(o, r)
      PROVE  Reading'
  <2>1. CASE RepeatClaim(o, r)
    BY <2>1 DEF RepeatClaim, Enter, IsClaim
  <2>2. CASE StartClaim(o, r)
    <3>1. claim = NoClaim \/ (Expired(claim) /\ r.fence > claim.fence)
      <4>1. CASE claim # NoClaim
        <5>1. claim.fence \in Nat /\ r.fence \in Nat
          BY <4>1, BoundsAssumption DEF TypeOK, Claim, Request, Fences
        <5>2. QED
          BY <2>2, <4>1, <5>1 DEF StartClaim, Blocks, Expired
      <4>2. QED
        BY <4>1
    <3>2. /\ step' = "begin" /\ answer' = "none" /\ call'.request = r
          /\ r.kind = "claim" /\ UNCHANGED <<claim, now>>
      BY <2>2 DEF StartClaim, Enter, IsClaim
    <3>3. QED
      BY <3>1, <3>2 DEF Expired
  <2>3. CASE RepeatRelease(o, r)
    BY <2>3 DEF RepeatRelease, Enter, IsRelease
  <2>4. CASE StartRelease(o, r)
    BY <2>4 DEF StartRelease, Enter, IsRelease, Owns
  <2>5. CASE RefuseClaim(o, r) \/ RefuseRelease(o, r)
    BY <2>5 DEF RefuseClaim, RefuseRelease, Refuse, vars, Expired
  <2>6. QED
    BY <1>1, <2>1, <2>2, <2>3, <2>4, <2>5 DEF Ask
<1>2. CASE Proceed
  <2>1. ASSUME NEW outcome \in Outcomes, Begin(outcome)
        PROVE  Reading'
    BY <2>1 DEF Begin, Continue, Failed, Expired
  <2>2. ASSUME NEW outcome \in Outcomes, WriteClaim(outcome)
        PROVE  Reading'
    BY <2>2 DEF WriteClaim, Continue, Failed, Written, Outcomes
  <2>3. ASSUME NEW outcome \in Outcomes, RemoveClaim(outcome)
        PROVE  Reading'
    <3>1. /\ call'.op = call.op /\ call'.request = call.request
          /\ call'.removed = claim
      BY <2>3 DEF RemoveClaim, TypeOK, Calls
    <3>2. QED
      BY <2>3, <3>1 DEF RemoveClaim, Continue, Failed, Written, Outcomes
  <2>4. ASSUME NEW outcome \in Outcomes, Commit(outcome)
        PROVE  Reading'
    BY <2>4 DEF Commit
  <2>5. ASSUME NEW outcome \in Outcomes,
               RestoreClaim(outcome) \/ Abort(outcome)
        PROVE  Reading'
    BY <2>5 DEF RestoreClaim, Abort, TypeOK
  <2>6. ASSUME NEW outcome \in Outcomes,
               BeginAgain(outcome) \/ CommitAgain(outcome)
        PROVE  Reading'
    BY <2>6 DEF BeginAgain, CommitAgain, Continue
  <2>7. CASE BeginRefused \/ AbortRefused \/ Release \/ ReleaseFails
    BY <2>7 DEF BeginRefused, AbortRefused, Release, ReleaseFails, End
  <2>8. QED
    BY <1>2, <2>1, <2>2, <2>3, <2>4, <2>5, <2>6, <2>7 DEF Proceed, Writes
<1>3. CASE Environment
  <2>1. CASE Tick
    <3>1. claim # NoClaim /\ Expired(claim) => Expired(claim)'
      BY <2>1 DEF Tick, Expired, TypeOK, Times, Claim
    <3>2. QED
      BY <2>1, <3>1 DEF Tick
  <2>2. CASE Crash
    BY <2>2 DEF Crash, End
  <2>3. CASE ReconcileLock \/ \E o \in Operations : AbortOperation(o)
    BY <2>3 DEF ReconcileLock, AbortOperation, Expired
  <2>4. QED
    BY <1>3, <2>1, <2>2, <2>3 DEF Environment
<1>4. CASE UNCHANGED vars
  BY <1>4 DEF vars, Expired
<1>5. QED
  BY <1>1, <1>2, <1>3, <1>4 DEF Next
-------------------------------------------------------------------------------
\* The state stays well typed, only a lease on file is known to be in force,
\* and what a call read of the claim file stays true.
THEOREM InvCorrect == Spec => []Inv
<1>1. Inv /\ [Next]_vars => Inv'
  BY TypePreserved, KnownPreserved, ReadingPreserved DEF Inv
<1>2. QED
  BY InvInitial, <1>1, PTL DEF Spec

\* The claim file, the receipts and the call in flight are always well formed.
THEOREM ClaimsTypeCorrect == Spec => []TypeOK
<1>1. Inv => TypeOK
  BY DEF Inv
<1>2. QED
  BY <1>1, InvCorrect, PTL

\* Two owners never both know of a lease in force.
THEOREM ExclusiveLeaseCorrect == Spec => []ExclusiveLease
<1>1. Inv => ExclusiveLease
  BY DEF Inv, Known, ExclusiveLease
<1>2. QED
  BY <1>1, InvCorrect, PTL

\* A lease its owner knows of is on file until it lapses or is given back.
THEOREM LeaseOnFileCorrect == Spec => []LeaseOnFile
<1>1. Inv => LeaseOnFile
  BY DEF Inv, Known, LeaseOnFile
<1>2. QED
  BY <1>1, InvCorrect, PTL

\* A release that reports success has taken its claim off the file.
THEOREM ReleasedIsGoneCorrect == Spec => []ReleasedIsGone
<1>1. Inv => ReleasedIsGone
  BY DEF Inv, Reading, Answered, ReleasedIsGone, IsRelease, Claiming, Owns
<1>2. QED
  BY <1>1, InvCorrect, PTL
-------------------------------------------------------------------------------
\* Asking for a call changes no lease.
LEMMA AskCounts ==
    ASSUME Inv, NEW o \in Operations, NEW r \in Request, Ask(o, r)
    PROVE  UNCHANGED <<Counted, now>>
<1>1. ASSUME NEW next, NEW result, next \notin {"commit", "restore"},
             Enter(o, r, next, result)
      PROVE  UNCHANGED <<Counted, now>>
  BY <1>1 DEF Enter, Counted
<1>2. CASE RepeatClaim(o, r)
  BY <1>1, <1>2 DEF RepeatClaim
<1>3. CASE StartClaim(o, r)
  BY <1>1, <1>3 DEF StartClaim
<1>4. CASE RepeatRelease(o, r)
  BY <1>1, <1>4 DEF RepeatRelease
<1>5. CASE StartRelease(o, r)
  BY <1>1, <1>5 DEF StartRelease
<1>6. CASE RefuseClaim(o, r) \/ RefuseRelease(o, r)
  <2>1. UNCHANGED vars
    BY <1>6 DEF RefuseClaim, RefuseRelease, Refuse
  <2>2. QED
    BY <2>1 DEF vars, Counted, Claiming, request
<1>7. QED
  BY <1>2, <1>3, <1>4, <1>5, <1>6 DEF Ask

\* A step of a call changes the lease only by granting one over a lapsed one
\* and under a larger fence, or by giving it back.
LEMMA ProceedCounts ==
    ASSUME Inv, Proceed
    PROVE  [EL!Next]_<<Counted, now>>
<1> USE DEF Inv, Counted, Claiming, request
<1>1. ASSUME NEW outcome \in Outcomes, WriteClaim(outcome)
      PROVE  [EL!Next]_<<Counted, now>>
  <2>1. Counted = claim /\ Counted' = claim' /\ UNCHANGED now
    BY <1>1 DEF WriteClaim, Reading
  <2>2. CASE claim' = claim
    BY <2>1, <2>2
  <2>3. CASE claim' = Record(call.op, request)
    <3>1. Record(call.op, request) \in Claim
      BY <1>1, RecordTyped DEF WriteClaim, Reading, TypeOK, Calls
    <3>2. Record(call.op, request).fence = request.fence
      BY DEF Record
    <3>3. claim = NoClaim \/ (Expired(claim) /\ request.fence > claim.fence)
      BY <1>1 DEF WriteClaim, Reading
    <3>4. ~EL!InForce(claim)
      BY <3>3, BoundsAssumption
         DEF EL!InForce, Expired, TypeOK, Claim, Times
    <3>5. EL!Grant(Record(call.op, request))
      BY <2>1, <2>3, <3>2, <3>3, <3>4 DEF EL!Grant
    <3>6. QED
      BY <3>1, <3>5 DEF EL!Next
  <2>4. QED
    BY <1>1, <2>2, <2>3 DEF WriteClaim, Written
<1>2. ASSUME NEW outcome \in Outcomes, RemoveClaim(outcome)
      PROVE  UNCHANGED <<Counted, now>>
  <2>1. /\ call'.request = call.request /\ call'.removed = claim
        /\ step' \in {"commit", "abort"} /\ claim' \in {claim, NoClaim}
        /\ step' = "abort" => claim' = claim
    BY <1>2 DEF RemoveClaim, TypeOK, Calls, Continue, Written, Failed, Outcomes
  <2>2. QED
    BY <1>2, <2>1 DEF RemoveClaim, Reading
<1>3. ASSUME NEW outcome \in Outcomes,
             Commit(outcome) \/ RestoreClaim(outcome)
      PROVE  [EL!Next]_<<Counted, now>>
  <2>1. UNCHANGED now
    BY <1>3 DEF Commit, RestoreClaim
  <2>2. Counted' = Counted \/ Counted' = NoClaim
    BY <1>3 DEF Commit, RestoreClaim, Reading, Written
  <2>3. QED
    BY <2>1, <2>2 DEF EL!Next, EL!GiveBack
<1>4. ASSUME NEW outcome \in Outcomes,
             Begin(outcome) \/ Abort(outcome) \/ BeginAgain(outcome)
             \/ CommitAgain(outcome)
      PROVE  UNCHANGED <<Counted, now>>
  BY <1>4 DEF Begin, Abort, BeginAgain, CommitAgain, Continue
<1>5. CASE BeginRefused \/ AbortRefused \/ Release \/ ReleaseFails
  BY <1>5 DEF BeginRefused, AbortRefused, Release, ReleaseFails, End
<1>6. QED
  BY <1>1, <1>2, <1>3, <1>4, <1>5 DEF Proceed, Writes

\* So does every other step.
LEMMA StepCounts == Inv /\ [Next]_vars => [EL!Next]_<<Counted, now>>
<1> SUFFICES ASSUME Inv, [Next]_vars
             PROVE  [EL!Next]_<<Counted, now>>
  OBVIOUS
<1>1. ASSUME NEW o \in Operations, NEW r \in Request, Ask(o, r)
      PROVE  [EL!Next]_<<Counted, now>>
  BY <1>1, AskCounts
<1>2. CASE Proceed
  BY <1>2, ProceedCounts
<1>3. CASE Environment
  <2>1. CASE Tick
    <3>1. Counted' = Counted
      BY <2>1 DEF Tick, Counted, Claiming, request
    <3>2. QED
      BY <2>1, <3>1 DEF Tick, EL!Tick, EL!Next
  <2>2. CASE Crash
    <3>1. Counted' = claim /\ UNCHANGED now
      BY <2>2 DEF Crash, End, Counted
    <3>2. claim = Counted \/ claim = NoClaim
      BY <2>2 DEF Inv, Reading, Counted, Claiming, request
    <3>3. QED
      BY <3>1, <3>2 DEF EL!Next, EL!GiveBack
  <2>3. CASE ReconcileLock \/ \E o \in Operations : AbortOperation(o)
    BY <2>3 DEF ReconcileLock, AbortOperation, Counted, Claiming, request
  <2>4. QED
    BY <1>3, <2>1, <2>2, <2>3 DEF Environment
<1>4. CASE UNCHANGED vars
  BY <1>4 DEF vars, Counted, Claiming, request
<1>5. QED
  BY <1>1, <1>2, <1>3, <1>4 DEF Next

\* The claim file implements the exclusive lease, where a claim that is being
\* released counts until its removal is committed or given up.
THEOREM ClaimsImplementLease == Spec => ImplementsLease
<1>1. Init => EL!Init
  BY DEF Init, EL!Init, Counted
<1>2. QED
  BY <1>1, InvCorrect, StepCounts, PTL DEF Spec, ImplementsLease, EL!Spec
===============================================================================
