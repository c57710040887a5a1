------------------------------- MODULE RetryGate ------------------------------
(***************************************************************************)
(* The retry gate of snapshot.md: write_snapshot_with_options reads the    *)
(* recent failed attempts, the diagnosis and the gate from the snapshot on *)
(* file, adds what the caller supplies, decides on the gate and replaces   *)
(* the snapshot under a receipt.  Repeated failures close the gate         *)
(* (diagnosis); a new hypothesis with evidence asks for a verification; a  *)
(* verification that passes opens it (retry).                              *)
(*                                                                         *)
(* The facts of tasks.md, the note and the language of the snapshot are    *)
(* left out, and so is the time, which the digest of the text covers: a    *)
(* repeated call passes the same ones.                                     *)
(***************************************************************************)
EXTENDS LockedOperation, Sequences, SequencesExt, FiniteSets

CONSTANTS
    SnapshotOps,    \* operation ids that are in use at a time
    Phases,         \* phases of the work in which attempts fail
    Signatures,     \* error signatures
    Diagnoses,      \* pairs of a hypothesis and its evidence
    SignatureLimit, \* equal signatures that close the gate
    PhaseLimit,     \* failures in one phase that close the gate
    MaxRecent,      \* MAX_RECENT_ATTEMPTS
    MaxNew          \* bound on what one call supplies

ASSUME LimitsAssumption ==
    {SignatureLimit, PhaseLimit, MaxRecent, MaxNew} \subseteq Nat \ {0}

VARIABLES
    snapshot,   \* snapshot.md
    due         \* history: what the gate has to see before it opens, see Owed

snapshotVars == <<snapshot, due>>

FailedAttempt == [phase : Phases, signature : Signatures]

UpTo(S, n) == UNION {[1 .. k -> S] : k \in 0 .. n}

Gates == {"none", "retry", "diagnosis", "verification_required"}

VerificationResult == {"none", "pass", "fail"}

Snapshot == [gate : Gates, attempts : UpTo(FailedAttempt, MaxRecent),
             diagnosis : UpTo(Diagnoses, MaxRecent), result : VerificationResult]

NoSnapshot == [gate |-> "none", attempts |-> <<>>, diagnosis |-> <<>>,
               result |-> "none"]

\* The digest is that of the new snapshot.
SnapshotCalls == [id : SnapshotOps, digest : Snapshot]

SnapshotSteps == {"begin", "write", "commit", "abort", "release"}

Dues == {"nothing", "pass", "waived"}

SnapshotTypeOK ==
    /\ OpTypeOK(SnapshotOps, Snapshot, SnapshotCalls, SnapshotSteps)
    /\ snapshot \in Snapshot
    /\ due \in Dues

-------------------------------------------------------------------------------
\* How many of the attempts are among the given ones.
Count(attempts, like) == Cardinality({k \in DOMAIN attempts : attempts[k] \in like})

\* retry_gate_mode: the same error again, or too many failures of one phase.
RepeatedFailures(attempts) ==
    \/ \E s \in Signatures :
          Count(attempts, [phase : Phases, signature : {s}]) >= SignatureLimit
    \/ \E p \in Phases :
          Count(attempts, [phase : {p}, signature : Signatures]) >= PhaseLimit

Recent(s, n) == SubSeq(s, IF Len(s) > n THEN Len(s) - n + 1 ELSE 1, Len(s))

\* The pairs that are not among the known ones, in their order.
Unseen(pairs, known) ==
    LET kept == {k \in DOMAIN pairs : ~Contains(known, pairs[k])}
    IN  [n \in 1 .. Cardinality(kept) |->
            pairs[CHOOSE k \in kept : Cardinality({j \in kept : j <= k}) = n]]

\* Mutant of GateOf: the attempts alone decide, a verification that is due or not.
GateOfAttempts(prior, attempts) ==
    IF RepeatedFailures(attempts) THEN "diagnosis" ELSE "retry"

\* The gate from the attempts on file and the new ones; a verification that is
\* due stays due.
GateOf(prior, attempts) ==
    IF prior.gate = "verification_required" THEN "verification_required"
    ELSE IF RepeatedFailures(attempts) THEN "diagnosis" ELSE "retry"

\* The attempts that stay on file: a verification that passes and one that is
\* asked for settle the earlier ones.
Kept(attempts, settled) == IF settled THEN <<>> ELSE Recent(attempts, MaxRecent)

\* A verification result is accepted when one is due.
Accepts(prior, result) ==
    result # "none" => prior.gate = "verification_required"

\* The snapshot that replaces prior.  The gate is decided on all attempts, and
\* only then are they cut to the most recent ones.
NextSnapshot(prior, new, pairs, result) ==
    LET attempts == prior.attempts \o new
        unseen == Unseen(pairs, prior.diagnosis)
        gate == GateOf(prior, attempts)
        asks == result = "none" /\ gate = "diagnosis" /\ unseen # <<>>
    IN  [gate |-> CASE result = "pass" -> "retry"
                    [] result = "fail" -> "diagnosis"
                    [] asks -> "verification_required"
                    [] OTHER -> gate,
         attempts |-> Kept(attempts, result = "pass" \/ asks),
         diagnosis |-> IF asks THEN Recent(prior.diagnosis \o unseen, MaxRecent)
                       ELSE prior.diagnosis,
         result |-> result]

\* What the gate of snapshot n has to see before it opens, when it had to see
\* before: a verification that passes, once it is shut.  The code waives that in
\* two cases: a verification has failed and no failure repeats among the attempts
\* that are left, or the attempts that repeat were pushed out by later ones.
Owed(before, n) ==
    IF n.result = "pass" THEN "nothing"
    ELSE IF n.gate = "retry" THEN before
    ELSE IF /\ n.gate = "diagnosis" /\ ~RepeatedFailures(n.attempts)
            /\ n.result = "fail" \/ Len(n.attempts) = MaxRecent
         THEN "waived"
    ELSE "pass"

-------------------------------------------------------------------------------
SnapshotEmpty == snapshot = NoSnapshot /\ due = "nothing"

SnapshotInit == OpInit(SnapshotOps) /\ SnapshotEmpty

\* A result that is not due is turned down and changes nothing.
WriteSnapshot(o, new, pairs, result) ==
    /\ Accepts(snapshot, result)
    /\ Enter([id |-> o, digest |-> NextSnapshot(snapshot, new, pairs, result)],
             "begin", "none")
    /\ UNCHANGED snapshotVars

BeginSnapshot(outcome) == Begin(outcome, "write") /\ UNCHANGED snapshotVars

BeginSnapshotRefused == BeginRefused("replay") /\ UNCHANGED snapshotVars

ReplaceSnapshot(outcome) ==
    /\ step = "write"
    /\ Write(outcome)
    /\ snapshot' = Written(outcome, snapshot, call.digest)
    /\ due' = Written(outcome, due, Owed(due, call.digest))
    /\ Continue(outcome, "commit", "abort")
    /\ UNCHANGED <<receipts, lock, call>>

\* The new snapshot stays when the commit fails.
CommitSnapshot(outcome) == Commit(outcome, "abort") /\ UNCHANGED snapshotVars

AbortSnapshot(outcome) == Abort("abort", outcome, answer) /\ UNCHANGED snapshotVars

AbortSnapshotRefused == AbortRefused("abort", answer) /\ UNCHANGED snapshotVars

ReleaseSnapshot == (Release \/ ReleaseFails) /\ UNCHANGED snapshotVars

CrashSnapshot == Crash /\ UNCHANGED snapshotVars

ReconcileSnapshotLock == ReconcileLock /\ UNCHANGED snapshotVars

AbortSnapshotOperation(o) == AbortOperation(o) /\ UNCHANGED snapshotVars

NewSnapshotId(o) == NewId(o) /\ UNCHANGED snapshotVars

-------------------------------------------------------------------------------
SnapshotWrites(outcome) ==
    \/ BeginSnapshot(outcome) \/ ReplaceSnapshot(outcome)
    \/ CommitSnapshot(outcome) \/ AbortSnapshot(outcome)

SnapshotNext ==
    \/ \E o \in SnapshotOps, new \in UpTo(FailedAttempt, MaxNew), pairs \in UpTo(Diagnoses, MaxNew),
          result \in VerificationResult : WriteSnapshot(o, new, pairs, result)
    \/ \E outcome \in Outcomes : SnapshotWrites(outcome)
    \/ BeginSnapshotRefused \/ AbortSnapshotRefused \/ ReleaseSnapshot
    \/ CrashSnapshot \/ ReconcileSnapshotLock
    \/ \E o \in SnapshotOps : AbortSnapshotOperation(o) \/ NewSnapshotId(o)

SnapshotSpec == SnapshotInit /\ [][SnapshotNext]_<<opVars, snapshotVars>>

-------------------------------------------------------------------------------
\* A checkpoint that allows a retry shows no repeated failure among the
\* attempts it keeps, and one that asks for a verification shows a hypothesis
\* with evidence.  A gate that was shut, however many checkpoints ago, allows a
\* retry only after a verification that passed, but for the two cases in which
\* the code waives it: whatever attempts and hypotheses the checkpoints held in
\* between, and whichever of them failed half-way.
GateJustified ==
    /\ snapshot.gate = "retry" => ~RepeatedFailures(snapshot.attempts)
    /\ snapshot.gate = "verification_required" => snapshot.diagnosis # <<>>
    /\ snapshot.gate = "retry" => due # "pass"

\* What snapshot-format.md says: a gate that was shut stays shut until an explicit
\* verification passes.  The code opens it after a verification that failed, with
\* the next checkpoint of any kind, and when the failures leave the window.
OnlyPassOpensGate == snapshot.gate = "retry" => due = "nothing"

\* A verification that is due is not given up: only its result takes the gate
\* further, and only a pass opens it.
VerificationKept ==
    snapshot.gate = "verification_required" /\ snapshot'.gate # snapshot.gate
        => <<snapshot'.gate, snapshot'.result>> \in
               {<<"retry", "pass">>, <<"diagnosis", "fail">>}

VerificationDue == [][VerificationKept]_snapshot
===============================================================================
