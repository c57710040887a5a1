----------------------------- MODULE PulseLedger ------------------------------
(***************************************************************************)
(* MissionWorkspace::append_pulse_full and the readers of                  *)
(* execution-ledger.jsonl.  A pulse is one line of the ledger: an id, the  *)
(* task it is about, possibly the pulse that caused it, and a time.  The   *)
(* ledger must parse as a whole before a pulse is appended, and an append  *)
(* that failed is repeated under the same or another operation id.         *)
(*                                                                         *)
(* Phase, outcome, next action, evidence and budget are carried along and  *)
(* compared with the rest: the task and the cause stand for them.  Ids are *)
(* stored without the white space around them but looked up with it; a     *)
(* padded request is one whose id has some.                                *)
(***************************************************************************)
EXTENDS LockedOperation, Sequences, SequencesExt

CONSTANTS
    PulseOps,       \* operation ids
    PulseIds,       \* ids of pulses
    PulseTasks,     \* tasks of tasks.md
    MaxPulseTime,   \* bound on the times that callers pass
    MaxPulses,      \* pulses that fit in the ledger
    MaxShown,       \* pulses that fit in a handoff
    NoParent        \* the pulse has no cause

ASSUME PulseBoundsAssumption ==
    MaxPulseTime \in Nat /\ MaxPulses \in Nat /\ MaxShown \in Nat \ {0}

VARIABLES
    ledger,         \* execution-ledger.jsonl
    missed,         \* history: ids on file that a padded request missed
    toldPulses      \* history: pulses whose append was answered as done

pulseVars == <<ledger, missed, toldPulses>>

PulseRecord == [id : PulseIds, task : PulseTasks,
                parent : PulseIds \cup {NoParent}, at : 0 .. MaxPulseTime]

\* The time is no part of the digest.
PulseDigest(p) == [id |-> p.id, task |-> p.task, parent |-> p.parent]

PulseDigests ==
    [id : PulseIds, task : PulseTasks, parent : PulseIds \cup {NoParent}]

PulseCalls == [id : PulseOps, digest : PulseDigests, pulse : PulseRecord]

PulseSteps == {"begin", "fit", "write", "commit", "recommit", "abort", "release"}

PulseTypeOK == /\ OpTypeOK(PulseOps, PulseDigests, PulseCalls, PulseSteps)
               /\ ledger \in Seq(PulseRecord)
               /\ Len(ledger) <= MaxPulses
               /\ missed \subseteq PulseIds
               /\ toldPulses \subseteq PulseDigests

-------------------------------------------------------------------------------
\* The pulses of a line-by-line reading, and the first of a given id.
Positions(l, i) == {n \in 1 .. Len(l) : l[n].id = i}

IsOn(l, i) == Positions(l, i) # {}

OfTask(l, t) == {n \in 1 .. Len(l) : l[n].task = t}

\* The cause of the pulse is on the ledger, of the same task and not later.
CausedOn(l, p) ==
    p.parent # NoParent =>
        \E n \in Positions(l, p.parent) : l[n].task = p.task /\ l[n].at <= p.at

\* parse_pulse_ledger: ids are distinct and causes come first.
Parses(l) == \A n \in 1 .. Len(l) :
                 LET before == SubSeq(l, 1, n - 1)
                 IN  ~IsOn(before, l[n].id) /\ CausedOn(before, l[n])

\* The pulse of that id with the very content of p, whenever it was recorded.
SameOn(l, p) == \E n \in Positions(l, p.id) : PulseDigest(l[n]) = PulseDigest(p)

\* handoff_json: the latest pulse of a task and, before it, what caused it, as
\* positions of the ledger; the oldest are left out when they do not fit.
Lineage(l) ==
    LET From[n \in 1 .. Len(l)] ==
            IF l[n].parent = NoParent THEN <<n>>
            ELSE Append(From[Min(Positions(l, l[n].parent))], n)
    IN  From

Handoff(l, t) == LET chain == Lineage(l)[Max(OfTask(l, t))]
                 IN  SubSeq(chain, Max({1, Len(chain) - MaxShown + 1}), Len(chain))

PulseCall(o, p) == [id |-> o, digest |-> PulseDigest(p), pulse |-> p]

-------------------------------------------------------------------------------
PulseEmpty == /\ ledger = <<>>
              /\ missed = {}
              /\ toldPulses = {}

PulseInit == OpInit(PulseOps) /\ PulseEmpty

\* The lookup of the pulse among those on file uses the id as it was passed.
FoundAs(p, padded) == ~padded /\ IsOn(ledger, p.id)

\* The pulse is on file with the same content: a receipt of this operation
\* that was left started is committed; another request's receipt is a Conflict.
AppendAgain(o, p, padded) ==
    /\ Parses(ledger)
    /\ FoundAs(p, padded)
    /\ SameOn(ledger, p)
    /\ IF receipts[o] = NoReceipt
       THEN Enter(PulseCall(o, p), "release", "replay")
       ELSE /\ receipts[o].digest = PulseDigest(p)
            /\ IF receipts[o].status = "started"
               THEN Enter(PulseCall(o, p), "recommit", "none")
               ELSE Enter(PulseCall(o, p), "release", "replay")
    /\ UNCHANGED pulseVars

\* A new pulse, whose cause is on file.  With the id on file and other content
\* the call is a Conflict, with no such cause it is turned down, and over a
\* ledger that does not parse every call fails; none of them changes anything.
AppendNew(o, p, padded) ==
    /\ Parses(ledger)
    /\ ~FoundAs(p, padded)
    /\ CausedOn(ledger, p)
    /\ Enter(PulseCall(o, p), "begin", "none")
    /\ missed' = IF padded /\ IsOn(ledger, p.id) THEN missed \cup {p.id} ELSE missed
    /\ UNCHANGED <<ledger, toldPulses>>

BeginPulse(outcome) == Begin(outcome, "fit") /\ UNCHANGED pulseVars

BeginPulseRefused == BeginRefused("replay") /\ UNCHANGED pulseVars

\* A ledger that is full turns the pulse down after its receipt was started.
Fit == /\ step = "fit"
       /\ IF Len(ledger) < MaxPulses
          THEN step' = "write" /\ UNCHANGED answer
          ELSE step' = "abort" /\ answer' = "error"
       /\ UNCHANGED <<receipts, lock, call, faults, pulseVars>>

\* The whole ledger is replaced by one with the new line.
WriteLedger(outcome) ==
    /\ step = "write"
    /\ Write(outcome)
    /\ ledger' = Written(outcome, ledger, Append(ledger, call.pulse))
    /\ Continue(outcome, "commit", "abort")
    /\ UNCHANGED <<receipts, lock, call, missed, toldPulses>>

\* The line stays when the commit fails.
CommitPulse(outcome) == Commit(outcome, "abort") /\ UNCHANGED pulseVars

CommitPulseAgain(outcome) ==
    /\ step = "recommit"
    /\ Write(outcome)
    /\ SetReceipt(outcome, "committed")
    /\ step' = "release"
    /\ answer' = IF Failed(outcome) THEN "error" ELSE "replay"
    /\ UNCHANGED <<lock, call, pulseVars>>

AbortPulse(outcome) == Abort("abort", outcome, answer) /\ UNCHANGED pulseVars

AbortPulseRefused == AbortRefused("abort", answer) /\ UNCHANGED pulseVars

ReleasePulse == /\ Release
                /\ toldPulses' = IF answer \in {"ok", "replay"}
                                 THEN toldPulses \cup {call.digest}
                                 ELSE toldPulses
                /\ UNCHANGED <<ledger, missed>>

ReleasePulseFails == ReleaseFails /\ UNCHANGED pulseVars

CrashPulse == Crash /\ UNCHANGED pulseVars

ReconcilePulseLock == ReconcileLock /\ UNCHANGED pulseVars

AbortPulseOperation(o) == AbortOperation(o) /\ UNCHANGED pulseVars

-------------------------------------------------------------------------------
PulseWrites(outcome) ==
    \/ BeginPulse(outcome) \/ WriteLedger(outcome) \/ CommitPulse(outcome)
    \/ CommitPulseAgain(outcome) \/ AbortPulse(outcome)

PulseNext ==
    \/ /\ step = "idle"
       /\ \E o \in PulseOps, p \in PulseRecord, padded \in BOOLEAN :
             AppendAgain(o, p, padded) \/ AppendNew(o, p, padded)
    \/ \E outcome \in Outcomes : PulseWrites(outcome)
    \/ BeginPulseRefused \/ Fit \/ AbortPulseRefused
    \/ ReleasePulse \/ ReleasePulseFails
    \/ CrashPulse \/ ReconcilePulseLock
    \/ \E o \in PulseOps : AbortPulseOperation(o)

PulseSpec == PulseInit /\ [][PulseNext]_<<opVars, pulseVars>>

-------------------------------------------------------------------------------
\* Whatever fails and whoever retries, causes come before their effects on the
\* ledger and an id appears once, unless a padded request has missed it: the
\* ledger stays readable for every later call.
LedgerReadable ==
    \A n \in 1 .. Len(ledger) :
        LET before == SubSeq(ledger, 1, n - 1)
        IN  /\ IsOn(before, ledger[n].id) => ledger[n].id \in missed
            /\ CausedOn(before, ledger[n])

\* What handoff tells the next agent of a task is about that task alone, in
\* the order of time, and starts with a pulse nothing caused unless it was cut.
HandoffTrue ==
    Parses(ledger) =>
        \A t \in {ledger[n].task : n \in 1 .. Len(ledger)} :
            LET chain == Handoff(ledger, t)
            IN  /\ \A k \in 1 .. Len(chain) : ledger[chain[k]].task = t
                /\ \A k \in 1 .. Len(chain) - 1 :
                       /\ ledger[chain[k + 1]].parent = ledger[chain[k]].id
                       /\ ledger[chain[k]].at <= ledger[chain[k + 1]].at
                /\ Len(chain) = MaxShown \/ ledger[chain[1]].parent = NoParent

\* A pulse whose append was answered as done, at once or as a repetition, is
\* on the ledger for good.
ToldOnLedger ==
    \A d \in toldPulses : \E n \in 1 .. Len(ledger) : PulseDigest(ledger[n]) = d
===============================================================================
