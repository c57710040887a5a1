-------------------------- MODULE ExternalOperations --------------------------
(***************************************************************************)
(* The journal of external operations of mission-center-workspace: what is *)
(* known of the effects that providers were asked for.  prepare records an *)
(* operation as pending, update (the CLI's reconcile) records its result,  *)
(* get and list show it.  Every version of a record has a receipt of its   *)
(* own, named by the record's digest; a result counts only once that       *)
(* receipt is committed, and shows as unknown until then.                  *)
(*                                                                         *)
(* The digests of scope and receipt and the task are one value, the        *)
(* subject of the operation; a piece of evidence is a file whose digest    *)
(* was checked on entry.                                                   *)
(***************************************************************************)
EXTENDS LockedOperation, FiniteSets

CONSTANTS
    Externals,      \* external operation ids
    Subjects,       \* what an operation is about: task, scope, receipt
    Evidence,       \* evidence files that match their digests
    Instants,       \* times that callers pass
    MaxRecords,     \* EXTERNAL_OPERATION_MAX_FILES
    NoRecord,       \* there is no record file
    NoEvidence      \* no evidence is given

ASSUME LimitAssumption == MaxRecords \in Nat

VARIABLES
    externals,  \* external-operations/<id>.json
    litter,     \* temporary files that crashes left beside them
    told        \* history: results that calls have returned

extVars == <<externals, litter, told>>

Results == {"confirmed", "failed"}

ExternalStatus == Results \cup {"pending", "unknown"}

\* A record stands for its digest too, and for the id of its receipt.
ExternalRecord == [op : Externals, subject : Subjects, status : ExternalStatus,
                   evidence : Evidence \cup {NoEvidence}, at : Instants]

ASSUME NoRecordAssumption == /\ NoRecord \notin ExternalRecord
                             /\ NoReceipt \notin Receipts(ExternalRecord)

\* old is the record that the call has found on file.
ExternalCalls == [id : ExternalRecord, digest : ExternalRecord,
                  old : ExternalRecord \cup {NoRecord}]

ExternalSteps ==
    {"begin", "write", "commit", "restore", "abort", "give_up", "release"}

ExternalTypeOK ==
    /\ OpTypeOK(ExternalRecord, ExternalRecord, ExternalCalls, ExternalSteps)
    /\ externals \in [Externals -> ExternalRecord \cup {NoRecord}]
    /\ litter \in Nat
    /\ told \subseteq ExternalRecord

-------------------------------------------------------------------------------
\* Mutant of Vouched: any receipt of the record will do.
VouchedByAny(r) == receipts[r] # NoReceipt

\* The receipt of this very record is committed.
Vouched(r) == receipts[r] = Stamp(r, "committed")

\* The status that callers and readers are shown for a stored record.
Shown(r) == IF r.status \in Results /\ ~Vouched(r) THEN "unknown" ELSE r.status

\* The record on file, as it is shown.
ShownRecord(o) == [externals[o] EXCEPT !.status = Shown(externals[o])]

\* The results that count for readers.
Counted == {r \in ExternalRecord : /\ r.status \in Results
                                   /\ externals[r.op] = r
                                   /\ Vouched(r)}

\* Entries of the directory, which is listed as it is.
Entries == Cardinality({o \in Externals : externals[o] # NoRecord}) + litter

PendingRecord(o, s, t) == [op |-> o, subject |-> s, status |-> "pending",
                           evidence |-> NoEvidence, at |-> t]

ExternalCall(r, old) == [id |-> r, digest |-> r, old |-> old]

\* The moves that update allows from the status shown: results are final, an
\* unknown outcome needs a result with evidence, pending is not renewed.
Advances(shown, status, e) ==
    /\ shown \notin Results
    /\ shown = "unknown" => status \in Results /\ e # NoEvidence
    /\ shown = "pending" => status # "pending"

-------------------------------------------------------------------------------
ExternalEmpty == /\ externals = [o \in Externals |-> NoRecord]
                 /\ litter = 0
                 /\ told = {}

ExternalInit == OpInit(ExternalRecord) /\ ExternalEmpty

(* prepare_external_operation. *)

\* The operation is on file for the same subject: its record is the answer.
\* For another subject the call is a Conflict and changes nothing.
PrepareAgain(o, s) == /\ externals[o] # NoRecord
                      /\ externals[o].subject = s
                      /\ Enter(ExternalCall(ShownRecord(o), externals[o]),
                               "release", "replay")
                      /\ UNCHANGED extVars

\* The directory is counted before the record is written.
Prepare(o, s, t) == /\ externals[o] = NoRecord
                    /\ Entries <= MaxRecords
                    /\ Enter(ExternalCall(PendingRecord(o, s, t), NoRecord),
                             "begin", "none")
                    /\ UNCHANGED extVars

(* update_external_operation. *)

\* The caller repeats what the record shows.
UpdateAgain(r) == /\ externals[r.op] # NoRecord
                  /\ r = ShownRecord(r.op)
                  /\ Enter(ExternalCall(r, externals[r.op]), "release", "replay")
                  /\ UNCHANGED extVars

\* A move that is not allowed is a Conflict and changes nothing.
Update(r) == /\ externals[r.op] # NoRecord
             /\ r.subject = externals[r.op].subject
             /\ r # ShownRecord(r.op)
             /\ Advances(Shown(externals[r.op]), r.status, r.evidence)
             /\ Enter(ExternalCall(r, externals[r.op]), "begin", "none")
             /\ UNCHANGED extVars

(* Both. *)

\* A committed receipt without its record is RecoveryUnknown.
BeginRecord(outcome) == Begin(outcome, "write") /\ UNCHANGED extVars

BeginRecordRefused == BeginRefused("recovery_unknown") /\ UNCHANGED extVars

WriteRecord(outcome) ==
    /\ step = "write"
    /\ Write(outcome)
    /\ externals' = [externals EXCEPT
           ![call.id.op] = Written(outcome, @, call.digest)]
    /\ Continue(outcome, "commit", "abort")
    /\ UNCHANGED <<receipts, lock, call, litter, told>>

CommitRecord(outcome) == Commit(outcome, "restore") /\ UNCHANGED extVars

\* The record that was found is written back; one that prepare has created is
\* removed, and a removal that fails leaves it.
RestoreRecord(outcome) ==
    /\ step = "restore"
    /\ call.old = NoRecord => outcome # "late"
    /\ Write(outcome)
    /\ externals' = [externals EXCEPT
           ![call.id.op] = Written(outcome, @, call.old)]
    /\ step' = "give_up"
    /\ answer' = IF Failed(outcome) THEN "recovery_unknown" ELSE answer
    /\ UNCHANGED <<receipts, lock, call, litter, told>>

\* After a failed write the error of abort is dropped.
AbortWrite(outcome) == Abort("abort", outcome, answer) /\ UNCHANGED extVars

\* After a failed commit an error of abort is RecoveryUnknown.
AbortCommit(outcome) ==
    Abort("give_up", outcome, "recovery_unknown") /\ UNCHANGED extVars

AbortCommitRefused ==
    AbortRefused("give_up", "recovery_unknown") /\ UNCHANGED extVars

\* The caller of a successful call knows the record from here on.
ReleaseRecord ==
    /\ Release
    /\ told' = IF answer \in {"ok", "replay"} /\ call.digest.status \in Results
               THEN told \cup {call.digest} ELSE told
    /\ UNCHANGED <<externals, litter>>

ReleaseRecordFails == ReleaseFails /\ UNCHANGED extVars

(* The environment. *)

\* A process that dies while it writes a record leaves its temporary file.
CrashRecord == /\ Crash
               /\ \/ UNCHANGED litter
                  \/ /\ \/ step = "write"
                        \/ step = "restore" /\ call.old # NoRecord
                     /\ litter' = litter + 1
               /\ UNCHANGED <<externals, told>>

ReconcileExternalLock == ReconcileLock /\ UNCHANGED extVars

AbortHistory(r) == AbortOperation(r) /\ UNCHANGED extVars

-------------------------------------------------------------------------------
ExternalAsk ==
    \/ \E o \in Externals, s \in Subjects :
          PrepareAgain(o, s) \/ \E t \in Instants : Prepare(o, s, t)
    \/ \E r \in ExternalRecord : UpdateAgain(r) \/ Update(r)

ExternalWrites(outcome) ==
    \/ BeginRecord(outcome) \/ WriteRecord(outcome) \/ CommitRecord(outcome)
    \/ RestoreRecord(outcome) \/ AbortWrite(outcome) \/ AbortCommit(outcome)

ExternalNext ==
    \/ ExternalAsk
    \/ \E outcome \in Outcomes : ExternalWrites(outcome)
    \/ BeginRecordRefused \/ AbortCommitRefused
    \/ ReleaseRecord \/ ReleaseRecordFails
    \/ CrashRecord \/ ReconcileExternalLock
    \/ \E r \in ExternalRecord : AbortHistory(r)

ExternalSpec == ExternalInit /\ [][ExternalNext]_<<opVars, extVars>>

-------------------------------------------------------------------------------
\* A result that a call has returned is final: whatever fails later, and
\* whoever retries or asks for another result, it stays on file and counts.
ToldIsFinal == told \subseteq Counted

\* A call that ends in a plain error, not in RecoveryUnknown, has brought no
\* result about and taken none away: callers may ask for another one.
ErrorBringsNothing ==
    step = "release" /\ step' = "idle" /\ answer = "error"
        => {r \in Counted : r.op = call.id.op} =
           {r \in {call.old} : r # NoRecord /\ r.status \in Results /\ Vouched(r)}

NoResultByError == [][ErrorBringsNothing]_<<opVars, extVars>>

\* A result that counts is withdrawn by nothing but the rollback of the very
\* call that was recording it.
ResultsKept ==
    \A r \in Counted : r \in Counted' \/ (step = "restore" /\ r = call.digest)

ResultsStand == [][ResultsKept]_<<opVars, extVars>>
===============================================================================
