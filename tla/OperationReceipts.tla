-------------------------- MODULE OperationReceipts ---------------------------
(***************************************************************************)
(* The operation receipts .mission-center/operations/<id>.json: one per    *)
(* operation id, with the digest of what was requested and a status.       *)
(* begin_operation_locked, commit_operation_locked and                     *)
(* abort_operation_locked of mission-center-workspace read one receipt and *)
(* decide; the operators here are those decisions.  A digest is taken to   *)
(* be the request itself (SHA-256 is injective on the requests at hand).   *)
(***************************************************************************)
CONSTANT NoReceipt      \* there is no file for this operation id

Statuses == {"started", "committed", "aborted"}

Receipts(requests) == [digest : requests, status : Statuses]

Stamp(request, status) == [digest |-> request, status |-> status]

\* Mutant of Startable: the same request may start again whatever its receipt
\* says.
StartableAgain(receipt, request) ==
    receipt = NoReceipt \/ \E s \in Statuses : receipt = Stamp(request, s)

\* begin writes a started receipt: there is none, or the very same request
\* was aborted.
Startable(receipt, request) ==
    receipt = NoReceipt \/ receipt = Stamp(request, "aborted")

\* begin answers Replay: nothing is to be done again.  In every other case it
\* fails with Conflict or AlreadyStarted.
Replayed(receipt, request) == receipt = Stamp(request, "committed")

\* commit and abort write only over a started receipt of the same request.
InProgressFor(receipt, request) == receipt = Stamp(request, "started")
===============================================================================
