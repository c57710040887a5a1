------------------------------ MODULE AtomicFile ------------------------------
(***************************************************************************)
(* What a caller can see of Workspace::atomic_write and of                 *)
(* atomic_write_scoped: a temporary file is written, flushed and renamed   *)
(* over the target, and then the directory is synchronised.  An error      *)
(* before the rename leaves the old content; the synchronisation comes     *)
(* after the rename, so its error leaves the new content and is reported   *)
(* all the same.                                                           *)
(***************************************************************************)

\* "ok": replaced; "lost": an error, nothing replaced; "late": an error, but
\* the content was replaced.
Outcomes == {"ok", "lost", "late"}

Failed(outcome) == outcome # "ok"

\* The content of the target after writing new over old.
Written(outcome, old, new) == IF outcome = "lost" THEN old ELSE new
===============================================================================
