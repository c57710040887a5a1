---------------------------- MODULE TaskLifecycle -----------------------------
(***************************************************************************)
(* What the Status column of MissionCenter/tasks.md promises: a task moves *)
(* along the lifecycle of mission-center-core, one legal move at a time,   *)
(* and in no other way.  TaskTransition.tla is the operation on files that *)
(* implements it.                                                          *)
(***************************************************************************)
EXTENDS TaskStatuses

CONSTANT Tasks

VARIABLE status     \* the lifecycle status of each task

Init == status \in [Tasks -> TaskStatus]

Move(t, to) == /\ CanTransition(status[t], to)
               /\ status' = [status EXCEPT ![t] = to]

Next == \E t \in Tasks, to \in TaskStatus : Move(t, to)

Spec == Init /\ [][Next]_status
===============================================================================
