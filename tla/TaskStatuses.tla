----------------------------- MODULE TaskStatuses -----------------------------
(***************************************************************************)
(* The lifecycle of mission-center-core: TaskStatus and can_transition.    *)
(***************************************************************************)
TaskStatus == {"Backlog", "Ready", "InProgress", "Review", "Done", "Blocked"}

\* The pairs can_transition admits besides staying where one is.
Moves ==
    {<<"Backlog", "Ready">>, <<"Backlog", "InProgress">>,
     <<"Backlog", "Blocked">>, <<"Ready", "InProgress">>,
     <<"Ready", "Blocked">>, <<"InProgress", "Review">>,
     <<"InProgress", "Blocked">>, <<"Review", "Done">>,
     <<"Review", "InProgress">>, <<"Review", "Blocked">>,
     <<"Blocked", "InProgress">>, <<"Done", "InProgress">>}

CanTransition(from, to) == from = to \/ <<from, to>> \in Moves
===============================================================================
