----------------------------- MODULE SingleWriter -----------------------------
(***************************************************************************)
(* What the writer lock of a mission workspace promises: of all the        *)
(* processes that want to change MissionCenter/, at most one is inside a   *)
(* write operation at a time.  A writer enters only an empty workspace and *)
(* leaves whenever it likes.  WriterLock.tla is the protocol on files that *)
(* implements it.                                                          *)
(***************************************************************************)
CONSTANT Writers

VARIABLE holders    \* the writers inside a write operation

Init == holders = {}

Enter(w) == /\ holders = {}
            /\ holders' = {w}

Leave(w) == /\ holders = {w}
            /\ holders' = {}

Next == \E w \in Writers : Enter(w) \/ Leave(w)

Spec == Init /\ [][Next]_holders
===============================================================================
