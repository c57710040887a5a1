--------------------------- MODULE MCTaskTransition ---------------------------
(***************************************************************************)
(* A small workspace for TaskTransition.  Operation ids, rows and their    *)
(* contents are interchangeable: no action and no property singles one     *)
(* out, and only safety properties are checked.                            *)
(***************************************************************************)
EXTENDS TaskTransition, TLC

Symmetry == Permutations(Operations) \cup Permutations(Rows)
===============================================================================
