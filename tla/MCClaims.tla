------------------------------- MODULE MCClaims -------------------------------
(***************************************************************************)
(* A small instance of Claims.  Operation ids and owners are               *)
(* interchangeable, and only safety properties are checked.                *)
(***************************************************************************)
EXTENDS Claims, TLC

Symmetry == Permutations(Operations) \cup Permutations(Owners)
===============================================================================
