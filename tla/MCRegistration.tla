----------------------------- MODULE MCRegistration -----------------------------
(***************************************************************************)
(* Registration for TLC.  Processes, operations and manifests are          *)
(* interchangeable.                                                        *)
(***************************************************************************)
EXTENDS Registration, TLC

Symmetry == Permutations(Procs) \cup Permutations(Operations)
            \cup Permutations(Manifests)
===============================================================================
