---------------------------- MODULE MCNativeInstall ----------------------------
(***************************************************************************)
(* NativeInstall for TLC.  Processes and operations are interchangeable,   *)
(* and so are packages.                                                    *)
(***************************************************************************)
EXTENDS NativeInstall, TLC

Symmetry == Permutations(Procs) \cup Permutations(Operations)
            \cup Permutations(Packages)
===============================================================================
