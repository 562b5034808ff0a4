------------------------------- MODULE MCWindow -------------------------------
(***************************************************************************)
(* Instances of Window for TLC: the windows and the worker processes are    *)
(* interchangeable.                                                        *)
(***************************************************************************)
EXTENDS Window, TLC

Symmetry == Permutations(Windows) \union Permutations(Jobs)
=============================================================================
