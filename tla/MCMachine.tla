------------------------------ MODULE MCMachine ------------------------------
(* Machine on small instances: the symmetry TLC may use in safety runs.      *)
EXTENDS Machine, TLC

Symmetry == Permutations(Sessions) \union Permutations(Images)
=============================================================================
