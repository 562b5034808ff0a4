------------------------------ MODULE MCPrepare ------------------------------
(* Prepare on small instances: the symmetry TLC may use in safety runs.      *)
EXTENDS Prepare, TLC

Symmetry == Permutations(Workers) \union Permutations(Setups)
=============================================================================
