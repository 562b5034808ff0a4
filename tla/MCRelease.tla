----------------------------- MODULE MCRelease -----------------------------
(* Two builds, two runtime trees, one image or two, for TLC. *)
EXTENDS Release, TLC

Interchangeable == Permutations(Builds) \cup Permutations(Trees) \cup Permutations(Images)
=============================================================================
