---------------------------- MODULE MCMaterializer ----------------------------
(***************************************************************************)
(* Instances of Materializer for TLC: one part per asset, the runtime's     *)
(* first, as the manifest's assets are sorted; one worker with two of every *)
(* mishap, or two workers with one.                                        *)
(***************************************************************************)
EXTENDS Materializer

CONSTANTS r1, g1, m1

MCPartOrder == <<r1, g1>>

(* Either worker alone would be the same behaviour twice. *)
MCInit == Init /\ team \in {{m1}, Workers}

MCNext == Next /\ (~Alone => faults' <= 1 /\ kills' <= 1 /\ decays' = 0)

MCSpec == MCInit /\ [][MCNext]_vars /\ Fairness
=============================================================================
