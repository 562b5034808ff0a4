-------------------------------- MODULE Store --------------------------------
(***************************************************************************)
(* What the downloads and the factory directory promise a lone worker, with   *)
(* nothing of how: an archive is made of all its parts, a factory of           *)
(* archives that have been verified, and it is accepted with all its assets.  *)
(* What has been verified is there for the next attempt unless the disk        *)
(* spoils it.  An accepted factory is put away again only if the attempt that *)
(* made it fails after all; once the attempt is over it is left alone.        *)
(***************************************************************************)
EXTENDS Naturals

CONSTANTS
  Assets,  \* what a factory consists of
  Needs    \* the parts of each asset

VARIABLES
  parts,      \* verified parts
  assembled,  \* archives made of verified parts, not yet kept
  archives,   \* verified archives
  installed,  \* assets in the build directory
  stage,      \* "making": no start finds a factory there; it is "made", its attempt
              \* is "failing" after that, or it is over and the factory "kept"
  decays      \* files spoiled by the disk

vars == <<parts, assembled, archives, installed, stage, decays>>

Init ==
  /\ parts = {} /\ assembled = {} /\ archives = {} /\ installed = {}
  /\ stage = "making" /\ decays = 0

(* A verified part. *)
Fetch(p) ==
  /\ parts' = parts \cup {p}
  /\ UNCHANGED <<assembled, archives, installed, stage, decays>>

(* All the parts of an asset make its archive ... *)
Assemble(a) ==
  /\ Needs[a] \subseteq parts
  /\ assembled' = assembled \cup {a}
  /\ UNCHANGED <<parts, archives, installed, stage, decays>>

(* ... which is kept once it is verified, *)
Keep(a) ==
  /\ a \in assembled
  /\ assembled' = assembled \ {a} /\ archives' = archives \cup {a}
  /\ UNCHANGED <<parts, installed, stage, decays>>

(* and made again if the attempt ends before that. *)
Scrap(a) ==
  /\ assembled' = assembled \ {a}
  /\ UNCHANGED <<parts, archives, installed, stage, decays>>

Install(a) ==
  /\ a \in archives
  /\ installed' = installed \cup {a}
  /\ UNCHANGED <<parts, assembled, archives, stage, decays>>

(* A build that is not completed goes as a whole. *)
Discard ==
  /\ installed' = {}
  /\ UNCHANGED <<parts, assembled, archives, stage, decays>>

Accept ==
  /\ installed = Assets
  /\ stage' = "made"
  /\ UNCHANGED <<parts, assembled, archives, installed, decays>>

(* The disk spoils a part or an archive, and nothing else loses one. *)
Decay ==
  /\ decays' = decays + 1
  /\ \/ \E p \in parts : parts' = parts \ {p} /\ UNCHANGED archives
     \/ \E a \in archives : archives' = archives \ {a} /\ UNCHANGED parts
  /\ UNCHANGED <<assembled, installed, stage>>

(* Whoever works, works on a factory that is not accepted yet. *)
Work ==
  /\ stage = "making"
  /\ \/ \E a \in Assets : Assemble(a) \/ Keep(a) \/ Scrap(a) \/ Install(a)
     \/ \E p \in UNION {Needs[a] : a \in Assets} : Fetch(p)
     \/ Discard \/ Accept

(* The attempt may fail with the factory made, *)
Fail ==
  /\ stage = "made"
  /\ stage' = "failing"
  /\ UNCHANGED <<parts, assembled, archives, installed, decays>>

(* and then the factory is put away, *)
GiveUp ==
  /\ stage = "failing"
  /\ stage' = "making" /\ installed' = {}
  /\ UNCHANGED <<parts, assembled, archives, decays>>

(* or the attempt is over before that, or without a failure. *)
Settle ==
  /\ stage \in {"made", "failing"}
  /\ stage' = "kept"
  /\ UNCHANGED <<parts, assembled, archives, installed, decays>>

Next == Work \/ Fail \/ GiveUp \/ Settle \/ Decay

Spec == Init /\ [][Next]_vars
=============================================================================
