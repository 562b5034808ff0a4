------------------------------ MODULE ImageBuild ------------------------------
(***************************************************************************)
(* image/build.sh, audit.sh and build_manifest.py: the optional prepared      *)
(* image. Unlike the factory's builder it looks for older artifacts only      *)
(* after the install, and joins nothing itself: the workflow that drafts the  *)
(* release does (build-image.yml).                                           *)
(*                                                                         *)
(* A disk is the run that made it and how its install ended; its stream's     *)
(* parts are numbered.                                                       *)
(***************************************************************************)
EXTENDS Naturals, Sequences

CONSTANTS
  Builders,          \* processes that run build.sh with one output directory
  Absent,            \* no such file
  Torn,              \* a file cut short
  RequireGuestfish,  \* WIO_REQUIRE_GUESTFISH
  MaxParts,          \* bound: parts that a stream is split into
  MaxFaults, MaxKills

Disks == [by : Builders, turn : 0 .. 1, deferred : BOOLEAN]
PartFiles == [disk : Disks, index : 1 .. MaxParts, of : 1 .. MaxParts]
Stream(d, n) == [i \in 1 .. n |-> [disk |-> d, index |-> i, of |-> n]]

(* A part cut short is no part. *)
ImageBuildAssumption ==
  /\ RequireGuestfish \in BOOLEAN
  /\ MaxParts \in Nat \ {0} /\ {MaxFaults, MaxKills} \subseteq Nat
  /\ Torn \notin PartFiles

VARIABLES
  parts, manifest, sums,            \* OUTPUT_DIR
  guestfish,                        \* the hosts that have it
  pc, disk, count, next, turn,      \* of each builder
  faults, kills

output == <<parts, manifest, sums>>
local == <<pc, disk, count, next, turn>>
bounds == <<guestfish, faults, kills>>
vars == <<output, local, bounds>>

NoParts == [i \in 1 .. MaxParts |-> Absent]

Init ==
  /\ parts = NoParts /\ manifest = Absent /\ sums = Absent
  /\ guestfish \in SUBSET Builders
  /\ pc = [p \in Builders |-> "idle"] /\ disk = [p \in Builders |-> Absent]
  /\ count = [p \in Builders |-> 1] /\ next = [p \in Builders |-> 1]
  /\ turn = [p \in Builders |-> 0] /\ faults = 0 /\ kills = 0

-----------------------------------------------------------------------------
At(p, l) == pc[p] = l
Goto(p, l) == pc' = [pc EXCEPT ![p] = l]

(* The run ends, and its BUILD_DIR goes; the output stays. *)
End(p) ==
  /\ Goto(p, "idle") /\ disk' = [disk EXCEPT ![p] = Absent]
  /\ count' = [count EXCEPT ![p] = 1] /\ next' = [next EXCEPT ![p] = 1] /\ UNCHANGED turn

(* QEMU ends well; the installer has deferred its owner, or has not.           *)
Install(p) ==
  /\ At(p, "idle") /\ Goto(p, "audit") /\ turn' = [turn EXCEPT ![p] = 1 - @]
  /\ \E d \in BOOLEAN :
       /\ d \/ faults < MaxFaults
       /\ faults' = IF d THEN faults ELSE faults + 1
       /\ disk' = [disk EXCEPT ![p] = [by |-> p, turn |-> turn'[p], deferred |-> d]]
  /\ UNCHANGED <<output, guestfish, count, next, kills>>

(* Mutant: a builder without guestfish need not have it. *)
PassesLoosely(p) == p \in guestfish => disk[p].deferred

(* audit.sh: without guestfish the identity audit is skipped, or refused.      *)
Passes(p) == IF p \in guestfish THEN disk[p].deferred ELSE ~ RequireGuestfish

Audit(p) ==
  /\ At(p, "audit")
  /\ \/ /\ Passes(p) /\ Goto(p, "look") /\ UNCHANGED <<disk, next, turn>>
        /\ \E n \in 1 .. MaxParts : count' = [count EXCEPT ![p] = n]
     \/ ~ Passes(p) /\ End(p)
  /\ UNCHANGED <<output, bounds>>

(* Mutant: older artifacts are overwritten. *)
LookAtNothing(p) ==
  /\ At(p, "look") /\ Goto(p, "split") /\ UNCHANGED <<output, disk, count, next, turn, bounds>>

(* "Output destination already contains image artifacts" *)
LookForArtifacts(p) ==
  /\ At(p, "look")
  /\ \/ parts = NoParts /\ manifest = Absent /\ sums = Absent /\ Goto(p, "split")
        /\ UNCHANGED <<disk, count, next, turn>>
     \/ ~ (parts = NoParts /\ manifest = Absent /\ sums = Absent) /\ End(p)
  /\ UNCHANGED <<output, bounds>>

(* split, part by part, under their release names. *)
Split(p) ==
  /\ At(p, "split")
  /\ parts' = [parts EXCEPT ![next[p]] = Stream(disk[p], count[p])[next[p]]]
  /\ IF next[p] < count[p]
     THEN next' = [next EXCEPT ![p] = @ + 1] /\ UNCHANGED pc
     ELSE Goto(p, "manifest") /\ UNCHANGED next
  /\ UNCHANGED <<manifest, sums, disk, count, turn, bounds>>

(* build_manifest.py: the stream's digest as it was told, the parts as found.  *)
WriteManifest(p) ==
  /\ At(p, "manifest") /\ Goto(p, "sums")
  /\ manifest' = [compressed |-> Stream(disk[p], count[p]), parts |-> parts]
  /\ UNCHANGED <<parts, sums, disk, count, next, turn, bounds>>

(* SHA256SUMS, of the manifest and every part there is, and its check.         *)
WriteSums(p) ==
  /\ At(p, "sums") /\ End(p)
  /\ sums' = [parts |-> parts, manifest |-> manifest]
  /\ UNCHANGED <<parts, manifest, bounds>>

(* A step fails or is killed, and may leave the file it was writing cut short. *)
CutShort(p) ==
  /\ ~ At(p, "idle") /\ End(p)
  /\ \/ faults < MaxFaults /\ faults' = faults + 1 /\ UNCHANGED <<guestfish, kills>>
     \/ kills < MaxKills /\ kills' = kills + 1 /\ UNCHANGED <<guestfish, faults>>
  /\ \/ UNCHANGED output
     \/ At(p, "split") /\ parts' = [parts EXCEPT ![next[p]] = Torn] /\ UNCHANGED <<manifest, sums>>
     \/ At(p, "manifest") /\ manifest' = Torn /\ UNCHANGED <<parts, sums>>
     \/ At(p, "sums") /\ sums' = Torn /\ UNCHANGED <<parts, manifest>>

(* sha256sum --check: what SHA256SUMS names is there, as it names it.  Parts     *)
(* that it does not name are not looked at.                                  *)
SumsMatch ==
  /\ sums \notin {Absent, Torn} /\ sums.manifest = manifest
  /\ \A i \in 1 .. MaxParts : sums.parts[i] \in {Absent, parts[i]}

(* A person makes room, when no builder is at work and there is no candidate.   *)
CleanUp ==
  /\ \A p \in Builders : At(p, "idle")
  /\ ~ SumsMatch /\ <<parts, manifest, sums>> # <<NoParts, Absent, Absent>>
  /\ parts' = NoParts /\ manifest' = Absent /\ sums' = Absent
  /\ UNCHANGED <<local, bounds>>

Next ==
  \/ \E p \in Builders : \/ Install(p) \/ Audit(p) \/ LookForArtifacts(p) \/ Split(p)
                         \/ WriteManifest(p) \/ WriteSums(p) \/ CutShort(p)
  \/ CleanUp

Spec == Init /\ [][Next]_vars

-----------------------------------------------------------------------------
(* Read one after another, the parts that manifest m names are the stream s.   *)
Named(m) == {i \in 1 .. MaxParts : m.parts[i] # Absent}
JoinsTo(m, s) ==
  \E order \in [1 .. Len(s) -> Named(m)] :
    /\ \A i \in Named(m) : \E k \in 1 .. Len(s) : order[k] = i
    /\ \A k, l \in 1 .. Len(s) : k < l => order[k] < order[l]
    /\ \A k \in 1 .. Len(s) : s[k] = m.parts[order[k]]

(* build-image.yml, "Verify complete candidate": the sums, each part that the   *)
(* manifest names, and the stream that they join to.                         *)
Draftable ==
  /\ SumsMatch /\ manifest # Torn
  /\ \A i \in 1 .. MaxParts : manifest.parts[i] \in {Absent, parts[i]}
  /\ JoinsTo(manifest, manifest.compressed)

(* Types; a run that has ended keeps no disk. *)
TypeOK ==
  /\ Len(parts) = MaxParts /\ disk \in [Builders -> Disks \cup {Absent}]
  /\ \A p \in Builders : At(p, "idle") => disk[p] = Absent

(* With one builder, sums that match prove a whole stream of one disk, although *)
(* the build has not joined the parts; failures and kills leave none that do.  *)
SumsProveStream ==
  SumsMatch => \E d \in Disks, n \in 1 .. MaxParts :
    /\ manifest.compressed = Stream(d, n) /\ manifest.parts = parts
    /\ \A i \in 1 .. MaxParts : parts[i] = IF i <= n THEN Stream(d, n)[i] ELSE Absent

(* With any number of builders: the parts that the workflow drafts and that its *)
(* manifest names are the whole stream of a disk that defers its owner, where  *)
(* guestfish is required, wherever the disk was audited.  Parts of another     *)
(* builder may lie beside them, and are drafted with them.                   *)
DraftedIsAudited ==
  Draftable /\ RequireGuestfish =>
    \E d \in Disks, n \in 1 .. MaxParts :
      /\ d.deferred /\ JoinsTo(manifest, Stream(d, n))
      /\ \A i \in 1 .. n : parts[i] = Stream(d, n)[i]
=============================================================================
