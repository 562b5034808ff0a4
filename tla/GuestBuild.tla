------------------------------ MODULE GuestBuild ------------------------------
(***************************************************************************)
(* guest/build.sh and the scripts it runs: a pinned ISO becomes a factory     *)
(* disk, which is sanitized, audited, inventoried, compressed, split and      *)
(* described in an output directory, then verified there by                   *)
(* verify_release.py. A run may fail or be killed at any step; what it wrote  *)
(* stays, and the next run wants an empty directory.                         *)
(*                                                                         *)
(* A digest stands for the bytes. A file made from a disk is that disk, under *)
(* the file's name; what the inventory says of a disk is Inventory's business.*)
(***************************************************************************)
EXTENDS Naturals, Sequences

CONSTANTS
  Builders,   \* processes that run build.sh with one output directory
  Absent,     \* no such file
  Torn,       \* a file cut short
  MaxParts,   \* bound: parts that a stream is split into
  MaxFaults,  \* bound: commands that fail, files that decay
  MaxKills    \* bound: runs killed

ASSUME GuestBuildAssumption ==
  MaxParts \in Nat \ {0} /\ {MaxFaults, MaxKills} \subseteq Nat

(* What the installer may leave on a disk, and what audit.sh looks for: the    *)
(* deferred setup, identity of a machine, an owner's account.                *)
Traits == {"ready", "identity", "owner"}
Disks == [by : Builders, turn : 0 .. 1, traits : SUBSET Traits]

(* The files in the order in which they are written, before the parts.        *)
Described == <<"packages.lock.tsv", "sbom.cdx.json", "licenses.json",
               "license-texts.tar.zst", "THIRD_PARTY_NOTICES.md", "provenance.json">>
METADATA == {Described[i] : i \in 1 .. Len(Described)}

(* The parts of a disk's stream. *)
Part(d, i, n) == [disk |-> d, index |-> i, of |-> n]
Stream(d, n) == [i \in 1 .. n |-> Part(d, i, n)]

VARIABLES
  out,      \* OUTPUT_DIR: metadata, parts, manifest.json, SHA256SUMS
  iso,      \* the ISO of the cache: Absent, "pinned", "other"
  pc,       \* next command of each builder
  disk,     \* the disk in its BUILD_DIR
  count,    \* parts of its stream
  next,     \* files written so far by the command it is at
  turn,     \* tells its run from the one before
  faults, kills

local == <<pc, disk, count, next, turn>>
vars == <<out, iso, local, faults, kills>>

Empty == [metadata |-> [m \in METADATA |-> Absent], parts |-> [i \in 1 .. MaxParts |-> Absent],
          manifest |-> Absent, sums |-> Absent]

Init ==
  /\ out = Empty /\ iso = Absent
  /\ pc = [p \in Builders |-> "idle"] /\ disk = [p \in Builders |-> Absent]
  /\ count = [p \in Builders |-> 1]
  /\ next = [p \in Builders |-> 1] /\ turn = [p \in Builders |-> 0]
  /\ faults = 0 /\ kills = 0

-----------------------------------------------------------------------------
At(p, l) == pc[p] = l
Goto(p, l) == pc' = [pc EXCEPT ![p] = l]
Same(v) == UNCHANGED <<v, faults, kills>>

(* The run ends: its BUILD_DIR goes (killed, it stays where nothing looks for  *)
(* it), the output stays.                                                    *)
End(p) ==
  /\ Goto(p, "idle") /\ disk' = [disk EXCEPT ![p] = Absent]
  /\ count' = [count EXCEPT ![p] = 1] /\ next' = [next EXCEPT ![p] = 1]
  /\ UNCHANGED turn

Start(p) ==
  /\ At(p, "idle") /\ Goto(p, "output")
  /\ turn' = [turn EXCEPT ![p] = 1 - @]
  /\ Same(<<out, iso, disk, count, next>>)

(* "output directory must be empty" *)
CheckOutput(p) ==
  /\ At(p, "output")
  /\ \/ out = Empty /\ Goto(p, "iso") /\ UNCHANGED <<disk, count, next, turn>>
     \/ out # Empty /\ End(p)
  /\ Same(<<out, iso>>)

(* An ISO that is not in the cache is downloaded, verified and moved there.   *)
(* A download that fails or does not verify is a command that fails.          *)
FetchIso(p) ==
  /\ At(p, "iso") /\ Goto(p, "verify-iso")
  /\ iso' = IF iso = Absent THEN "pinned" ELSE iso
  /\ Same(<<out, disk, count, next, turn>>)

(* The pinned digest, whoever put it there. *)
VerifyIso(p) ==
  /\ At(p, "verify-iso")
  /\ \/ iso = "pinned" /\ Goto(p, "install")
        /\ UNCHANGED <<disk, count, next, turn>>
     \/ iso = "other" /\ End(p)
  /\ Same(<<out, iso>>)

(* QEMU ends well, with whatever the installer left; check and convert.       *)
Install(p) ==
  /\ At(p, "install") /\ iso # Absent /\ Goto(p, "sanitize")
  /\ \E t \in SUBSET Traits :
       /\ faults' = faults + (IF {"ready"} \subseteq t /\ "owner" \notin t THEN 0 ELSE 1)
       /\ faults' <= MaxFaults
       /\ disk' = [disk EXCEPT ![p] = [by |-> p, turn |-> turn[p], traits |-> t]]
  /\ UNCHANGED <<out, iso, count, next, turn, kills>>

(* Mutant: machine identity is left. *)
SanitizeNothing(p) ==
  /\ At(p, "sanitize") /\ Goto(p, "audit")
  /\ Same(<<out, iso, disk, count, next, turn>>)

(* sanitize.sh: machine identity goes, an owner stays for the audit to find.  *)
Sanitize(p) ==
  /\ At(p, "sanitize") /\ Goto(p, "audit")
  /\ disk' = [disk EXCEPT ![p].traits = @ \ {"identity"}]
  /\ Same(<<out, iso, count, next, turn>>)

(* Mutant: accounts are not looked at. *)
AuditedAnyOwner(d) == "ready" \in d.traits /\ "identity" \notin d.traits

(* audit.sh *)
Audited(d) == d.traits = {"ready"}

Audit(p) ==
  /\ At(p, "audit")
  /\ \/ Audited(disk[p]) /\ Goto(p, "describe") /\ next' = [next EXCEPT ![p] = 1]
        /\ UNCHANGED <<disk, count, turn>>
     \/ ~ Audited(disk[p]) /\ End(p)
  /\ Same(<<out, iso>>)

(* extract-metadata.sh and write_provenance.py, file by file. The last one    *)
(* hashes the disk and the ISO as they are now.                              *)
Describe(p) ==
  /\ At(p, "describe") /\ (next[p] = Len(Described) => iso # Absent)
  /\ LET name == Described[next[p]]
     IN  out' = [out EXCEPT !.metadata[name] =
                   [disk |-> disk[p], iso |-> IF name = "provenance.json" THEN iso ELSE Absent]]
  /\ IF next[p] < Len(Described)
     THEN next' = [next EXCEPT ![p] = @ + 1] /\ UNCHANGED pc
     ELSE next' = [next EXCEPT ![p] = 1] /\ Goto(p, "compress")
  /\ Same(<<iso, disk, count, turn>>)

(* An ephemeral cache is emptied; zstd. *)
Compress(p) ==
  /\ At(p, "compress") /\ Goto(p, "split")
  /\ iso' \in {iso, Absent}
  /\ \E n \in 1 .. MaxParts : count' = [count EXCEPT ![p] = n]
  /\ Same(<<out, disk, next, turn>>)

(* split, part by part. *)
Split(p) ==
  /\ At(p, "split")
  /\ out' = [out EXCEPT !.parts[next[p]] = Part(disk[p], next[p], count[p])]
  /\ IF next[p] < count[p]
     THEN next' = [next EXCEPT ![p] = @ + 1] /\ UNCHANGED pc
     ELSE next' = [next EXCEPT ![p] = 1] /\ Goto(p, "manifest")
  /\ Same(<<iso, disk, count, turn>>)

(* The part files, in the order of their names. *)
Found(slots) == SelectSeq(slots, LAMBDA f : f # Absent)

(* write_manifest.py: the digests of the disk, of the stream, and of the parts *)
(* and the metadata that the directory holds, all of which must be there.     *)
WriteManifest(p) ==
  /\ At(p, "manifest") /\ Goto(p, "sums")
  /\ \A m \in METADATA : out.metadata[m] # Absent
  /\ out' = [out EXCEPT !.manifest =
       [factory |-> disk[p], transport |-> Stream(disk[p], count[p]),
        parts |-> Found(out.parts), metadata |-> out.metadata]]
  /\ Same(<<iso, disk, count, next, turn>>)

(* SHA256SUMS, and its check; the disk and the stream are gone by then.       *)
WriteSums(p) ==
  /\ At(p, "sums") /\ Goto(p, "verify")
  /\ out' = [out EXCEPT !.sums = [out EXCEPT !.sums = Absent]]
  /\ Same(<<iso, disk, count, next, turn>>)

-----------------------------------------------------------------------------
(* verify_release.py --verify-expanded: the parts are the manifest's, and      *)
(* joined they are its stream, and expanded its disk; and its metadata.       *)
Verified(d) ==
  /\ d.manifest \notin {Absent, Torn}
  /\ SubSeq(d.parts, 1, Len(d.manifest.parts)) = d.manifest.parts
  /\ d.manifest.parts = d.manifest.transport
  /\ d.manifest.parts # <<>> /\ d.manifest.parts[1].disk = d.manifest.factory
  /\ d.manifest.metadata = d.metadata

VerifyRelease(p) ==
  /\ At(p, "verify") /\ End(p)
  /\ Same(<<out, iso>>)

(* The ISO is gone from the cache: no command can read it. *)
IsoGone(p) ==
  /\ iso = Absent /\ \/ pc[p] \in {"verify-iso", "install"}
                     \/ At(p, "describe") /\ next[p] = Len(Described)
  /\ End(p) /\ Same(<<out, iso>>)

(* A file that a run was writing when it failed or was killed: cut short.     *)
CutShort(p) ==
  CASE At(p, "describe") -> [out EXCEPT !.metadata[Described[next[p]]] = Torn]
    [] At(p, "split")    -> [out EXCEPT !.parts[next[p]] = Torn]
    [] At(p, "manifest") -> [out EXCEPT !.manifest = Torn]
    [] At(p, "sums")     -> [out EXCEPT !.sums = Torn]
    [] OTHER -> out

(* Any command fails: download, QEMU or its time limit, guestfish, zstd...     *)
Fail(p) ==
  /\ ~ At(p, "idle") /\ faults < MaxFaults /\ faults' = faults + 1
  /\ out' \in {out, CutShort(p)} /\ End(p)
  /\ UNCHANGED <<iso, kills>>

Kill(p) ==
  /\ ~ At(p, "idle") /\ kills < MaxKills /\ kills' = kills + 1
  /\ out' \in {out, CutShort(p)} /\ End(p)
  /\ UNCHANGED <<iso, faults>>

(* The ISO decays in the cache, while no builder is at work. *)
Decay ==
  /\ \A p \in Builders : At(p, "idle")
  /\ iso = "pinned" /\ faults < MaxFaults /\ faults' = faults + 1
  /\ iso' = "other" /\ UNCHANGED <<out, local, kills>>

(* A build with another output directory and the same cache is told to keep   *)
(* no ISO, and removes it, also while this one wants it.                     *)
EmptyCache ==
  /\ iso # Absent /\ faults < MaxFaults /\ faults' = faults + 1
  /\ iso' = Absent /\ UNCHANGED <<out, local, kills>>

(* What a run that ends well leaves, and a run killed while it verified.      *)
Candidate ==
  Verified(out) /\ out.sums \notin {Absent, Torn} /\ out.sums = [out EXCEPT !.sums = Absent]

(* No script removes what a run left, or an ISO that is no good: a person does. *)
CleanUp ==
  /\ \A p \in Builders : At(p, "idle")
  /\ ~ Candidate /\ (out # Empty \/ iso = "other")
  /\ out' = Empty /\ iso' = IF iso = "other" THEN Absent ELSE iso
  /\ UNCHANGED <<local, faults, kills>>

Step(p) ==
  \/ CheckOutput(p) \/ FetchIso(p) \/ VerifyIso(p) \/ Install(p) \/ Sanitize(p)
  \/ Audit(p) \/ Describe(p) \/ Compress(p) \/ Split(p) \/ WriteManifest(p)
  \/ WriteSums(p) \/ VerifyRelease(p) \/ IsoGone(p)

Next ==
  \/ \E p \in Builders : Start(p) \/ Step(p) \/ Fail(p) \/ Kill(p)
  \/ Decay \/ EmptyCache \/ CleanUp

(* Commands end; a person who has no candidate cleans up and runs it again.    *)
Spec ==
  /\ Init /\ [][Next]_vars /\ SF_vars(CleanUp)
  /\ \A p \in Builders : WF_vars(Step(p)) /\ WF_vars(Start(p))

-----------------------------------------------------------------------------
(* Types; a run that has ended keeps no disk. *)
TypeOK ==
  /\ DOMAIN out.metadata = METADATA /\ Len(out.parts) = MaxParts
  /\ iso \in {Absent, "pinned", "other"}
  /\ disk \in [Builders -> Disks \cup {Absent}]
  /\ count \in [Builders -> 1 .. MaxParts] /\ next \in [Builders -> Nat \ {0}]
  /\ \A p \in Builders : At(p, "idle") => disk[p] = Absent

(* Types; and whatever verify_release.py would accept of one builder's output,  *)
(* asked at any moment and after any failure, is one audited disk: deferred,    *)
(* unowned, without identity, its parts, inventory and provenance all its own,  *)
(* made from the pinned ISO.                                                 *)
AcceptedIsOneBuild ==
  /\ TypeOK
  /\ Verified(out) =>
       /\ out.manifest.factory.traits = {"ready"}
       /\ \A i \in 1 .. Len(out.manifest.parts) : out.parts[i].disk = out.manifest.factory
       /\ \A m \in METADATA : out.metadata[m].disk = out.manifest.factory
       /\ out.metadata["provenance.json"].iso = "pinned"

(* After failures, kills and bad installs there is a candidate in the end.     *)
CandidateArrives == <>Candidate
=============================================================================
