----------------------------- MODULE BuildsProofs -----------------------------
(***************************************************************************)
(* Proofs about the three builds, for any number of parts, of processes and  *)
(* of failures, kills and edits: what verifies is one complete, audited      *)
(* build, the image and the archive are whole, and finished work stays.      *)
(***************************************************************************)
EXTENDS MCBuilds, SequenceTheorems, TLAPS

-----------------------------------------------------------------------------
(* The factory disk. What an output directory may hold. *)
IsoFiles == {Absent, "pinned", "other"}
MetaFiles == [disk : Disks, iso : IsoFiles]
PartFiles == [disk : Disks, index : Nat, of : Nat]

Labels == {"idle", "output", "iso", "verify-iso", "install", "sanitize", "audit", "describe",
           "compress", "split", "manifest", "sums", "verify"}

(* Labels at which a builder has a disk. *)
WithDisk == {"sanitize", "audit", "describe", "compress", "split", "manifest", "sums", "verify"}

(* The directory has its four places. *)
OutputShape ==
  /\ out = [metadata |-> out.metadata, parts |-> out.parts,
            manifest |-> out.manifest, sums |-> out.sums]
  /\ out.metadata \in [METADATA -> MetaFiles \cup {Absent, Torn}]
  /\ out.parts \in [1 .. MaxParts -> PartFiles \cup {Absent, Torn}]

(* A builder's own variables, and where it may be in a list of files. *)
BuilderTypes ==
  /\ iso \in IsoFiles
  /\ pc \in [Builders -> Labels]
  /\ disk \in [Builders -> Disks \cup {Absent}]
  /\ count \in [Builders -> 1 .. MaxParts]
  /\ next \in [Builders -> Nat \ {0}]
  /\ turn \in [Builders -> 0 .. 1]
  /\ \A p \in Builders :
       /\ pc[p] = "idle" => disk[p] = Absent
       /\ pc[p] \in WithDisk => disk[p] \in Disks
       /\ pc[p] = "describe" => next[p] <= 6
       /\ pc[p] \in {"compress", "manifest"} => next[p] = 1
       /\ pc[p] = "split" => next[p] <= count[p]

GuestTypes == OutputShape /\ BuilderTypes

(* The names, counted. *)
LEMMA Names6 ==
  /\ Len(Described) = 6
  /\ METADATA = {Described[j] : j \in 1 .. 6}
  /\ \A j \in 1 .. 6 : Described[j] \in METADATA
  /\ Described[6] = "provenance.json"
<1>1. Len(Described) = 6 /\ Described[6] = "provenance.json"
  BY DEF Described
<1> QED
  BY <1>1 DEF METADATA

LEMMA GuestInitTypes == Init => GuestTypes
<1> SUFFICES ASSUME Init PROVE GuestTypes
  OBVIOUS
<1>1. MaxParts \in Nat \ {0}
  BY GuestBuildAssumption
<1>2. OutputShape
  BY <1>1 DEF Init, Empty, OutputShape
<1>3. BuilderTypes
  BY <1>1 DEF Init, BuilderTypes, IsoFiles, Labels, WithDisk
<1> QED
  BY <1>2, <1>3 DEF GuestTypes

(* The end of a run, which most failures are. *)
LEMMA EndTypes ==
  ASSUME GuestTypes, NEW p \in Builders, End(p), iso' \in IsoFiles
  PROVE  BuilderTypes'
<1>1. MaxParts \in Nat \ {0}
  BY GuestBuildAssumption
<1> QED
  BY <1>1 DEF GuestTypes, BuilderTypes, End, Goto, Labels, WithDisk

LEMMA ShapeKept ==
  ASSUME GuestTypes, UNCHANGED out
  PROVE  OutputShape'
BY DEF GuestTypes, OutputShape

(* One of the four places changes, for a file of its kind or the remains of one. *)
LEMMA MetadataShape ==
  ASSUME GuestTypes, NEW m \in METADATA, NEW f \in MetaFiles \cup {Absent, Torn},
         out' = [out EXCEPT !.metadata[m] = f]
  PROVE  OutputShape'
BY DEF GuestTypes, OutputShape

LEMMA PartShape ==
  ASSUME GuestTypes, NEW i \in 1 .. MaxParts, NEW f \in PartFiles \cup {Absent, Torn},
         out' = [out EXCEPT !.parts[i] = f]
  PROVE  OutputShape'
BY DEF GuestTypes, OutputShape

LEMMA ManifestShape ==
  ASSUME GuestTypes, NEW m, out' = [out EXCEPT !.manifest = m]
  PROVE  OutputShape'
BY DEF GuestTypes, OutputShape

LEMMA SumsShape ==
  ASSUME GuestTypes, NEW m, out' = [out EXCEPT !.sums = m]
  PROVE  OutputShape'
BY DEF GuestTypes, OutputShape

LEMMA CutShape ==
  ASSUME GuestTypes, NEW p \in Builders, out' \in {out, CutShort(p)}
  PROVE  OutputShape'
<1>1. CASE out' = out
  BY <1>1, ShapeKept
<1>2. CASE out' = CutShort(p)
  <2>1. CASE At(p, "describe")
    <3>1. out' = [out EXCEPT !.metadata[Described[next[p]]] = Torn]
      BY <1>2, <2>1 DEF CutShort, At
    <3>2. next[p] \in 1 .. 6
      BY <2>1 DEF GuestTypes, BuilderTypes, At
    <3> QED
      BY <3>1, <3>2, Names6, MetadataShape
  <2>2. CASE At(p, "split")
    <3>1. out' = [out EXCEPT !.parts[next[p]] = Torn]
      BY <1>2, <2>2 DEF CutShort, At
    <3>2. next[p] \in 1 .. MaxParts
      BY <2>2, GuestBuildAssumption DEF GuestTypes, BuilderTypes, At
    <3> QED
      BY <3>1, <3>2, PartShape
  <2>3. CASE At(p, "manifest")
    <3>1. out' = [out EXCEPT !.manifest = Torn]
      BY <1>2, <2>3 DEF CutShort, At
    <3> QED
      BY <3>1, ManifestShape
  <2>4. CASE At(p, "sums")
    <3>1. out' = [out EXCEPT !.sums = Torn]
      BY <1>2, <2>4 DEF CutShort, At
    <3> QED
      BY <3>1, SumsShape
  <2>5. CASE ~ At(p, "describe") /\ ~ At(p, "split") /\ ~ At(p, "manifest") /\ ~ At(p, "sums")
    <3>1. out' = out
      BY <1>2, <2>5 DEF CutShort, At
    <3> QED
      BY <3>1, ShapeKept
  <2> QED
    BY <2>1, <2>2, <2>3, <2>4, <2>5
<1> QED
  BY <1>1, <1>2

LEMMA GuestStepTypes ==
  ASSUME GuestTypes, NEW p \in Builders, Step(p)
  PROVE  GuestTypes'
<1>0. MaxParts \in Nat \ {0}
  BY GuestBuildAssumption
<1>1. CASE CheckOutput(p) \/ VerifyIso(p) \/ VerifyRelease(p) \/ IsoGone(p)
  <2>1. UNCHANGED <<out, iso>>
    BY <1>1 DEF CheckOutput, VerifyIso, VerifyRelease, IsoGone, Same
  <2>2. CASE End(p)
    BY <2>1, <2>2, EndTypes, ShapeKept DEF GuestTypes, BuilderTypes
  <2>3. CASE ~ End(p)
    <3>1. UNCHANGED <<disk, count, next, turn>> /\ pc[p] \in {"output", "verify-iso"}
          /\ pc' \in {[pc EXCEPT ![p] = "iso"], [pc EXCEPT ![p] = "install"]}
      BY <1>1, <2>3 DEF CheckOutput, VerifyIso, VerifyRelease, IsoGone, Same, At, Goto
    <3>2. BuilderTypes'
      BY <2>1, <3>1 DEF GuestTypes, BuilderTypes, Labels, WithDisk
    <3> QED
      BY <3>2, <2>1, ShapeKept DEF GuestTypes
  <2> QED
    BY <2>2, <2>3
<1>2. CASE FetchIso(p)
  <2>1. BuilderTypes'
    BY <1>2 DEF FetchIso, Same, At, Goto, GuestTypes, BuilderTypes, Labels, WithDisk, IsoFiles
  <2> QED
    BY <1>2, <2>1, ShapeKept DEF FetchIso, Same, GuestTypes
<1>3. CASE Install(p)
  <2>1. PICK t \in SUBSET Traits :
          disk' = [disk EXCEPT ![p] = [by |-> p, turn |-> turn[p], traits |-> t]]
    BY <1>3 DEF Install
  <2>2. [by |-> p, turn |-> turn[p], traits |-> t] \in Disks
    BY DEF Disks, GuestTypes, BuilderTypes
  <2>3. BuilderTypes'
    BY <1>3, <2>1, <2>2 DEF Install, At, Goto, GuestTypes, BuilderTypes, Labels, WithDisk
  <2> QED
    BY <1>3, <2>3, ShapeKept DEF Install, GuestTypes
<1>4. CASE Sanitize(p)
  <2>1. disk[p] \in Disks
    BY <1>4 DEF Sanitize, At, GuestTypes, BuilderTypes, WithDisk
  <2>2. [disk[p] EXCEPT !.traits = @ \ {"identity"}] \in Disks
    BY <2>1 DEF Disks
  <2>3. disk' = [disk EXCEPT ![p] = [disk[p] EXCEPT !.traits = @ \ {"identity"}]]
    BY <1>4 DEF Sanitize
  <2>4. BuilderTypes'
    BY <1>4, <2>2, <2>3 DEF Sanitize, Same, At, Goto, GuestTypes, BuilderTypes, Labels, WithDisk
  <2> QED
    BY <1>4, <2>4, ShapeKept DEF Sanitize, Same, GuestTypes
<1>5. CASE Audit(p)
  <2>1. UNCHANGED <<out, iso>>
    BY <1>5 DEF Audit, Same
  <2>2. CASE End(p)
    BY <2>1, <2>2, EndTypes, ShapeKept DEF GuestTypes, BuilderTypes
  <2>3. CASE ~ End(p)
    <3>1. BuilderTypes'
      BY <1>5, <2>1, <2>3 DEF Audit, At, Goto, GuestTypes, BuilderTypes, Labels, WithDisk
    <3> QED
      BY <3>1, <2>1, ShapeKept DEF GuestTypes
  <2> QED
    BY <2>2, <2>3
<1>6. CASE Describe(p)
  <2>1. next[p] \in 1 .. 6 /\ disk[p] \in Disks /\ iso \in IsoFiles
    BY <1>6 DEF Describe, At, GuestTypes, BuilderTypes, WithDisk
  <2>2. Described[next[p]] \in METADATA
    BY <2>1, Names6
  <2>3. PICK f \in MetaFiles : out' = [out EXCEPT !.metadata[Described[next[p]]] = f]
    <3> DEFINE g == [disk |-> disk[p],
                     iso |-> IF Described[next[p]] = "provenance.json" THEN iso ELSE Absent]
    <3>1. g \in MetaFiles
      BY <2>1 DEF MetaFiles, IsoFiles
    <3>2. out' = [out EXCEPT !.metadata[Described[next[p]]] = g]
      BY <1>6 DEF Describe
    <3> QED
      BY <3>1, <3>2
  <2>4. OutputShape'
    BY <2>2, <2>3, MetadataShape
  <2>5. BuilderTypes'
    BY <1>6, <2>1, Names6
    DEF Describe, Same, At, Goto, GuestTypes, BuilderTypes, Labels, WithDisk
  <2> QED
    BY <2>4, <2>5 DEF GuestTypes
<1>7. CASE Compress(p)
  <2>1. BuilderTypes'
    BY <1>0, <1>7 DEF Compress, Same, At, Goto, GuestTypes, BuilderTypes, Labels, WithDisk, IsoFiles
  <2> QED
    BY <1>7, <2>1, ShapeKept DEF Compress, Same, GuestTypes
<1>8. CASE Split(p)
  <2>1. next[p] \in 1 .. MaxParts /\ disk[p] \in Disks /\ count[p] \in Nat
    BY <1>0, <1>8 DEF Split, At, GuestTypes, BuilderTypes, WithDisk
  <2>2. Part(disk[p], next[p], count[p]) \in PartFiles
    BY <2>1 DEF Part, PartFiles
  <2>3. OutputShape'
    BY <1>8, <2>1, <2>2, PartShape DEF Split
  <2>4. BuilderTypes'
    BY <1>0, <1>8, <2>1 DEF Split, Same, At, Goto, GuestTypes, BuilderTypes, Labels, WithDisk
  <2> QED
    BY <2>3, <2>4 DEF GuestTypes
<1>9. CASE WriteManifest(p) \/ WriteSums(p)
  <2>1. PICK m : out' = [out EXCEPT !.manifest = m] \/ out' = [out EXCEPT !.sums = m]
    BY <1>9 DEF WriteManifest, WriteSums
  <2>2. OutputShape'
    BY <2>1, ManifestShape, SumsShape
  <2>3. UNCHANGED <<iso, disk, count, next, turn>>
        /\ \/ pc[p] = "manifest" /\ pc' = [pc EXCEPT ![p] = "sums"]
           \/ pc[p] = "sums" /\ pc' = [pc EXCEPT ![p] = "verify"]
    BY <1>9 DEF WriteManifest, WriteSums, Same, At, Goto
  <2>4. BuilderTypes'
    BY <2>3 DEF GuestTypes, BuilderTypes, Labels, WithDisk
  <2> QED
    BY <2>2, <2>4 DEF GuestTypes
<1> QED
  BY <1>1, <1>2, <1>3, <1>4, <1>5, <1>6, <1>7, <1>8, <1>9 DEF Step

LEMMA GuestNextTypes == GuestTypes /\ [Next]_vars => GuestTypes'
<1> SUFFICES ASSUME GuestTypes, [Next]_vars PROVE GuestTypes'
  OBVIOUS
<1>0. MaxParts \in Nat \ {0}
  BY GuestBuildAssumption
<1>1. ASSUME NEW p \in Builders, Start(p) PROVE GuestTypes'
  <2>1. BuilderTypes'
    BY <1>1 DEF Start, Same, At, Goto, GuestTypes, BuilderTypes, Labels, WithDisk
  <2> QED
    BY <1>1, <2>1, ShapeKept DEF Start, Same, GuestTypes
<1>2. ASSUME NEW p \in Builders, Step(p) PROVE GuestTypes'
  BY <1>2, GuestStepTypes
<1>3. ASSUME NEW p \in Builders, Fail(p) \/ Kill(p) PROVE GuestTypes'
  <2>1. out' \in {out, CutShort(p)} /\ End(p) /\ iso' = iso
    BY <1>3 DEF Fail, Kill
  <2> QED
    BY <2>1, EndTypes, CutShape DEF GuestTypes, BuilderTypes
<1>4. CASE Decay \/ EmptyCache
  <2>1. BuilderTypes'
    BY <1>4 DEF Decay, EmptyCache, local, GuestTypes, BuilderTypes, IsoFiles
  <2> QED
    BY <1>4, <2>1, ShapeKept DEF Decay, EmptyCache, GuestTypes
<1>5. CASE CleanUp
  <2>1. BuilderTypes'
    BY <1>5 DEF CleanUp, local, GuestTypes, BuilderTypes, IsoFiles
  <2>2. OutputShape'
    BY <1>5, <1>0 DEF CleanUp, Empty, OutputShape
  <2> QED
    BY <2>1, <2>2 DEF GuestTypes
<1>6. CASE UNCHANGED vars
  <2>1. BuilderTypes'
    BY <1>6 DEF vars, local, GuestTypes, BuilderTypes
  <2> QED
    BY <1>6, <2>1, ShapeKept DEF vars, GuestTypes
<1> QED
  BY <1>1, <1>2, <1>3, <1>4, <1>5, <1>6 DEF Next

(* The part files are a sequence of MaxParts places. *)
LEMMA PartsLength ==
  ASSUME GuestTypes
  PROVE  out.parts \in Seq(PartFiles \cup {Absent, Torn}) /\ Len(out.parts) = MaxParts
<1>1. MaxParts \in Nat /\ out.parts \in [1 .. MaxParts -> PartFiles \cup {Absent, Torn}]
  BY GuestBuildAssumption DEF GuestTypes, OutputShape
<1>2. out.parts \in Seq(PartFiles \cup {Absent, Torn})
  BY <1>1, SeqDef
<1>3. DOMAIN out.parts = 1 .. Len(out.parts) /\ Len(out.parts) \in Nat
  BY <1>2, LenProperties
<1>4. 1 .. Len(out.parts) = 1 .. MaxParts
  BY <1>1, <1>3
<1> QED
  BY <1>1, <1>2, <1>3, <1>4

LEMMA GuestTypeOK == GuestTypes => TypeOK
<1> SUFFICES ASSUME GuestTypes PROVE TypeOK
  OBVIOUS
<1>1. DOMAIN out.metadata = METADATA
  BY DEF GuestTypes, OutputShape
<1> QED
  BY <1>1, PartsLength DEF GuestTypes, BuilderTypes, TypeOK, IsoFiles, At

(* TypeOK of the factory disk's builders, any number of them. *)
THEOREM GuestTypeCorrect == Spec => []TypeOK
<1>1. Spec => []GuestTypes
  BY GuestInitTypes, GuestNextTypes, PTL DEF Spec
<1> QED
  BY <1>1, GuestTypeOK, PTL

-----------------------------------------------------------------------------
(* One builder with an output directory of its own, as build.sh asks for.     *)
OneBuilder == \A p, q \in Builders : p = q

(* The metadata is one disk's, made from the pinned ISO. *)
MetadataOf(d, metadata) ==
  /\ \A m \in METADATA : metadata[m].disk = d
  /\ metadata["provenance.json"].iso = "pinned"

(* Whatever manifest there is was written by a build that had an audited disk  *)
(* and described nothing else, although its parts may have been cut short or  *)
(* removed since.                                                           *)
ManifestSound ==
  out.manifest \notin {Absent, Torn} =>
    /\ out.manifest.factory.traits = {"ready"}
    /\ MetadataOf(out.manifest.factory, out.manifest.metadata)
    /\ \E n \in 1 .. MaxParts : out.manifest.transport = Stream(out.manifest.factory, n)

(* What a builder knows of the directory that it found empty. *)
Early == {"iso", "verify-iso", "install", "sanitize", "audit"}

Progress ==
  \A p \in Builders :
    /\ pc[p] \in Early => out = Empty
    /\ pc[p] \in {"install", "sanitize", "audit", "describe"} => iso \in {"pinned", Absent}
    /\ pc[p] \in {"describe", "compress", "split", "manifest"} =>
         disk[p].traits = {"ready"} /\ out.manifest = Absent
    /\ pc[p] = "describe" =>
         \A j \in 1 .. 6 : j < next[p] => out.metadata[Described[j]].disk = disk[p]
    /\ pc[p] \in {"compress", "split", "manifest"} => MetadataOf(disk[p], out.metadata)
    /\ pc[p] \in {"describe", "compress", "split", "manifest", "sums"} => out.sums = Absent

GuestInv == GuestTypes /\ ManifestSound /\ Progress

LEMMA GuestInit == Init => GuestInv
<1> SUFFICES ASSUME Init PROVE GuestInv
  OBVIOUS
<1>1. ManifestSound
  BY DEF Init, Empty, ManifestSound
<1>2. Progress
  BY DEF Init, Progress, Early
<1> QED
  BY <1>1, <1>2, GuestInitTypes DEF GuestInv

(* Nothing is said of a builder that has ended or not begun. *)
LEMMA NothingKnown ==
  ASSUME NEW p \in Builders, OneBuilder, pc'[p] \in {"idle", "output", "verify"}
  PROVE  Progress'
BY DEF OneBuilder, Progress, Early

LEMMA ManifestKept ==
  ASSUME ManifestSound, out'.manifest = out.manifest
  PROVE  ManifestSound'
BY DEF ManifestSound, MetadataOf

LEMMA CutKeepsManifest ==
  ASSUME GuestInv, NEW p \in Builders, out' \in {out, CutShort(p)}
  PROVE  ManifestSound'
<1>1. CASE out'.manifest = out.manifest
  BY <1>1, ManifestKept DEF GuestInv
<1>2. CASE out'.manifest # out.manifest
  <2>1. out' = CutShort(p)
    BY <1>2
  <2>2. out = [metadata |-> out.metadata, parts |-> out.parts,
               manifest |-> out.manifest, sums |-> out.sums]
    BY DEF GuestInv, GuestTypes, OutputShape
  <2>3. out'.manifest = Torn
    BY <1>2, <2>1, <2>2 DEF CutShort
  <2> QED
    BY <2>3 DEF ManifestSound
<1> QED
  BY <1>1, <1>2

LEMMA GuestStep ==
  ASSUME GuestInv, OneBuilder, NEW p \in Builders, Step(p)
  PROVE  ManifestSound' /\ Progress'
<1> USE DEF OneBuilder
<1>0. /\ pc \in [Builders -> Labels] /\ disk \in [Builders -> Disks \cup {Absent}]
      /\ next \in [Builders -> Nat \ {0}] /\ count \in [Builders -> 1 .. MaxParts]
      /\ out = [metadata |-> out.metadata, parts |-> out.parts,
                manifest |-> out.manifest, sums |-> out.sums]
      /\ out.metadata \in [METADATA -> MetaFiles \cup {Absent, Torn}]
  BY DEF GuestInv, GuestTypes, BuilderTypes, OutputShape
<1>q. \A q \in Builders : q = p
  OBVIOUS
<1>k. ManifestSound /\ Progress
  BY DEF GuestInv
<1>1. CASE CheckOutput(p) \/ VerifyRelease(p) \/ IsoGone(p)
  <2>1. out' = out
    BY <1>1 DEF CheckOutput, VerifyRelease, IsoGone, Same
  <2>2. pc'[p] = "idle" \/ (pc'[p] = "iso" /\ out = Empty)
    BY <1>0, <1>1 DEF CheckOutput, VerifyRelease, IsoGone, At, Goto, End
  <2>3. CASE pc'[p] = "idle"
    BY <1>k, <2>1, <2>3, NothingKnown, ManifestKept
  <2>4. CASE pc'[p] = "iso" /\ out = Empty
    <3>1. Progress'
      BY <1>q, <2>1, <2>4 DEF Progress, Early
    <3> QED
      BY <1>k, <2>1, <3>1, ManifestKept
  <2> QED
    BY <2>2, <2>3, <2>4
<1>2. CASE FetchIso(p) \/ VerifyIso(p) \/ Install(p) \/ Sanitize(p)
  <2>1. out' = out
    BY <1>2 DEF FetchIso, VerifyIso, Install, Sanitize, Same
  <2>2. pc'[p] \in {"verify-iso", "install", "idle", "sanitize", "audit"} /\ pc[p] \in Early
    BY <1>0, <1>2 DEF FetchIso, VerifyIso, Install, Sanitize, At, Goto, End, Early
  <2>3. out = Empty
    BY <1>k, <2>2 DEF Progress
  <2>4. pc'[p] \in {"install", "sanitize", "audit"} => iso' \in {"pinned", Absent}
    <3>1. CASE FetchIso(p)
      BY <1>0, <3>1 DEF FetchIso, At, Goto
    <3>2. CASE VerifyIso(p)
      BY <1>0, <3>2 DEF VerifyIso, At, Goto, End, Same
    <3>3. CASE Install(p) \/ Sanitize(p)
      BY <1>k, <3>3 DEF Install, Sanitize, At, Same, Progress
    <3> QED
      BY <1>2, <3>1, <3>2, <3>3
  <2>5. Progress'
    BY <1>q, <2>1, <2>2, <2>3, <2>4 DEF Progress, Early
  <2> QED
    BY <1>k, <2>1, <2>5, ManifestKept
<1>3. CASE Audit(p)
  <2>1. out' = out /\ out = Empty /\ iso' = iso /\ iso \in {"pinned", Absent}
    BY <1>3, <1>k DEF Audit, Same, At, Progress, Early
  <2>2. CASE End(p)
    <3>1. pc'[p] = "idle"
      BY <1>0, <2>2 DEF End, Goto
    <3> QED
      BY <1>k, <2>1, <3>1, NothingKnown, ManifestKept
  <2>3. CASE Audited(disk[p]) /\ Goto(p, "describe") /\ next' = [next EXCEPT ![p] = 1]
             /\ UNCHANGED <<disk, count, turn>>
    <3>1. pc'[p] = "describe" /\ next'[p] = 1 /\ disk'[p] = disk[p] /\ disk[p].traits = {"ready"}
      BY <1>0, <2>3 DEF Goto, Audited
    <3>2. out'.manifest = Absent /\ out'.sums = Absent
      BY <2>1 DEF Empty
    <3>3. Progress'
      BY <1>q, <2>1, <3>1, <3>2 DEF Progress, Early
    <3> QED
      BY <1>k, <2>1, <3>3, ManifestKept
  <2> QED
    BY <1>3, <2>2, <2>3 DEF Audit
<1>4. CASE Describe(p)
  <2>1. /\ pc[p] = "describe" /\ next[p] \in 1 .. 6
        /\ disk' = disk /\ iso' = iso /\ iso \in {"pinned", Absent}
        /\ (next[p] = 6 => iso = "pinned")
        /\ disk[p].traits = {"ready"} /\ out.manifest = Absent /\ out.sums = Absent
        /\ \A j \in 1 .. 6 : j < next[p] => out.metadata[Described[j]].disk = disk[p]
    BY <1>4, <1>k, Names6 DEF Describe, Same, At, Progress, GuestInv, GuestTypes, BuilderTypes
  <2> DEFINE name == Described[next[p]]
             file == [disk |-> disk[p], iso |-> IF name = "provenance.json" THEN iso ELSE Absent]
  <2>2. out' = [out EXCEPT !.metadata[name] = file] /\ name \in METADATA
    BY <1>4, <2>1, Names6 DEF Describe
  <2> HIDE DEF file
  <2>3. /\ out'.manifest = out.manifest /\ out'.sums = out.sums
        /\ out'.metadata = [out.metadata EXCEPT ![name] = file]
    BY <1>0, <2>2
  <2>4. file.disk = disk[p] /\ (next[p] = 6 => file.iso = "pinned")
    BY <2>1, Names6 DEF file
  <2>5. \A j \in 1 .. 6 : j <= next[p] => out'.metadata[Described[j]].disk = disk[p]
    <3>1. SUFFICES ASSUME NEW j \in 1 .. 6, j <= next[p]
                   PROVE  out'.metadata[Described[j]].disk = disk[p]
      OBVIOUS
    <3>2. CASE Described[j] = name
      BY <1>0, <2>2, <2>3, <2>4, <3>2
    <3>3. CASE Described[j] # name
      <4>1. j < next[p] /\ Described[j] \in METADATA
        BY <2>1, <3>1, <3>3, Names6
      <4> QED
        BY <1>0, <2>1, <2>3, <3>3, <4>1
    <3> QED
      BY <3>2, <3>3
  <2>6. CASE next[p] < 6
    <3>1. pc'[p] = "describe" /\ next'[p] = next[p] + 1
      BY <1>0, <1>4, <2>1, <2>6, Names6 DEF Describe
    <3>2. \A j \in 1 .. 6 : j < next'[p] => out'.metadata[Described[j]].disk = disk'[p]
      BY <2>1, <2>5, <3>1
    <3>3. Progress'
      BY <1>q, <2>1, <2>3, <3>1, <3>2 DEF Progress, Early
    <3> QED
      BY <1>k, <2>3, <3>3, ManifestKept
  <2>7. CASE next[p] = 6
    <3>1. pc'[p] = "compress"
      BY <1>0, <1>4, <2>1, <2>7, Names6 DEF Describe, Goto
    <3>2. \A m \in METADATA : out'.metadata[m].disk = disk'[p]
      BY <2>1, <2>5, <2>7, Names6
    <3>3. out'.metadata["provenance.json"].iso = "pinned"
      BY <1>0, <2>2, <2>3, <2>4, <2>7, Names6
    <3>4. Progress'
      BY <1>q, <2>1, <2>3, <3>1, <3>2, <3>3 DEF Progress, Early, MetadataOf
    <3> QED
      BY <1>k, <2>3, <3>4, ManifestKept
  <2> QED
    BY <2>1, <2>6, <2>7
<1>5. CASE Compress(p)
  <2>1. /\ pc[p] = "compress" /\ pc'[p] = "split" /\ disk' = disk /\ out' = out
    BY <1>0, <1>5 DEF Compress, Same, At, Goto
  <2>2. Progress'
    BY <1>k, <1>q, <2>1 DEF Progress, Early, MetadataOf
  <2> QED
    BY <1>k, <2>1, <2>2, ManifestKept
<1>6. CASE Split(p)
  <2>1. pc[p] = "split" /\ pc'[p] \in {"split", "manifest"} /\ disk' = disk
    BY <1>0, <1>6 DEF Split, Same, At, Goto
  <2>2. /\ out'.metadata = out.metadata /\ out'.manifest = out.manifest
        /\ out'.sums = out.sums
    BY <1>0, <1>6 DEF Split
  <2>3. Progress'
    BY <1>k, <1>q, <2>1, <2>2 DEF Progress, Early, MetadataOf
  <2> QED
    BY <1>k, <2>2, <2>3, ManifestKept
<1>7. CASE WriteManifest(p)
  <2>1. pc[p] = "manifest" /\ pc'[p] = "sums"
    BY <1>0, <1>7 DEF WriteManifest, At, Goto
  <2>2. /\ out'.manifest.factory = disk[p] /\ out'.manifest.metadata = out.metadata
        /\ out'.manifest.transport = Stream(disk[p], count[p]) /\ out'.sums = out.sums
    BY <1>0, <1>7 DEF WriteManifest
  <2>3. disk[p].traits = {"ready"} /\ MetadataOf(disk[p], out.metadata) /\ out.sums = Absent
    BY <1>k, <2>1 DEF Progress
  <2>4. ManifestSound'
    <3>1. count[p] \in 1 .. MaxParts
      BY <1>0
    <3> QED
      BY <2>2, <2>3, <3>1 DEF ManifestSound
  <2>5. Progress'
    BY <1>q, <2>1, <2>2, <2>3 DEF Progress, Early
  <2> QED
    BY <2>4, <2>5
<1>8. CASE WriteSums(p)
  <2>1. pc'[p] = "verify"
    BY <1>0, <1>8 DEF WriteSums, Goto
  <2>2. out'.manifest = out.manifest
    BY <1>0, <1>8 DEF WriteSums
  <2> QED
    BY <1>k, <2>1, <2>2, NothingKnown, ManifestKept
<1> QED
  BY <1>1, <1>2, <1>3, <1>4, <1>5, <1>6, <1>7, <1>8 DEF Step

LEMMA GuestNext == OneBuilder /\ GuestInv /\ [Next]_vars => GuestInv'
<1> SUFFICES ASSUME OneBuilder, GuestInv, [Next]_vars PROVE GuestInv'
  OBVIOUS
<1>0. GuestTypes' /\ pc \in [Builders -> Labels] /\ ManifestSound /\ Progress
  BY GuestNextTypes DEF GuestInv, GuestTypes, BuilderTypes
<1>1. ASSUME NEW p \in Builders, Start(p) PROVE ManifestSound' /\ Progress'
  <2>1. out' = out /\ pc'[p] = "output"
    BY <1>0, <1>1 DEF Start, Same, Goto
  <2> QED
    BY <1>0, <2>1, NothingKnown, ManifestKept
<1>2. ASSUME NEW p \in Builders, Step(p) PROVE ManifestSound' /\ Progress'
  BY <1>2, GuestStep
<1>3. ASSUME NEW p \in Builders, Fail(p) \/ Kill(p) PROVE ManifestSound' /\ Progress'
  <2>1. out' \in {out, CutShort(p)} /\ pc'[p] = "idle"
    BY <1>0, <1>3 DEF Fail, Kill, End, Goto
  <2> QED
    BY <2>1, CutKeepsManifest, NothingKnown
<1>4. CASE Decay
  <2>1. out' = out /\ pc' = pc /\ \A p \in Builders : pc[p] = "idle"
    BY <1>4 DEF Decay, local, At
  <2>2. Progress'
    BY <2>1 DEF Progress, Early
  <2> QED
    BY <1>0, <2>1, <2>2, ManifestKept DEF GuestInv
<1>5. CASE EmptyCache
  <2>1. UNCHANGED <<out, pc, disk, next>> /\ iso' = Absent
    BY <1>5 DEF EmptyCache, local
  <2>2. Progress'
    BY <1>0, <2>1 DEF Progress, Early, MetadataOf
  <2> QED
    BY <1>0, <2>1, <2>2, ManifestKept DEF GuestInv
<1>6. CASE CleanUp
  <2>1. out' = Empty /\ pc' = pc /\ \A p \in Builders : pc[p] = "idle"
    BY <1>6 DEF CleanUp, local, At
  <2>2. Progress'
    BY <2>1 DEF Progress, Early
  <2>3. ManifestSound'
    BY <2>1 DEF ManifestSound, Empty
  <2> QED
    BY <1>0, <2>2, <2>3 DEF GuestInv
<1>7. CASE UNCHANGED vars
  BY <1>0, <1>7 DEF vars, local, ManifestSound, Progress, MetadataOf, Early, GuestInv
<1> QED
  BY <1>0, <1>1, <1>2, <1>3, <1>4, <1>5, <1>6, <1>7 DEF Next, GuestInv

LEMMA SameInterval ==
  ASSUME NEW a \in Nat, NEW b \in Nat, 1 .. a = 1 .. b
  PROVE  a = b
OBVIOUS

LEMMA StreamLength ==
  ASSUME NEW d, NEW n \in Nat
  PROVE  Stream(d, n) \in Seq({Part(d, i, n) : i \in 1 .. n}) /\ Len(Stream(d, n)) = n
<1> DEFINE S == {Part(d, i, n) : i \in 1 .. n}
<1>1. Stream(d, n) \in [1 .. n -> S]
  BY DEF Stream
<1> HIDE DEF S
<1>2. Stream(d, n) \in Seq(S)
  BY <1>1, SeqDef
<1>3. DOMAIN Stream(d, n) = 1 .. Len(Stream(d, n)) /\ Len(Stream(d, n)) \in Nat
  BY <1>2, LenProperties
<1>4. 1 .. Len(Stream(d, n)) = 1 .. n
  BY <1>1, <1>3
<1>5. Len(Stream(d, n)) = n
  BY <1>3, <1>4, SameInterval
<1> QED
  BY <1>2, <1>5 DEF S

(* The verification needs no more than the manifest: the parts are compared    *)
(* with it, and it is one disk's.                                            *)
LEMMA VerifiedIsOne ==
  ASSUME GuestInv, Verified(out)
  PROVE  /\ out.manifest.factory.traits = {"ready"}
         /\ \A i \in 1 .. Len(out.manifest.parts) : out.parts[i].disk = out.manifest.factory
         /\ \A m \in METADATA : out.metadata[m].disk = out.manifest.factory
         /\ out.metadata["provenance.json"].iso = "pinned"
<1> DEFINE d == out.manifest.factory
<1>0. ManifestSound /\ out.manifest \notin {Absent, Torn}
  BY DEF GuestInv, Verified
<1>1. PICK n \in 1 .. MaxParts : out.manifest.transport = Stream(d, n)
  BY <1>0 DEF ManifestSound
<1>2. d.traits = {"ready"} /\ MetadataOf(d, out.metadata)
  BY <1>0 DEF ManifestSound, Verified
<1>3. out.manifest.parts = Stream(d, n) /\ SubSeq(out.parts, 1, Len(out.manifest.parts)) = Stream(d, n)
  BY <1>1 DEF Verified
<1>4. n \in Nat /\ n <= MaxParts /\ MaxParts \in Nat
  BY GuestBuildAssumption
<1>5. Len(out.manifest.parts) = n
  BY <1>3, <1>4, StreamLength
<1>6. out.parts \in Seq(PartFiles \cup {Absent, Torn}) /\ Len(out.parts) = MaxParts
  BY PartsLength DEF GuestInv
<1>7. SubSeq(out.parts, 1, n) = Stream(d, n)
  BY <1>3, <1>5
<1>8. \A i \in 1 .. n : SubSeq(out.parts, 1, n)[i] = out.parts[i]
  <2>1. \A i \in 1 .. n : out.parts[i] \in PartFiles \cup {Absent, Torn}
    BY <1>4 DEF GuestInv, GuestTypes, OutputShape
  <2>2. \A i \in 1 .. n - 1 + 1 : SubSeq(out.parts, 1, n)[i] = out.parts[1 + i - 1]
    BY <1>4, <2>1, SubSeqProperties
  <2> QED
    BY <1>4, <2>2
<1>9. \A i \in 1 .. n : out.parts[i].disk = d
  <2> SUFFICES ASSUME NEW i \in 1 .. n PROVE out.parts[i].disk = d
    OBVIOUS
  <2>1. out.parts[i] = Part(d, i, n)
    BY <1>7, <1>8 DEF Stream
  <2> QED
    BY <2>1 DEF Part
<1> QED
  BY <1>2, <1>5, <1>9 DEF MetadataOf

(* AcceptedIsOneBuild, for one builder that may run, fail, be killed and start *)
(* again any number of times, with any number of parts.                      *)
THEOREM OneBuildAccepted ==
  ASSUME OneBuilder
  PROVE  Spec => []AcceptedIsOneBuild
<1>1. Spec => []GuestInv
  BY GuestInit, GuestNext, PTL DEF Spec
<1>2. GuestInv => AcceptedIsOneBuild
  BY VerifiedIsOne, GuestTypeOK DEF GuestInv, AcceptedIsOneBuild
<1> QED
  BY <1>1, <1>2, PTL

-----------------------------------------------------------------------------
(* The configuration image and the package. P's variables are Package's, some  *)
(* under names of their own.                                                *)
Contents == P!Versions \cup {Absent, Link}
Images == [P!Configuration -> Contents]

Making == {"scan", "read", "mkstemp", "write", "replace"}
Packing == {"list", "clear", "copy", "zip", "sum"}
HasSources == {"mkstemp", "write", "replace"}

PackageTypes ==
  /\ P!TypeOK
  /\ edits \in 0 .. MaxEdits /\ packageKills \in Nat
  /\ packagePc \in [Procs -> {"idle"} \cup Making \cup Packing]

(* The tree is the developer's only while nobody is at work, so what a writer   *)
(* has read is what the tree still holds.                                    *)
ImageCurrent ==
  /\ image \in Images
  /\ made => image = P!Built
  /\ \A p \in Procs : packagePc[p] \in HasSources => payloads[p] = P!Built

PackageInv == PackageTypes /\ ImageCurrent

LEMMA PackageInitInv == P!Init => PackageInv
<1> SUFFICES ASSUME P!Init PROVE PackageInv
  OBVIOUS
<1>0. MaxEdits \in Nat /\ 0 \in P!Versions
  BY BuildsAssumption DEF P!PackageAssumption, P!Versions
<1>1. tree \in [P!Names -> Contents]
  BY <1>0 DEF P!Init, Contents
<1>2. P!TypeOK
  <2>1. payloads \in [Procs -> [P!Configuration -> Contents]]
    BY DEF P!Init, Contents
  <2>2. DOMAIN stage = P!Packed /\ files \in [Procs -> SUBSET P!Packed]
    BY DEF P!Init, P!NoFiles
  <2>3. litter = FALSE /\ made = TRUE /\ job \in [Procs -> {"make", "package"}]
    BY DEF P!Init
  <2> QED
    BY <1>1, <2>1, <2>2, <2>3 DEF P!TypeOK, Contents
<1>3. PackageTypes
  BY <1>0, <1>2 DEF P!Init, PackageTypes
<1>4. P!Built \in Images
  BY <1>1 DEF P!Built, Images, P!Names
<1>5. ImageCurrent
  BY <1>4 DEF P!Init, ImageCurrent, HasSources
<1> QED
  BY <1>3, <1>5 DEF PackageInv

(* What the next file of a list is, if there is any. *)
LEMMA FirstIn == ASSUME NEW S, S # {} PROVE P!First(S) \in S
BY DEF P!First

LEMMA SourcesKept ==
  ASSUME ImageCurrent, tree' = tree, image' = image, made' = made, payloads' = payloads,
         \A p \in Procs : packagePc'[p] \in HasSources => packagePc[p] \in HasSources
  PROVE  ImageCurrent'
BY DEF ImageCurrent, P!Built

LEMMA PackageFrame ==
  ASSUME PackageTypes,
         UNCHANGED <<tree, litter, made, job, payloads, edits, packageKills>>,
         files' \in [Procs -> SUBSET P!Packed], DOMAIN stage' = P!Packed,
         packagePc' \in [Procs -> {"idle"} \cup Making \cup Packing]
  PROVE  PackageTypes'
BY DEF PackageTypes, P!TypeOK

LEMMA PackageNextInv == PackageInv /\ [P!Next]_(P!vars) => PackageInv'
<1> SUFFICES ASSUME PackageInv, [P!Next]_(P!vars) PROVE PackageInv'
  OBVIOUS
<1>0. /\ MaxEdits \in Nat /\ packagePc \in [Procs -> {"idle"} \cup Making \cup Packing]
      /\ ImageCurrent /\ PackageTypes /\ P!TypeOK
  BY BuildsAssumption DEF P!PackageAssumption, PackageInv, PackageTypes
<1>1. ASSUME NEW p \in Procs, P!Start(p) PROVE PackageInv'
  <2>1. PackageTypes'
    BY <1>0, <1>1 DEF P!Start, P!bounds, P!At, P!Goto, PackageTypes, P!TypeOK, P!Versions, Making
  <2>2. ImageCurrent'
    BY <1>0, <1>1, SourcesKept DEF P!Start, P!Goto, HasSources
  <2> QED
    BY <2>1, <2>2 DEF PackageInv
<1>2. ASSUME NEW p \in Procs, P!Scan(p) \/ P!MakeTemporary(p) \/ P!WriteTemporary(p)
      PROVE  PackageInv'
  <2>0. /\ UNCHANGED <<tree, litter, made, job, payloads, edits, packageKills, files, stage>>
        /\ packagePc' \in {[packagePc EXCEPT ![p] = l] : l \in {"idle", "read", "write", "replace"}}
    BY <1>2 DEF P!Scan, P!MakeTemporary, P!WriteTemporary, P!bounds, P!Goto, P!End
  <2>1. PackageTypes'
    <3>1. packagePc' \in [Procs -> {"idle"} \cup Making \cup Packing]
      BY <1>0, <2>0 DEF Making
    <3> QED
      BY <1>0, <2>0, <3>1, PackageFrame DEF P!TypeOK
  <2>2. ImageCurrent'
    BY <1>0, <1>2, SourcesKept
    DEF P!Scan, P!MakeTemporary, P!WriteTemporary, P!At, P!Goto, P!End, HasSources
  <2> QED
    BY <2>1, <2>2 DEF PackageInv
<1>3. ASSUME NEW p \in Procs, P!ReadSources(p) PROVE PackageInv'
  <2>1. P!Built \in Images
    BY <1>0 DEF P!Built, Images, Contents, P!TypeOK, P!Names
  <2>2. PackageTypes'
    BY <1>0, <1>3, <2>1
    DEF P!ReadSources, P!bounds, P!Goto, PackageTypes, P!TypeOK, Making, Images, Contents
  <2>3. ImageCurrent'
    BY <1>0, <1>3, <2>1
    DEF P!ReadSources, P!Goto, ImageCurrent, HasSources, P!Built, PackageTypes, P!TypeOK
  <2> QED
    BY <2>2, <2>3 DEF PackageInv
<1>4. ASSUME NEW p \in Procs, P!ReplaceImage(p) PROVE PackageInv'
  <2>1. payloads[p] = P!Built /\ payloads[p] \in Images
    BY <1>0, <1>4
    DEF P!ReplaceImage, P!At, ImageCurrent, HasSources, P!TypeOK, Images, Contents
  <2>2. PackageTypes'
    BY <1>0, <1>4
    DEF P!ReplaceImage, P!bounds, P!Goto, P!End, PackageTypes, P!TypeOK, Packing
  <2>3. ImageCurrent'
    BY <1>0, <1>4, <2>1
    DEF P!ReplaceImage, P!Goto, P!End, ImageCurrent, HasSources, P!Built
  <2> QED
    BY <2>2, <2>3 DEF PackageInv
<1>5. ASSUME NEW p \in Procs, P!ListFiles(p) \/ P!ClearStage(p) PROVE PackageInv'
  <2>1. P!Included \subseteq P!Packed
    BY DEF P!Included
  <2>0. /\ UNCHANGED <<tree, litter, made, job, payloads, edits, packageKills>>
        /\ packagePc' \in {[packagePc EXCEPT ![p] = l] : l \in {"idle", "clear", "copy"}}
        /\ files' \in {files, [files EXCEPT ![p] = P!Included]}
        /\ stage' \in {stage, P!NoFiles}
    BY <1>5 DEF P!ListFiles, P!ClearStage, P!bounds, P!Goto, P!End
  <2>2. PackageTypes'
    <3>1. packagePc' \in [Procs -> {"idle"} \cup Making \cup Packing]
      BY <1>0, <2>0 DEF Packing
    <3>2. files' \in [Procs -> SUBSET P!Packed] /\ DOMAIN stage' = P!Packed
      BY <1>0, <2>0, <2>1 DEF P!TypeOK, P!NoFiles
    <3> QED
      BY <1>0, <2>0, <3>1, <3>2, PackageFrame
  <2>3. ImageCurrent'
    BY <1>0, <1>5, SourcesKept
    DEF P!ListFiles, P!ClearStage, P!Goto, P!End, HasSources
  <2> QED
    BY <2>2, <2>3 DEF PackageInv
<1>6. ASSUME NEW p \in Procs, P!CopyFile(p) \/ P!ZipFile(p) \/ P!WriteSums(p) PROVE PackageInv'
  <2>1. /\ UNCHANGED <<tree, image, litter, job, payloads, made, edits, packageKills>>
        /\ packagePc' \in {packagePc, [packagePc EXCEPT ![p] = "zip"],
                           [packagePc EXCEPT ![p] = "sum"], [packagePc EXCEPT ![p] = "idle"]}
    BY <1>6 DEF P!CopyFile, P!ZipFile, P!WriteSums, P!bounds, P!Goto, P!End
  <2>2. files' \in [Procs -> SUBSET P!Packed] /\ DOMAIN stage' = P!Packed
    <3>1. files \in [Procs -> SUBSET P!Packed] /\ DOMAIN stage = P!Packed
      BY <1>0 DEF P!TypeOK
    <3>2. CASE P!CopyFile(p)
      BY <3>1, <3>2 DEF P!CopyFile
    <3>3. CASE P!ZipFile(p) \/ P!WriteSums(p)
      BY <3>1, <3>3 DEF P!ZipFile, P!WriteSums
    <3> QED
      BY <1>6, <3>2, <3>3
  <2>3. PackageTypes'
    BY <1>0, <2>1, <2>2 DEF PackageTypes, P!TypeOK, Packing
  <2>4. ImageCurrent'
    BY <1>0, <2>1, SourcesKept DEF HasSources
  <2> QED
    BY <2>3, <2>4 DEF PackageInv
<1>7. ASSUME NEW p \in Procs, P!WriteFails(p) \/ P!PackageFails(p) PROVE PackageInv'
  <2>1. PackageTypes'
    BY <1>0, <1>7 DEF P!WriteFails, P!PackageFails, P!Goto, P!End, PackageTypes, P!TypeOK
  <2>2. ImageCurrent'
    BY <1>0, <1>7, SourcesKept DEF P!WriteFails, P!PackageFails, P!Goto, P!End, HasSources
  <2> QED
    BY <2>1, <2>2 DEF PackageInv
<1>8. ASSUME NEW p \in Procs, P!Kill(p) PROVE PackageInv'
  <2>1. litter' \in BOOLEAN
    BY <1>0, <1>8, Zenon DEF P!Kill, P!TypeOK, P!HasTemporary
  <2>2. PackageTypes'
    BY <1>0, <1>8, <2>1 DEF P!Kill, P!Goto, P!End, PackageTypes, P!TypeOK
  <2>3. ImageCurrent'
    BY <1>0, <1>8, SourcesKept DEF P!Kill, P!Goto, P!End, HasSources
  <2> QED
    BY <2>2, <2>3 DEF PackageInv
<1>9. CASE P!Edit
  <2>1. PICK n \in P!Names, v \in {edits + 1, Absent, Link} : tree' = [tree EXCEPT ![n] = v]
    BY <1>9 DEF P!Edit
  <2>2. edits + 1 \in P!Versions /\ edits' = edits + 1 /\ edits' \in 0 .. MaxEdits
    BY <1>0, <1>9 DEF P!Edit, P!Versions, PackageTypes
  <2>3. tree' \in [P!Names -> P!Versions \cup {Absent, Link}]
    BY <1>0, <2>1, <2>2 DEF P!TypeOK
  <2>4. made' \in BOOLEAN /\ (made' => image' = P!Built')
    <3>1. made' = (image = P!Built') /\ image' = image
      BY <1>9 DEF P!Edit, P!Built
    <3> QED
      BY <3>1, Zenon
  <2>5. PackageTypes'
    BY <1>0, <1>9, <2>2, <2>3, <2>4 DEF P!Edit, P!local, PackageTypes, P!TypeOK
  <2>6. ImageCurrent'
    BY <1>0, <1>9, <2>4 DEF P!Edit, P!Idle, P!At, P!local, ImageCurrent, HasSources
  <2> QED
    BY <2>5, <2>6 DEF PackageInv
<1>10. CASE UNCHANGED P!vars
  <2>1. PackageTypes'
    BY <1>0, <1>10 DEF P!vars, P!local, P!bounds, PackageTypes, P!TypeOK
  <2>2. ImageCurrent'
    BY <1>0, <1>10, SourcesKept DEF P!vars, P!local
  <2> QED
    BY <2>1, <2>2 DEF PackageInv
<1> QED
  BY <1>1, <1>2, <1>3, <1>4, <1>5, <1>6, <1>7, <1>8, <1>9, <1>10 DEF P!Next, P!Step

(* ImageWholeAndFresh, for any number of processes making the image and the    *)
(* package at once, failing and being killed, and any number of edits.        *)
THEOREM ImageSafe == P!Spec => []ImageWholeAndFresh
<1>1. P!Spec => []PackageInv
  BY PackageInitInv, PackageNextInv, PTL DEF P!Spec
<1>2. PackageInv => ImageWholeAndFresh
  <2>1. Torn \notin Images
    BY BuildsAssumption DEF P!PackageAssumption, Images, Contents
  <2> QED
    BY <2>1 DEF PackageInv, PackageTypes, ImageCurrent, ImageWholeAndFresh, P!ImageWholeAndFresh
<1> QED
  BY <1>1, <1>2, PTL

-----------------------------------------------------------------------------
(* The archive, which one process makes; nobody else is at work in the tree.   *)
WhatIs(n) == IF n \in P!Included THEN P!OnDisk(n) ELSE Absent
Tree == [n \in P!Packed |-> WhatIs(n)]
TreeWithout(rest) == [n \in P!Packed |-> IF n \in rest THEN Absent ELSE WhatIs(n)]

(* Closed, with the whole configuration and the image that it makes.         *)
WholeArchive(a) ==
  /\ a.closed
  /\ a.files[P!Image] = [n \in P!Configuration |-> a.files[n]]
  /\ \A n \in P!Configuration : a.files[n] # Absent

(* What a packager has done of its work. *)
Knows(p) ==
  /\ packagePc[p] \in {"read", "mkstemp", "write", "replace"} \cup Packing =>
       \A n \in P!Configuration : tree[n] # Absent
  /\ packagePc[p] \in Packing => image = P!Built
  /\ packagePc[p] = "clear" => files[p] = P!Included
  /\ packagePc[p] \in {"copy", "zip"} => files[p] \subseteq P!Included
  /\ packagePc[p] = "copy" => stage = TreeWithout(files[p])
  /\ packagePc[p] = "zip" =>
       stage = Tree /\ archive = [files |-> TreeWithout(files[p]), closed |-> FALSE]
  /\ packagePc[p] = "sum" => archive = [files |-> Tree, closed |-> TRUE]

ArchiveInv ==
  /\ PackageInv
  /\ packageSums # Absent => WholeArchive(packageSums)
  /\ IF tool = "package" THEN Alone(packagePc) /\ \A p \in Procs : Knows(p)
     ELSE packageSums = Absent
            /\ \A p \in Procs : job[p] = "make" /\ packagePc[p] \notin Packing

(* A step that leaves what the packager looks at. *)
LEMMA LooksSame ==
  ASSUME UNCHANGED <<tree, image, litter>>,
         \A q \in Procs : packagePc'[q] \in {"write", "replace"} <=> packagePc[q] \in {"write", "replace"}
  PROVE  /\ P!Built' = P!Built /\ P!Included' = P!Included
         /\ \A n : P!OnDisk(n)' = P!OnDisk(n)
<1>1. P!TemporarySeen' = P!TemporarySeen
  BY Zenon DEF P!TemporarySeen, P!HasTemporary
<1>2. \A n : P!OnDisk(n)' = P!OnDisk(n)
  BY <1>1 DEF P!OnDisk
<1>3. P!Included' = P!Included
  BY <1>2 DEF P!Included
<1> QED
  BY <1>2, <1>3 DEF P!Built

LEMMA TreeSame ==
  ASSUME P!Included' = P!Included, \A n : P!OnDisk(n)' = P!OnDisk(n)
  PROVE  Tree' = Tree /\ \A r : TreeWithout(r)' = TreeWithout(r)
BY DEF Tree, TreeWithout, WhatIs

(* The process that takes a step is the one there is. *)
LEMMA OnlyOne ==
  ASSUME Alone(packagePc), Alone(packagePc'), NEW p \in Procs,
         packagePc[p] # "idle" \/ packagePc'[p] # "idle", Knows(p)'
  PROVE  \A q \in Procs : Knows(q)'
<1> SUFFICES ASSUME NEW q \in Procs, q # p PROVE Knows(q)'
  OBVIOUS
<1>1. packagePc'[q] = "idle"
  BY DEF Alone
<1> QED
  BY <1>1 DEF Knows, Packing

(* Between the list and the digest no temporary comes or goes.                *)
LEMMA PackingLooksSame ==
  ASSUME Alone(packagePc), Alone(packagePc'), NEW p \in Procs,
         packagePc[p] \in Packing, packagePc'[p] \in Packing \cup {"idle"},
         UNCHANGED <<tree, image, litter>>
  PROVE  /\ P!Built' = P!Built /\ P!Included' = P!Included
         /\ Tree' = Tree /\ \A r : TreeWithout(r)' = TreeWithout(r)
<1>1. \A q \in Procs : packagePc[q] \notin {"write", "replace"} /\ packagePc'[q] \notin {"write", "replace"}
  BY DEF Alone, Packing
<1> QED
  BY <1>1, LooksSame, TreeSame

(* One file is added to what was copied so far, or none is left.              *)
LEMMA TreeGrows ==
  ASSUME NEW rest, NEW f \in rest, NEW S, S = TreeWithout(rest), rest \subseteq P!Packed
  PROVE  [S EXCEPT ![f] = WhatIs(f)] = TreeWithout(rest \ {f})
BY DEF TreeWithout

LEMMA TreeDone == TreeWithout({}) = Tree
BY DEF TreeWithout, Tree

LEMMA TreeNone == TreeWithout(P!Included) = P!NoFiles
BY DEF TreeWithout, WhatIs, P!NoFiles, P!Included

LEMMA TreeFiles == {n \in P!Packed : Tree[n] # Absent} = P!Included
BY DEF Tree, WhatIs, P!Included

(* What was listed over the sources and their image holds both.                *)
LEMMA WholeTree ==
  ASSUME image = P!Built, \A n \in P!Configuration : tree[n] # Absent
  PROVE  WholeArchive([files |-> Tree, closed |-> TRUE])
<1>1. \A n \in P!Configuration :
        n \in P!Packed /\ n # "generated" /\ n # P!Image /\ n # P!Temporary
  BY DEF P!Configuration, P!Packed, P!Names, P!Image, P!Temporary
<1>2. \A n \in P!Configuration : Tree[n] = tree[n]
  BY <1>1 DEF Tree, WhatIs, P!OnDisk, P!Included
<1>3. Tree[P!Image] = image
  <2>1. P!OnDisk(P!Image) = image
    BY DEF P!OnDisk, P!Image, P!Temporary
  <2>2. P!Image \in P!Packed \ {"generated"}
    BY DEF P!Packed, P!Image
  <2> QED
    BY <2>1, <2>2 DEF Tree, WhatIs, P!Included
<1>4. [n \in P!Configuration |-> Tree[n]] = P!Built
  BY <1>2 DEF P!Built
<1> QED
  BY <1>2, <1>3, <1>4 DEF WholeArchive

LEMMA PackageStep ==
  ASSUME ArchiveInv, tool = "package", Alone(packagePc'), NEW p \in Procs,
         P!Start(p) \/ P!Step(p) \/ P!WriteFails(p) \/ P!PackageFails(p) \/ P!Kill(p)
  PROVE  /\ \A q \in Procs : Knows(q)'
         /\ packageSums' # Absent => WholeArchive(packageSums')
<1>0. /\ packagePc \in [Procs -> {"idle"} \cup Making \cup Packing]
      /\ files \in [Procs -> SUBSET P!Packed] /\ DOMAIN stage = P!Packed
      /\ Alone(packagePc) /\ Knows(p) /\ ImageCurrent
      /\ packageSums # Absent => WholeArchive(packageSums)
  BY DEF ArchiveInv, PackageInv, PackageTypes, P!TypeOK
<1>s. CASE packagePc'[p] = "idle" /\ packageSums' = packageSums
  <2>1. packagePc[p] # "idle"
    BY <1>0, <1>s DEF P!Start, P!Step, P!Scan, P!ReadSources, P!MakeTemporary, P!WriteTemporary,
       P!ReplaceImage, P!ListFiles, P!ClearStage, P!CopyFile, P!ZipFile, P!WriteSums,
       P!WriteFails, P!PackageFails, P!Kill, P!At, P!Goto, P!HasTemporary
  <2>2. Knows(p)'
    BY <1>s DEF Knows, Packing
  <2> QED
    BY <1>0, <1>s, <2>1, <2>2, OnlyOne, Zenon
<1>1. CASE P!Start(p)
  <2>1. packagePc'[p] = "scan" /\ packageSums' = packageSums
    BY <1>0, <1>1 DEF P!Start, P!Goto
  <2>2. Knows(p)'
    BY <2>1 DEF Knows, Packing
  <2> QED
    BY <1>0, <2>1, <2>2, OnlyOne
<1>2. CASE P!Scan(p) /\ packagePc'[p] # "idle"
  <2>1. packagePc'[p] = "read" /\ tree' = tree /\ packageSums' = packageSums
        /\ \A n \in P!Configuration : tree[n] # Absent
    BY <1>0, <1>2 DEF P!Scan, P!Goto, P!End, P!SourceSetMatches
  <2>2. Knows(p)'
    BY <2>1 DEF Knows, Packing
  <2> QED
    BY <1>0, <2>1, <2>2, OnlyOne
<1>3. CASE P!ReadSources(p) \/ P!MakeTemporary(p) \/ P!WriteTemporary(p)
  <2>1. packagePc'[p] \in {"mkstemp", "write", "replace"} /\ tree' = tree
        /\ packageSums' = packageSums /\ \A n \in P!Configuration : tree[n] # Absent
    BY <1>0, <1>3 DEF P!ReadSources, P!MakeTemporary, P!WriteTemporary, P!At, P!Goto, Knows
  <2>2. Knows(p)'
    BY <2>1 DEF Knows, Packing
  <2> QED
    BY <1>0, <2>1, <2>2, OnlyOne
<1>4. CASE P!ReplaceImage(p) /\ packagePc'[p] # "idle"
  <2>1. /\ packagePc'[p] = "list" /\ tree' = tree /\ packageSums' = packageSums
        /\ \A n \in P!Configuration : tree[n] # Absent
        /\ image' = P!Built
    BY <1>0, <1>4 DEF P!ReplaceImage, P!At, P!Goto, P!End, Knows, ImageCurrent, HasSources
  <2>2. Knows(p)'
    BY <2>1 DEF Knows, Packing, P!Built
  <2> QED
    BY <1>0, <2>1, <2>2, OnlyOne
<1>5. CASE P!ListFiles(p) /\ packagePc'[p] # "idle"
  <2>1. /\ packagePc[p] = "list" /\ packagePc'[p] = "clear" /\ UNCHANGED <<tree, image, litter>>
        /\ packageSums' = packageSums /\ files'[p] = P!Included
    BY <1>0, <1>5 DEF P!ListFiles, P!At, P!Goto, P!End
  <2>2. P!Built' = P!Built /\ P!Included' = P!Included
    BY <1>0, <2>1, PackingLooksSame DEF Packing
  <2>3. image = P!Built /\ \A n \in P!Configuration : tree[n] # Absent
    BY <1>0, <2>1 DEF Knows, Packing
  <2>4. Knows(p)'
    BY <2>1, <2>2, <2>3 DEF Knows
  <2> QED
    BY <1>0, <2>1, <2>4, OnlyOne
<1>6. CASE P!ClearStage(p)
  <2>1. /\ packagePc[p] = "clear" /\ packagePc'[p] = "copy" /\ UNCHANGED <<tree, image, litter>>
        /\ packageSums' = packageSums /\ files' = files /\ stage' = P!NoFiles
    BY <1>0, <1>6 DEF P!ClearStage, P!At, P!Goto
  <2>2. /\ P!Built' = P!Built /\ P!Included' = P!Included
        /\ TreeWithout(P!Included)' = TreeWithout(P!Included)
    BY <1>0, <2>1, PackingLooksSame DEF Packing
  <2>3. stage' = TreeWithout(files[p])' /\ image' = P!Built'
    BY <1>0, <2>1, <2>2, TreeNone DEF Knows, Packing
  <2>4. files'[p] = P!Included /\ \A n \in P!Configuration : tree[n] # Absent
    BY <1>0, <2>1 DEF Knows, Packing
  <2>5. Knows(p)'
    BY <2>1, <2>2, <2>3, <2>4 DEF Knows
  <2> QED
    BY <1>0, <2>1, <2>5, OnlyOne
<1>7. CASE P!CopyFile(p)
  <2>0. /\ packagePc[p] = "copy" /\ packagePc'[p] \in {"copy", "zip"}
        /\ UNCHANGED <<tree, image, litter, packageSums>>
        /\ stage = TreeWithout(files[p]) /\ image = P!Built /\ files[p] \subseteq P!Included
        /\ \A n \in P!Configuration : tree[n] # Absent
    BY <1>0, <1>7 DEF P!CopyFile, P!At, P!Goto, Knows, Packing
  <2>1. /\ P!Built' = P!Built /\ P!Included' = P!Included /\ Tree' = Tree
        /\ \A r : TreeWithout(r)' = TreeWithout(r)
    BY <1>0, <2>0, PackingLooksSame DEF Packing
  <2> DEFINE f == P!First(files[p])
  <2>2. CASE /\ files[p] # {} /\ packagePc' = packagePc
             /\ stage' = [stage EXCEPT ![f] = P!OnDisk(f)]
             /\ files' = [files EXCEPT ![p] = files[p] \ {f}]
    <3>1. f \in files[p]
      BY <2>2, FirstIn
    <3>2. P!OnDisk(f) = WhatIs(f) /\ files[p] \subseteq P!Packed
      BY <2>0, <3>1 DEF WhatIs, P!Included
    <3> HIDE DEF f
    <3>3. stage' = TreeWithout(files[p] \ {f})
      BY <2>0, <2>2, <3>1, <3>2, TreeGrows
    <3>4. files'[p] = files[p] \ {f}
      BY <1>0, <2>2
    <3>5. stage' = TreeWithout(files[p])' /\ files'[p] \subseteq P!Included'
      BY <2>0, <2>1, <3>3, <3>4
    <3>6. Knows(p)'
      BY <2>0, <2>1, <2>2, <3>5 DEF Knows, Packing
    <3> QED
      BY <1>0, <2>0, <3>6, OnlyOne
  <2>3. CASE /\ files[p] = {} /\ P!Goto(p, "zip")
             /\ archive' = [files |-> P!NoFiles, closed |-> FALSE]
             /\ files' = [files EXCEPT ![p] = {n \in P!Packed : stage[n] # Absent}]
             /\ UNCHANGED stage
    <3>1. stage = Tree
      BY <2>0, <2>3, TreeDone
    <3>2. files'[p] = P!Included
      BY <1>0, <2>3, <3>1, TreeFiles
    <3>3. archive' = [files |-> TreeWithout(files'[p]), closed |-> FALSE]
      BY <2>3, <3>2, TreeNone
    <3>4. /\ stage' = Tree' /\ files'[p] \subseteq P!Included'
          /\ archive' = [files |-> TreeWithout(files[p])', closed |-> FALSE]
      BY <2>1, <2>3, <3>1, <3>2, <3>3
    <3>5. packagePc'[p] = "zip"
      BY <1>0, <2>3 DEF P!Goto
    <3>6. Knows(p)'
      BY <2>0, <2>1, <3>4, <3>5 DEF Knows, Packing
    <3> QED
      BY <1>0, <2>0, <3>6, OnlyOne
  <2> QED
    BY <1>7, <2>2, <2>3 DEF P!CopyFile
<1>8. CASE P!ZipFile(p)
  <2>0. /\ packagePc[p] = "zip" /\ packagePc'[p] \in {"zip", "sum"}
        /\ UNCHANGED <<tree, image, litter, stage, packageSums>>
        /\ stage = Tree /\ archive = [files |-> TreeWithout(files[p]), closed |-> FALSE]
        /\ image = P!Built /\ files[p] \subseteq P!Included
        /\ \A n \in P!Configuration : tree[n] # Absent
    BY <1>0, <1>8 DEF P!ZipFile, P!At, P!Goto, Knows, Packing
  <2>1. /\ P!Built' = P!Built /\ P!Included' = P!Included /\ Tree' = Tree
        /\ \A r : TreeWithout(r)' = TreeWithout(r)
    BY <1>0, <2>0, PackingLooksSame DEF Packing
  <2> DEFINE f == P!First(files[p])
  <2>2. CASE /\ files[p] # {} /\ packagePc' = packagePc
             /\ archive' = [archive EXCEPT !.files[f] = stage[f]]
             /\ files' = [files EXCEPT ![p] = files[p] \ {f}]
    <3>1. f \in files[p]
      BY <2>2, FirstIn
    <3>2. stage[f] = WhatIs(f) /\ files[p] \subseteq P!Packed
      BY <2>0, <3>1 DEF Tree, P!Included
    <3> HIDE DEF f
    <3>3. archive' = [files |-> [TreeWithout(files[p]) EXCEPT ![f] = WhatIs(f)], closed |-> FALSE]
      BY <2>0, <2>2, <3>2
    <3>4. archive' = [files |-> TreeWithout(files[p] \ {f}), closed |-> FALSE]
      BY <3>1, <3>2, <3>3, TreeGrows
    <3>5. files'[p] = files[p] \ {f}
      BY <1>0, <2>2
    <3>6. /\ stage' = Tree' /\ files'[p] \subseteq P!Included'
          /\ archive' = [files |-> TreeWithout(files[p])', closed |-> FALSE]
      BY <2>0, <2>1, <3>4, <3>5
    <3>7. packagePc'[p] = "zip"
      BY <2>0, <2>2
    <3>8. Knows(p)'
      BY <2>0, <2>1, <3>6, <3>7 DEF Knows, Packing
    <3> QED
      BY <1>0, <2>0, <3>8, OnlyOne
  <2>3. CASE /\ files[p] = {} /\ P!Goto(p, "sum")
             /\ archive' = [archive EXCEPT !.closed = TRUE]
    <3>1. archive' = [files |-> Tree', closed |-> TRUE]
      BY <2>0, <2>1, <2>3, TreeDone
    <3>2. packagePc'[p] = "sum"
      BY <1>0, <2>3 DEF P!Goto
    <3>3. Knows(p)'
      BY <2>0, <2>1, <3>1, <3>2 DEF Knows, Packing
    <3> QED
      BY <1>0, <2>0, <3>3, OnlyOne
  <2> QED
    BY <1>8, <2>2, <2>3 DEF P!ZipFile
<1>9. CASE P!WriteSums(p)
  <2>1. packagePc[p] = "sum" /\ packagePc'[p] = "idle" /\ packageSums' = archive
    BY <1>0, <1>9 DEF P!WriteSums, P!At, P!End, P!Goto
  <2>2. /\ archive = [files |-> Tree, closed |-> TRUE] /\ image = P!Built
        /\ \A n \in P!Configuration : tree[n] # Absent
    BY <1>0, <2>1 DEF Knows, Packing
  <2>3. WholeArchive(archive)
    BY <2>2, WholeTree
  <2>4. Knows(p)'
    BY <2>1 DEF Knows, Packing
  <2> QED
    BY <1>0, <2>1, <2>3, <2>4, OnlyOne
<1> QED
  <2>1. P!WriteFails(p) \/ P!PackageFails(p) \/ P!Kill(p) =>
          packagePc'[p] = "idle" /\ packageSums' = packageSums
    BY <1>0 DEF P!WriteFails, P!PackageFails, P!Kill, P!End, P!Goto
  <2>2. P!Scan(p) \/ P!ReplaceImage(p) \/ P!ListFiles(p) => packageSums' = packageSums
    BY DEF P!Scan, P!ReplaceImage, P!ListFiles
  <2> QED
    BY <1>s, <1>1, <1>2, <1>3, <1>4, <1>5, <1>6, <1>7, <1>8, <1>9, <2>1, <2>2 DEF P!Step

(* The tools' steps, each on its own variables. *)
LEMMA ToolSteps ==
  ASSUME [MCNext]_mcVars
  PROVE  tool' = tool /\ [Next]_vars /\ [P!Next]_(P!vars) /\ [M!Next]_(M!vars)
<1>1. UNCHANGED package => UNCHANGED P!vars
  BY DEF package, P!vars, P!local, P!bounds
<1>2. UNCHANGED images => UNCHANGED M!vars
  BY DEF images, M!vars, M!output, M!local, M!bounds
<1>3. UNCHANGED mcVars => tool' = tool /\ UNCHANGED vars /\ UNCHANGED package /\ UNCHANGED images
  BY DEF mcVars
<1> QED
  BY <1>1, <1>2, <1>3 DEF MCNext

LEMMA ArchiveInit == MCInit => ArchiveInv
<1> SUFFICES ASSUME MCInit PROVE ArchiveInv
  OBVIOUS
<1>1. PackageInv
  BY PackageInitInv DEF MCInit
<1>2. packageSums = Absent /\ \A p \in Procs : packagePc[p] = "idle"
  BY DEF MCInit, P!Init
<1>3. \A p \in Procs : Knows(p)
  BY <1>2 DEF Knows, Packing
<1>4. tool # "package" => \A p \in Procs : job[p] = "make"
  BY DEF MCInit
<1> QED
  BY <1>1, <1>2, <1>3, <1>4 DEF ArchiveInv, Alone, Packing

LEMMA ArchiveNext == ArchiveInv /\ [MCNext]_mcVars => ArchiveInv'
<1> SUFFICES ASSUME ArchiveInv, [MCNext]_mcVars PROVE ArchiveInv'
  OBVIOUS
<1>0. tool' = tool /\ PackageInv'
  BY ToolSteps, PackageNextInv DEF ArchiveInv
<1>1. CASE UNCHANGED package
  <2>1. UNCHANGED <<tree, image, litter, stage, archive, packageSums, packagePc, job, files>>
    BY <1>1 DEF package
  <2>2. /\ P!Built' = P!Built /\ P!Included' = P!Included
        /\ Tree' = Tree /\ \A r : TreeWithout(r)' = TreeWithout(r)
    BY <2>1, LooksSame, TreeSame
  <2>3. ASSUME NEW p \in Procs, Knows(p) PROVE Knows(p)'
    BY <2>1, <2>2, <2>3 DEF Knows
  <2>4. packageSums' # Absent => WholeArchive(packageSums')
    BY <2>1 DEF ArchiveInv
  <2>5. Alone(packagePc) => Alone(packagePc')
    BY <2>1
  <2> QED
    BY <1>0, <2>1, <2>3, <2>4, <2>5 DEF ArchiveInv
<1>2. CASE tool = "cidata" /\ P!Next /\ \A p \in Procs : job'[p] = "make"
  <2>1. /\ packagePc \in [Procs -> {"idle"} \cup Making \cup Packing] /\ packageSums = Absent
        /\ \A p \in Procs : job[p] = "make" /\ packagePc[p] \notin Packing
    BY <1>2 DEF ArchiveInv, PackageInv, PackageTypes
  <2>2. CASE P!Edit
    BY <1>0, <1>2, <2>1, <2>2 DEF P!Edit, P!local, ArchiveInv
  <2>3. ASSUME NEW p \in Procs,
               P!Start(p) \/ P!Step(p) \/ P!WriteFails(p) \/ P!PackageFails(p) \/ P!Kill(p)
        PROVE  packageSums' = packageSums /\ \A q \in Procs : packagePc'[q] \notin Packing
    <3>1. P!Start(p) \/ P!Scan(p) \/ P!ReadSources(p) \/ P!MakeTemporary(p) \/ P!WriteTemporary(p)
          \/ P!ReplaceImage(p) \/ P!WriteFails(p) \/ P!Kill(p)
      BY <2>1, <2>3 DEF P!Step, P!ListFiles, P!ClearStage, P!CopyFile, P!ZipFile, P!WriteSums,
         P!PackageFails, P!At, Packing
    <3>2. packageSums' = packageSums
      BY <3>1 DEF P!Start, P!Scan, P!ReadSources, P!MakeTemporary, P!WriteTemporary,
         P!ReplaceImage, P!WriteFails, P!Kill
    <3>3. PICK l \in {"idle"} \cup Making : packagePc' = [packagePc EXCEPT ![p] = l]
      BY <2>1, <3>1 DEF P!Start, P!Scan, P!ReadSources, P!MakeTemporary, P!WriteTemporary,
         P!ReplaceImage, P!WriteFails, P!Kill, P!Goto, P!End, Making
    <3> QED
      BY <2>1, <3>2, <3>3 DEF Making, Packing
  <2> QED
    BY <1>0, <1>2, <2>1, <2>2, <2>3 DEF P!Next, ArchiveInv
<1>3. CASE tool = "package" /\ P!Next /\ Alone(packagePc')
  <2>1. CASE P!Edit
    <3>1. packageSums' = packageSums /\ \A p \in Procs : packagePc'[p] = "idle"
      BY <2>1 DEF P!Edit, P!Idle, P!At, P!local
    <3>2. \A p \in Procs : Knows(p)'
      BY <3>1 DEF Knows, Packing
    <3>3. packageSums' # Absent => WholeArchive(packageSums')
      BY <3>1 DEF ArchiveInv
    <3> QED
      BY <1>0, <1>3, <3>2, <3>3 DEF ArchiveInv
  <2>2. ASSUME NEW p \in Procs,
               P!Start(p) \/ P!Step(p) \/ P!WriteFails(p) \/ P!PackageFails(p) \/ P!Kill(p)
        PROVE  ArchiveInv'
    <3>1. /\ \A q \in Procs : Knows(q)'
          /\ packageSums' # Absent => WholeArchive(packageSums')
      BY <1>3, <2>2, PackageStep
    <3> QED
      BY <1>0, <1>3, <3>1 DEF ArchiveInv
  <2> QED
    BY <1>3, <2>1, <2>2 DEF P!Next
<1>4. UNCHANGED mcVars => UNCHANGED package
  BY DEF mcVars
<1> QED
  BY <1>1, <1>2, <1>3, <1>4 DEF MCNext

LEMMA ArchiveAlways == MCSpec => []ArchiveInv
BY ArchiveInit, ArchiveNext, PTL DEF MCSpec

(* SumsProveArchive, for a packager that may fail, be killed and run again any *)
(* number of times, between any edits.                                       *)
THEOREM ArchiveSafe == MCSpec => []SumsProveArchive
<1>1. ArchiveInv => SumsProveArchive
  BY DEF ArchiveInv, WholeArchive, SumsProveArchive, P!SumsProveArchive
<1> QED
  BY <1>1, ArchiveAlways, PTL

(* PackageIsTree: the digest is written over the tree as it is then.           *)
THEOREM TreePackaged == MCSpec => PackageIsTree
<1>1. ArchiveInv => P!TreeArchived
  <2> SUFFICES ASSUME ArchiveInv, NEW p \in Procs, packagePc[p] = "sum"
               PROVE  archive.files = Tree
    BY DEF P!TreeArchived, P!At, Tree, WhatIs
  <2> QED
    BY DEF ArchiveInv, Knows, Packing
<1>2. ArchiveInv /\ [MCNext]_mcVars => [P!TreeArchived]_mcVars
  BY <1>1
<1> QED
  BY <1>2, ArchiveAlways, PTL DEF MCSpec, PackageIsTree

-----------------------------------------------------------------------------
(* The prepared image. M's variables are ImageBuild's, some under names of     *)
(* their own. What is in a place for a part says which place it is.           *)
Placed(slots) == \A i \in 1 .. MaxParts : slots[i] \in {Absent, Torn} \/ slots[i].index = i
ImageParts == M!PartFiles \cup {Absent, Torn}

ImageTypes ==
  /\ parts \in [1 .. MaxParts -> ImageParts] /\ Placed(parts)
  /\ imagePc \in [Procs -> {"idle", "audit", "look", "split", "manifest", "sums"}]
  /\ imageDisk \in [Procs -> M!Disks \cup {Absent}]
  /\ imageCount \in [Procs -> 1 .. MaxParts]
  /\ imageNext \in [Procs -> 1 .. MaxParts]
  /\ imageTurn \in [Procs -> 0 .. 1]
  /\ \A p \in Procs :
       /\ imagePc[p] = "idle" => imageDisk[p] = Absent /\ imageNext[p] = 1
       /\ imagePc[p] # "idle" => imageDisk[p] \in M!Disks
       /\ imagePc[p] \in {"audit", "look"} => imageNext[p] = 1
       /\ imagePc[p] = "split" => imageNext[p] <= imageCount[p]

(* A manifest tells of one audited disk's stream, whatever parts it names.     *)
Written(m) ==
  /\ \E d \in M!Disks, n \in 1 .. MaxParts : d.deferred /\ m.compressed = M!Stream(d, n)
  /\ m.parts \in [1 .. MaxParts -> ImageParts] /\ Placed(m.parts)

(* With any number of builders: only audited disks get to a manifest, and sums *)
(* are of a manifest that one of them wrote, or began to.                     *)
ImageInv ==
  /\ ImageTypes
  /\ \A p \in Procs :
       /\ imagePc[p] \in {"look", "split", "manifest", "sums"} => imageDisk[p].deferred
       /\ imagePc[p] = "sums" => manifest = Torn \/ Written(manifest)
  /\ imageSums \notin {Absent, Torn} => imageSums.manifest = Torn \/ Written(imageSums.manifest)

LEMMA ImageInitInv == M!Init => ImageInv
<1> SUFFICES ASSUME M!Init PROVE ImageInv
  OBVIOUS
<1>0. MaxParts \in Nat \ {0}
  BY GuestBuildAssumption
<1>1. ImageTypes
  BY <1>0 DEF M!Init, M!NoParts, ImageTypes, ImageParts, Placed
<1> QED
  BY <1>1 DEF M!Init, ImageInv

(* Steps that leave the output alone, and what they may do to a builder.      *)
LEMMA ImageEnds ==
  ASSUME ImageTypes, NEW p \in Procs, M!End(p),
         parts' \in [1 .. MaxParts -> ImageParts], Placed(parts')
  PROVE  ImageTypes'
<1>0. MaxParts \in Nat \ {0}
  BY GuestBuildAssumption
<1> QED
  BY <1>0 DEF ImageTypes, M!End, M!Goto, Placed

LEMMA PartPlaced ==
  ASSUME ImageTypes, NEW i \in 1 .. MaxParts, NEW f \in ImageParts,
         f = Torn \/ f.index = i, parts' = [parts EXCEPT ![i] = f]
  PROVE  parts' \in [1 .. MaxParts -> ImageParts] /\ Placed(parts')
BY DEF ImageTypes, Placed

LEMMA ImageNextInv == ImageInv /\ [M!Next]_(M!vars) => ImageInv'
<1> SUFFICES ASSUME ImageInv, [M!Next]_(M!vars) PROVE ImageInv'
  OBVIOUS
<1>0. /\ MaxParts \in Nat \ {0} /\ ImageTypes
      /\ parts \in [1 .. MaxParts -> ImageParts] /\ Placed(parts)
      /\ imagePc \in [Procs -> {"idle", "audit", "look", "split", "manifest", "sums"}]
      /\ imageDisk \in [Procs -> M!Disks \cup {Absent}]
      /\ imageCount \in [Procs -> 1 .. MaxParts]
      /\ imageNext \in [Procs -> 1 .. MaxParts]
  BY GuestBuildAssumption DEF ImageInv, ImageTypes
<1>1. ASSUME NEW p \in Procs, M!Install(p) PROVE ImageInv'
  <2>1. /\ UNCHANGED <<parts, manifest, imageSums, imageCount, imageNext>>
        /\ imagePc' = [imagePc EXCEPT ![p] = "audit"] /\ imagePc[p] = "idle"
        /\ imageTurn' = [imageTurn EXCEPT ![p] = 1 - imageTurn[p]]
    BY <1>1 DEF M!Install, M!output, M!At, M!Goto
  <2>2. PICK d \in BOOLEAN :
          imageDisk' = [imageDisk EXCEPT ![p] = [by |-> p, turn |-> imageTurn'[p], deferred |-> d]]
    BY <1>1 DEF M!Install
  <2>3. imageTurn' \in [Procs -> 0 .. 1] /\ imageTurn'[p] \in 0 .. 1
    BY <1>0, <2>1 DEF ImageTypes
  <2>4. [by |-> p, turn |-> imageTurn'[p], deferred |-> d] \in M!Disks
    BY <2>3 DEF M!Disks
  <2>5. ImageTypes'
    BY <1>0, <2>1, <2>2, <2>3, <2>4 DEF ImageTypes, Placed
  <2> QED
    BY <2>1, <2>2, <2>5, <1>0 DEF ImageInv
<1>2. ASSUME NEW p \in Procs, M!Audit(p) \/ M!LookForArtifacts(p) PROVE ImageInv'
  <2>1. UNCHANGED <<parts, manifest, imageSums>>
    BY <1>2 DEF M!Audit, M!LookForArtifacts, M!output
  <2>2. CASE M!End(p)
    <3>1. ImageTypes'
      BY <1>0, <2>1, <2>2, ImageEnds
    <3>2. imagePc' = [imagePc EXCEPT ![p] = "idle"]
          /\ imageDisk' = [imageDisk EXCEPT ![p] = Absent]
      BY <2>2 DEF M!End, M!Goto
    <3> QED
      BY <1>0, <2>1, <3>1, <3>2 DEF ImageInv
  <2>3. CASE ~ M!End(p)
    <3>1. /\ UNCHANGED <<imageDisk, imageNext, imageTurn>>
          /\ \/ imagePc[p] = "audit" /\ imagePc' = [imagePc EXCEPT ![p] = "look"]
                /\ M!Passes(p) /\ \E n \in 1 .. MaxParts : imageCount' = [imageCount EXCEPT ![p] = n]
             \/ imagePc[p] = "look" /\ imagePc' = [imagePc EXCEPT ![p] = "split"]
                /\ imageCount' = imageCount
      BY <1>2, <2>3 DEF M!Audit, M!LookForArtifacts, M!At, M!Goto
    <3>2. imagePc[p] = "audit" => imageDisk[p].deferred
      BY <3>1 DEF M!Passes
    <3>3. ImageTypes'
      <4>1. /\ imageCount' \in [Procs -> 1 .. MaxParts]
            /\ imagePc' \in [Procs -> {"idle", "audit", "look", "split", "manifest", "sums"}]
        BY <1>0, <3>1
      <4>2. \A q \in Procs :
              /\ imagePc'[q] = "idle" => imagePc[q] = "idle"
              /\ imagePc'[q] # "idle" => imagePc[q] # "idle"
              /\ imagePc'[q] \in {"audit", "look"} => imagePc[q] \in {"audit", "look"}
              /\ imagePc'[q] = "split" => imagePc[q] \in {"look", "split"}
              /\ imagePc[q] = "split" => imageCount'[q] = imageCount[q]
        BY <1>0, <3>1
      <4>3. \A q \in Procs : imagePc'[q] = "split" => imageNext[q] <= imageCount'[q]
        <5> SUFFICES ASSUME NEW q \in Procs, imagePc'[q] = "split"
                     PROVE  imageNext[q] <= imageCount'[q]
          OBVIOUS
        <5>1. imageCount'[q] \in 1 .. MaxParts
          BY <4>1
        <5>2. CASE imagePc[q] = "look"
          BY <1>0, <5>1, <5>2 DEF ImageTypes
        <5>3. CASE imagePc[q] = "split"
          BY <4>2, <5>3, <1>0 DEF ImageTypes
        <5> QED
          BY <4>2, <5>2, <5>3
      <4> QED
        BY <1>0, <2>1, <3>1, <4>1, <4>2, <4>3 DEF ImageTypes
    <3>4. \A q \in Procs : imagePc'[q] \in {"look", "split", "manifest", "sums"} => imageDisk'[q].deferred
      BY <1>0, <3>1, <3>2 DEF ImageInv
    <3>5. \A q \in Procs : imagePc'[q] = "sums" => imagePc[q] = "sums"
      BY <1>0, <3>1
    <3> QED
      BY <2>1, <3>3, <3>4, <3>5 DEF ImageInv
  <2> QED
    BY <2>2, <2>3
<1>3. ASSUME NEW p \in Procs, M!Split(p) PROVE ImageInv'
  <2> DEFINE f == M!Stream(imageDisk[p], imageCount[p])[imageNext[p]]
  <2>1. /\ imagePc[p] = "split" /\ imageNext[p] \in 1 .. MaxParts
        /\ imageNext[p] <= imageCount[p] /\ imageDisk[p] \in M!Disks
        /\ imageCount[p] \in 1 .. MaxParts
    BY <1>0, <1>3 DEF M!Split, M!At, ImageTypes
  <2>2. f = [disk |-> imageDisk[p], index |-> imageNext[p], of |-> imageCount[p]]
    BY <1>0, <2>1 DEF M!Stream
  <2>3. f \in ImageParts /\ f.index = imageNext[p]
    BY <2>1, <2>2 DEF ImageParts, M!PartFiles
  <2>4. parts' = [parts EXCEPT ![imageNext[p]] = f]
    BY <1>3 DEF M!Split
  <2> HIDE DEF f
  <2>5. parts' \in [1 .. MaxParts -> ImageParts] /\ Placed(parts')
    BY <1>0, <2>1, <2>3, <2>4, PartPlaced
  <2>6. /\ UNCHANGED <<manifest, imageSums, imageDisk, imageCount, imageTurn>>
        /\ \/ imageNext[p] < imageCount[p] /\ imagePc' = imagePc
              /\ imageNext' = [imageNext EXCEPT ![p] = imageNext[p] + 1]
           \/ imagePc' = [imagePc EXCEPT ![p] = "manifest"] /\ imageNext' = imageNext
    BY <1>3 DEF M!Split, M!Goto
  <2>7. ImageTypes'
    <3>1. imageNext' \in [Procs -> 1 .. MaxParts]
      BY <1>0, <2>1, <2>6
    <3>2. imagePc' \in [Procs -> {"idle", "audit", "look", "split", "manifest", "sums"}]
      BY <1>0, <2>6
    <3>3. \A q \in Procs :
            /\ imagePc'[q] # "idle" <=> imagePc[q] # "idle"
            /\ imagePc'[q] \in {"idle", "audit", "look"} =>
                 imagePc'[q] = imagePc[q] /\ imageNext'[q] = imageNext[q]
            /\ imagePc'[q] = "split" => imagePc[q] = "split"
                 /\ (imageNext'[q] = imageNext[q] \/ imageNext'[q] <= imageCount[q])
      BY <1>0, <2>1, <2>6
    <3> QED
      BY <1>0, <2>5, <2>6, <3>1, <3>2, <3>3 DEF ImageTypes
  <2> QED
    BY <1>0, <2>1, <2>6, <2>7 DEF ImageInv
<1>4. ASSUME NEW p \in Procs, M!WriteManifest(p) PROVE ImageInv'
  <2>1. /\ imagePc[p] = "manifest" /\ imagePc' = [imagePc EXCEPT ![p] = "sums"]
        /\ manifest' = [compressed |-> M!Stream(imageDisk[p], imageCount[p]), parts |-> parts]
        /\ UNCHANGED <<parts, imageSums, imageDisk, imageCount, imageNext, imageTurn>>
    BY <1>4 DEF M!WriteManifest, M!At, M!Goto
  <2>2. imageDisk[p] \in M!Disks /\ imageDisk[p].deferred /\ imageCount[p] \in 1 .. MaxParts
    BY <1>0, <2>1 DEF ImageInv, ImageTypes
  <2>3. Written(manifest')
    BY <1>0, <2>1, <2>2 DEF Written
  <2>4. ImageTypes'
    BY <1>0, <2>1 DEF ImageTypes, Placed
  <2> QED
    BY <1>0, <2>1, <2>3, <2>4 DEF ImageInv
<1>5. ASSUME NEW p \in Procs, M!WriteSums(p) PROVE ImageInv'
  <2>1. /\ imagePc[p] = "sums" /\ M!End(p) /\ UNCHANGED <<parts, manifest>>
        /\ imageSums' = [parts |-> parts, manifest |-> manifest]
    BY <1>5 DEF M!WriteSums, M!At
  <2>2. ImageTypes'
    BY <1>0, <2>1, ImageEnds
  <2>3. imageSums'.manifest = Torn \/ Written(imageSums'.manifest)
    BY <2>1 DEF ImageInv
  <2>4. imagePc' = [imagePc EXCEPT ![p] = "idle"] /\ imageDisk' = [imageDisk EXCEPT ![p] = Absent]
    BY <2>1 DEF M!End, M!Goto
  <2> QED
    BY <1>0, <2>1, <2>2, <2>3, <2>4 DEF ImageInv
<1>6. ASSUME NEW p \in Procs, M!CutShort(p) PROVE ImageInv'
  <2>1. /\ imagePc' = [imagePc EXCEPT ![p] = "idle"] /\ imageDisk' = [imageDisk EXCEPT ![p] = Absent]
        /\ M!End(p) /\ manifest' \in {manifest, Torn} /\ imageSums' \in {imageSums, Torn}
    BY <1>6 DEF M!CutShort, M!End, M!Goto, M!output
  <2>2. parts' \in [1 .. MaxParts -> ImageParts] /\ Placed(parts')
    <3>1. parts' = parts \/ parts' = [parts EXCEPT ![imageNext[p]] = Torn]
      BY <1>6 DEF M!CutShort, M!output
    <3>2. imageNext[p] \in 1 .. MaxParts /\ Torn \in ImageParts
      BY <1>0 DEF ImageParts
    <3> QED
      BY <1>0, <3>1, <3>2, PartPlaced
  <2>3. ImageTypes'
    BY <1>0, <2>1, <2>2, ImageEnds
  <2> QED
    BY <1>0, <2>1, <2>3 DEF ImageInv
<1>7. CASE M!CleanUp
  <2>1. /\ parts' = M!NoParts /\ manifest' = Absent /\ imageSums' = Absent
        /\ UNCHANGED <<imagePc, imageDisk, imageCount, imageNext, imageTurn>>
        /\ \A p \in Procs : imagePc[p] = "idle"
    BY <1>7 DEF M!CleanUp, M!local, M!At
  <2>2. ImageTypes'
    BY <1>0, <2>1 DEF ImageTypes, M!NoParts, Placed, ImageParts
  <2> QED
    BY <2>1, <2>2 DEF ImageInv
<1>8. CASE UNCHANGED M!vars
  <2>1. UNCHANGED <<parts, manifest, imageSums, imagePc, imageDisk, imageCount, imageNext, imageTurn>>
    BY <1>8 DEF M!vars, M!output, M!local
  <2>2. ImageTypes'
    BY <1>0, <2>1 DEF ImageTypes, Placed
  <2> QED
    BY <2>1, <2>2 DEF ImageInv
<1> QED
  BY <1>1, <1>2, <1>3, <1>4, <1>5, <1>6, <1>7, <1>8 DEF M!Next

(* The parts in the order of their names can only be the stream in its own.    *)
LEMMA JoinedInPlace ==
  ASSUME NEW m, m.parts \in [1 .. MaxParts -> ImageParts], Placed(m.parts),
         NEW d \in M!Disks, NEW n \in 1 .. MaxParts, M!JoinsTo(m, M!Stream(d, n))
  PROVE  \A i \in 1 .. n : m.parts[i] # Absent /\ m.parts[i] = M!Stream(d, n)[i]
<1>0. MaxParts \in Nat \ {0} /\ n \in Nat /\ n <= MaxParts
  BY GuestBuildAssumption
<1>1. Len(M!Stream(d, n)) = n
  <2> DEFINE S == {[disk |-> d, index |-> i, of |-> n] : i \in 1 .. n}
  <2>1. M!Stream(d, n) \in [1 .. n -> S]
    BY DEF M!Stream
  <2> HIDE DEF S
  <2>2. M!Stream(d, n) \in Seq(S)
    BY <1>0, <2>1, SeqDef
  <2>3. DOMAIN M!Stream(d, n) = 1 .. Len(M!Stream(d, n)) /\ Len(M!Stream(d, n)) \in Nat
    BY <2>2, LenProperties
  <2>4. 1 .. Len(M!Stream(d, n)) = 1 .. n
    BY <2>1, <2>3
  <2> QED
    BY <1>0, <2>3, <2>4, SameInterval
<1>2. PICK order \in [1 .. n -> M!Named(m)] : \A k \in 1 .. n : M!Stream(d, n)[k] = m.parts[order[k]]
  BY <1>1 DEF M!JoinsTo
<1> SUFFICES ASSUME NEW i \in 1 .. n
             PROVE  m.parts[i] # Absent /\ m.parts[i] = M!Stream(d, n)[i]
  OBVIOUS
<1> DEFINE f == [disk |-> d, index |-> i, of |-> n]
<1>3. M!Stream(d, n)[i] = f /\ f \in M!PartFiles /\ f.index = i
  BY <1>0 DEF M!Stream, M!PartFiles
<1>4. order[i] \in 1 .. MaxParts /\ m.parts[order[i]] # Absent /\ m.parts[order[i]] = f
  BY <1>2, <1>3 DEF M!Named
<1>5. f # Torn
  BY <1>3, BuildsAssumption DEF M!ImageBuildAssumption
<1> HIDE DEF f
<1>6. order[i] = i
  BY <1>3, <1>4, <1>5 DEF Placed
<1> QED
  BY <1>3, <1>4, <1>6

LEMMA DraftSafe == ImageInv => M!TypeOK /\ M!DraftedIsAudited
<1> SUFFICES ASSUME ImageInv PROVE M!TypeOK /\ M!DraftedIsAudited
  OBVIOUS
<1>0. MaxParts \in Nat \ {0} /\ parts \in [1 .. MaxParts -> ImageParts]
  BY GuestBuildAssumption DEF ImageInv, ImageTypes
<1>1. Len(parts) = MaxParts
  <2>1. parts \in Seq(ImageParts)
    BY <1>0, SeqDef
  <2>2. DOMAIN parts = 1 .. Len(parts) /\ Len(parts) \in Nat
    BY <2>1, LenProperties
  <2>3. 1 .. Len(parts) = 1 .. MaxParts
    BY <1>0, <2>2
  <2> QED
    BY <1>0, <2>2, <2>3, SameInterval
<1>2. M!TypeOK
  BY <1>1 DEF ImageInv, ImageTypes, M!TypeOK, M!At
<1>3. ASSUME M!Draftable
      PROVE  \E d \in M!Disks, n \in 1 .. MaxParts :
               /\ d.deferred /\ M!JoinsTo(manifest, M!Stream(d, n))
               /\ \A i \in 1 .. n : parts[i] = M!Stream(d, n)[i]
  <2>1. Written(manifest)
    BY <1>3 DEF M!Draftable, M!SumsMatch, ImageInv
  <2>2. PICK d \in M!Disks, n \in 1 .. MaxParts : d.deferred /\ manifest.compressed = M!Stream(d, n)
    BY <2>1 DEF Written
  <2>3. M!JoinsTo(manifest, M!Stream(d, n))
    BY <1>3, <2>2 DEF M!Draftable
  <2>4. \A i \in 1 .. n : manifest.parts[i] # Absent /\ manifest.parts[i] = M!Stream(d, n)[i]
    BY <2>1, <2>3, JoinedInPlace DEF Written
  <2>5. \A i \in 1 .. n : parts[i] = M!Stream(d, n)[i]
    BY <1>0, <1>3, <2>4 DEF M!Draftable
  <2> QED
    BY <2>2, <2>3, <2>5
<1> QED
  BY <1>2, <1>3 DEF M!DraftedIsAudited

(* The part of ImagesSound for any number of builders with one output          *)
(* directory: what the workflow drafts is the whole stream of an audited disk. *)
THEOREM DraftsAudited == M!Spec => [](M!TypeOK /\ M!DraftedIsAudited)
<1>1. M!Spec => []ImageInv
  BY ImageInitInv, ImageNextInv, PTL DEF M!Spec
<1> QED
  BY <1>1, DraftSafe, PTL

(* One builder: it found the output empty, and what it has written since is a   *)
(* beginning of its stream.                                                  *)
Beginning(d, n, k) == [i \in 1 .. MaxParts |-> IF i < k THEN M!Stream(d, n)[i] ELSE Absent]

LEMMA BeginningGrows ==
  ASSUME NEW d, NEW n, NEW k \in 1 .. MaxParts
  PROVE  [Beginning(d, n, k) EXCEPT ![k] = M!Stream(d, n)[k]] = Beginning(d, n, k + 1)
<1>1. \A i \in 1 .. MaxParts : (i < k + 1) <=> (i < k \/ i = k)
  BY GuestBuildAssumption
<1> QED
  BY <1>1, Zenon DEF Beginning

WholeStream(m, slots) ==
  \E d \in M!Disks, n \in 1 .. MaxParts :
    m.compressed = M!Stream(d, n) /\ m.parts = slots /\ slots = Beginning(d, n, n + 1)

Wrote(p) ==
  /\ imagePc[p] = "split" =>
       parts = Beginning(imageDisk[p], imageCount[p], imageNext[p])
         /\ manifest = Absent /\ imageSums = Absent
  /\ imagePc[p] = "manifest" =>
       parts = Beginning(imageDisk[p], imageCount[p], imageCount[p] + 1)
         /\ manifest = Absent /\ imageSums = Absent
  /\ imagePc[p] = "sums" => WholeStream(manifest, parts) /\ imageSums = Absent

(* Nothing is written once there are sums: they name every part there is.      *)
SumsWhole ==
  imageSums \notin {Absent, Torn} =>
    WholeStream(imageSums.manifest, parts) /\ imageSums.parts = parts

ImageAlone ==
  /\ ImageInv
  /\ tool = "image" => Alone(imagePc) /\ (\A p \in Procs : Wrote(p)) /\ SumsWhole

LEMMA ImageAloneInit == MCInit => ImageAlone
<1> SUFFICES ASSUME MCInit PROVE ImageAlone
  OBVIOUS
<1>1. M!Init
  BY DEF MCInit
<1>2. imageSums = Absent /\ \A p \in Procs : imagePc[p] = "idle"
  BY <1>1 DEF M!Init
<1> QED
  BY <1>1, <1>2, ImageInitInv DEF ImageAlone, SumsWhole, Alone, Wrote

LEMMA OneImageBuilder ==
  ASSUME Alone(imagePc), Alone(imagePc'), NEW p \in Procs,
         imagePc[p] # "idle" \/ imagePc'[p] # "idle", Wrote(p)'
  PROVE  \A q \in Procs : Wrote(q)'
<1> SUFFICES ASSUME NEW q \in Procs, q # p PROVE Wrote(q)'
  OBVIOUS
<1>1. imagePc'[q] = "idle"
  BY DEF Alone
<1> QED
  BY <1>1 DEF Wrote

LEMMA ImageStep ==
  ASSUME ImageAlone, tool = "image", Alone(imagePc'), NEW p \in Procs,
         \/ M!Install(p) \/ M!Audit(p) \/ M!LookForArtifacts(p) \/ M!Split(p)
         \/ M!WriteManifest(p) \/ M!WriteSums(p) \/ M!CutShort(p)
  PROVE  /\ \A q \in Procs : Wrote(q)'
         /\ SumsWhole'
<1>0. /\ MaxParts \in Nat \ {0} /\ ImageTypes
      /\ parts \in [1 .. MaxParts -> ImageParts]
      /\ imagePc \in [Procs -> {"idle", "audit", "look", "split", "manifest", "sums"}]
      /\ imageDisk \in [Procs -> M!Disks \cup {Absent}]
      /\ imageCount \in [Procs -> 1 .. MaxParts]
      /\ imageNext \in [Procs -> 1 .. MaxParts]
  BY GuestBuildAssumption DEF ImageAlone, ImageInv, ImageTypes
<1>1. Alone(imagePc) /\ Wrote(p) /\ SumsWhole
  BY DEF ImageAlone
<1>2. CASE imagePc'[p] \in {"idle", "audit", "look"} /\ imageSums' \in {imageSums, Torn}
  <2>1. imagePc[p] # "idle" \/ imagePc'[p] # "idle"
    BY <1>0, <1>2 DEF M!Install, M!Audit, M!LookForArtifacts, M!Split, M!WriteManifest,
       M!WriteSums, M!CutShort, M!At, M!Goto
  <2>2. Wrote(p)'
    BY <1>2 DEF Wrote
  <2>3. imageSums \notin {Absent, Torn} => parts' = parts
    BY <1>1, <1>2 DEF M!Install, M!Audit, M!LookForArtifacts, M!Split, M!WriteManifest,
       M!WriteSums, M!CutShort, M!At, M!output, Wrote
  <2>4. SumsWhole'
    BY <1>1, <1>2, <2>3 DEF SumsWhole, WholeStream, Beginning
  <2> QED
    BY <1>1, <2>1, <2>2, <2>4, OneImageBuilder
<1>3. CASE M!LookForArtifacts(p) /\ imagePc'[p] \notin {"idle", "audit", "look"}
  <2>1. /\ imagePc[p] = "look" /\ imagePc'[p] = "split"
        /\ parts = M!NoParts /\ manifest = Absent /\ imageSums = Absent
        /\ UNCHANGED <<parts, manifest, imageSums, imageDisk, imageCount, imageNext>>
    BY <1>0, <1>3 DEF M!LookForArtifacts, M!output, M!At, M!Goto, M!End
  <2>2. imageNext[p] = 1
    BY <1>0, <2>1 DEF ImageTypes
  <2>3. parts = Beginning(imageDisk[p], imageCount[p], 1)
    BY <1>0, <2>1 DEF M!NoParts, Beginning
  <2>4. Wrote(p)'
    BY <2>1, <2>2, <2>3 DEF Wrote, Beginning
  <2> QED
    BY <1>1, <2>1, <2>4, OneImageBuilder DEF SumsWhole
<1>4. CASE M!Split(p)
  <2> DEFINE d == imageDisk[p]  n == imageCount[p]  k == imageNext[p]
  <2>1. /\ imagePc[p] = "split" /\ parts' = [parts EXCEPT ![k] = M!Stream(d, n)[k]]
        /\ UNCHANGED <<manifest, imageSums, imageDisk, imageCount>>
        /\ parts = Beginning(d, n, k) /\ manifest = Absent /\ imageSums = Absent
        /\ k \in 1 .. MaxParts /\ n \in 1 .. MaxParts /\ k <= n
    BY <1>0, <1>1, <1>4 DEF M!Split, M!At, Wrote, ImageTypes
  <2>2. parts' = Beginning(d, n, k + 1)
    BY <2>1, BeginningGrows
  <2>3. CASE imageNext' = [imageNext EXCEPT ![p] = k + 1] /\ imagePc' = imagePc
    <3>1. imageNext'[p] = k + 1 /\ imagePc'[p] = "split"
      BY <1>0, <2>1, <2>3
    <3>2. parts' = Beginning(imageDisk'[p], imageCount'[p], imageNext'[p])
      BY <2>1, <2>2, <3>1
    <3>3. Wrote(p)'
      BY <2>1, <3>1, <3>2 DEF Wrote, Beginning
    <3> QED
      BY <1>1, <2>1, <3>3, OneImageBuilder DEF SumsWhole
  <2>4. CASE M!Goto(p, "manifest") /\ ~ (k < n)
    <3>1. imagePc'[p] = "manifest" /\ k = n
      BY <1>0, <2>1, <2>4 DEF M!Goto
    <3>2. Wrote(p)'
      BY <2>1, <2>2, <3>1 DEF Wrote, Beginning
    <3> QED
      BY <1>1, <2>1, <3>2, OneImageBuilder DEF SumsWhole
  <2> QED
    BY <1>4, <2>3, <2>4 DEF M!Split
<1>5. CASE M!WriteManifest(p)
  <2> DEFINE d == imageDisk[p]  n == imageCount[p]
  <2>1. /\ imagePc[p] = "manifest" /\ imagePc'[p] = "sums"
        /\ manifest' = [compressed |-> M!Stream(d, n), parts |-> parts]
        /\ UNCHANGED <<parts, imageSums>>
        /\ parts = Beginning(d, n, n + 1) /\ imageSums = Absent
        /\ d \in M!Disks /\ n \in 1 .. MaxParts
    BY <1>0, <1>1, <1>5 DEF M!WriteManifest, M!At, M!Goto, Wrote, ImageTypes
  <2>2. WholeStream(manifest', parts')
    BY <2>1 DEF WholeStream
  <2>3. Wrote(p)'
    BY <2>1, <2>2 DEF Wrote, WholeStream, Beginning
  <2> QED
    BY <1>1, <2>1, <2>3, OneImageBuilder DEF SumsWhole
<1>6. CASE M!WriteSums(p)
  <2>1. /\ imagePc[p] = "sums" /\ imagePc'[p] = "idle"
        /\ imageSums' = [parts |-> parts, manifest |-> manifest]
        /\ WholeStream(manifest, parts) /\ parts' = parts
    BY <1>0, <1>1, <1>6 DEF M!WriteSums, M!At, M!End, M!Goto, Wrote
  <2>2. Wrote(p)'
    BY <2>1 DEF Wrote
  <2>3. SumsWhole'
    BY <2>1 DEF SumsWhole, WholeStream, Beginning
  <2> QED
    BY <1>1, <2>1, <2>2, <2>3, OneImageBuilder
<1> QED
  <2>1. M!Install(p) \/ M!Audit(p) \/ M!CutShort(p) =>
          imagePc'[p] \in {"idle", "audit", "look"} /\ imageSums' \in {imageSums, Torn}
    BY <1>0 DEF M!Install, M!Audit, M!CutShort, M!Goto, M!End, M!output
  <2>2. M!LookForArtifacts(p) => imageSums' = imageSums
    BY DEF M!LookForArtifacts, M!output
  <2> QED
    BY <1>2, <1>3, <1>4, <1>5, <1>6, <2>1, <2>2

LEMMA ImageAloneNext == ImageAlone /\ [MCNext]_mcVars => ImageAlone'
<1> SUFFICES ASSUME ImageAlone, [MCNext]_mcVars PROVE ImageAlone'
  OBVIOUS
<1>1. tool' = tool /\ ImageInv'
  BY ToolSteps, ImageNextInv DEF ImageAlone
<1>2. CASE tool # "image"
  BY <1>1, <1>2 DEF ImageAlone
<1>3. CASE tool = "image" /\ UNCHANGED images
  <2>1. UNCHANGED <<parts, manifest, imageSums, imagePc, imageDisk, imageCount, imageNext>>
    BY <1>3 DEF images
  <2>2. ASSUME NEW p \in Procs, Wrote(p) PROVE Wrote(p)'
    BY <2>1, <2>2 DEF Wrote, Beginning, WholeStream
  <2>3. SumsWhole => SumsWhole'
    BY <2>1 DEF SumsWhole, Beginning, WholeStream
  <2> QED
    BY <1>1, <1>3, <2>1, <2>2, <2>3 DEF ImageAlone
<1>4. CASE tool = "image" /\ M!Next /\ Alone(imagePc')
  <2>1. CASE M!CleanUp
    <3>1. imageSums' = Absent /\ \A p \in Procs : imagePc'[p] = "idle"
      BY <2>1 DEF M!CleanUp, M!local, M!At
    <3>2. \A p \in Procs : Wrote(p)'
      BY <3>1 DEF Wrote
    <3> QED
      BY <1>1, <1>4, <3>1, <3>2 DEF ImageAlone, SumsWhole
  <2>2. CASE ~ M!CleanUp
    <3>1. PICK p \in Procs :
            \/ M!Install(p) \/ M!Audit(p) \/ M!LookForArtifacts(p) \/ M!Split(p)
            \/ M!WriteManifest(p) \/ M!WriteSums(p) \/ M!CutShort(p)
      BY <1>4, <2>2 DEF M!Next
    <3>2. (\A q \in Procs : Wrote(q)') /\ SumsWhole'
      BY <1>4, <3>1, ImageStep
    <3> QED
      BY <1>1, <1>4, <3>2 DEF ImageAlone
  <2> QED
    BY <2>1, <2>2
<1>5. UNCHANGED mcVars => UNCHANGED images
  BY DEF mcVars
<1> QED
  BY <1>2, <1>3, <1>4, <1>5 DEF MCNext

LEMMA ImageAlways == MCSpec => []ImageAlone
BY ImageAloneInit, ImageAloneNext, PTL DEF MCSpec

(* ImagesSound: any number of builders, and for one alone what the sums prove. *)
THEOREM ImagesSafe == MCSpec => []ImagesSound
<1>1. ImageAlone /\ tool = "image" => M!SumsProveStream
  <2> SUFFICES ASSUME ImageAlone, tool = "image", M!SumsMatch
               PROVE  \E d \in M!Disks, n \in 1 .. MaxParts :
                        /\ manifest.compressed = M!Stream(d, n) /\ manifest.parts = parts
                        /\ \A i \in 1 .. MaxParts :
                             parts[i] = IF i <= n THEN M!Stream(d, n)[i] ELSE Absent
    BY DEF M!SumsProveStream
  <2>1. WholeStream(manifest, parts)
    BY DEF ImageAlone, SumsWhole, M!SumsMatch
  <2>2. PICK d \in M!Disks, n \in 1 .. MaxParts :
          manifest.compressed = M!Stream(d, n) /\ manifest.parts = parts
            /\ parts = Beginning(d, n, n + 1)
    BY <2>1 DEF WholeStream
  <2>3. \A i \in 1 .. MaxParts : parts[i] = IF i <= n THEN M!Stream(d, n)[i] ELSE Absent
    BY <2>2, GuestBuildAssumption DEF Beginning
  <2> QED
    BY <2>2, <2>3
<1>2. ImageAlone => ImagesSound
  BY <1>1, DraftSafe DEF ImageAlone, ImagesSound
<1> QED
  BY <1>2, ImageAlways, PTL

-----------------------------------------------------------------------------
(* Finished work. While a builder writes, what lies there is not finished.     *)
LEMMA FactoryKept ==
  ASSUME OneBuilder, GuestInv, Candidate, [Next]_vars
  PROVE  out' = out
<1>1. \A p \in Builders : pc[p] \notin {"describe", "split", "manifest", "sums"}
  BY DEF Candidate, Verified, GuestInv, Progress
<1>2. ASSUME NEW p \in Builders, Start(p) \/ Step(p) PROVE out' = out
  BY <1>1, <1>2 DEF Start, Step, CheckOutput, FetchIso, VerifyIso, Install, Sanitize, Audit,
     Describe, Compress, Split, WriteManifest, WriteSums, VerifyRelease, IsoGone, Same, At
<1>3. ASSUME NEW p \in Builders, Fail(p) \/ Kill(p) PROVE out' = out
  BY <1>1, <1>3 DEF Fail, Kill, CutShort, At
<1>4. ~ CleanUp
  BY DEF CleanUp
<1> QED
  BY <1>2, <1>3, <1>4 DEF Next, Decay, EmptyCache, vars

LEMMA ImageKept ==
  ASSUME ImageAlone, tool = "image", M!SumsMatch, [M!Next]_(M!vars)
  PROVE  UNCHANGED <<parts, manifest, imageSums>>
<1>1. \A p \in Procs : imagePc[p] \notin {"split", "manifest", "sums"}
  BY DEF ImageAlone, Wrote, M!SumsMatch
<1>2. ASSUME NEW p \in Procs,
             \/ M!Install(p) \/ M!Audit(p) \/ M!LookForArtifacts(p) \/ M!Split(p)
             \/ M!WriteManifest(p) \/ M!WriteSums(p) \/ M!CutShort(p)
      PROVE  UNCHANGED <<parts, manifest, imageSums>>
  BY <1>1, <1>2 DEF M!Install, M!Audit, M!LookForArtifacts, M!Split, M!WriteManifest,
     M!WriteSums, M!CutShort, M!At, M!output
<1>3. ~ M!CleanUp
  BY DEF M!CleanUp
<1> QED
  BY <1>2, <1>3 DEF M!Next, M!vars, M!output

(* FinishedWorkKept: whatever one builder is asked to do, and however it ends,  *)
(* a complete output stays as it is.                                         *)
THEOREM WorkKept ==
  ASSUME OneBuilder
  PROVE  MCSpec => FinishedWorkKept
<1>1. MCInit => GuestInv
  BY GuestInit DEF MCInit
<1>2. GuestInv /\ [MCNext]_mcVars => GuestInv'
  BY GuestNext, ToolSteps
<1>3. MCSpec => []GuestInv
  BY <1>1, <1>2, PTL DEF MCSpec
<1>4. GuestInv /\ ImageAlone /\ [MCNext]_mcVars =>
        [/\ Candidate => out' = out
         /\ tool = "image" /\ M!SumsMatch => UNCHANGED <<parts, manifest, imageSums>>]_mcVars
  BY FactoryKept, ImageKept, ToolSteps
<1> QED
  BY <1>3, <1>4, ImageAlways, PTL DEF MCSpec, FinishedWorkKept

=============================================================================
