------------------------------- MODULE Package -------------------------------
(***************************************************************************)
(* The source package and the configuration image inside it:                 *)
(* scripts/package.py runs image/make_cidata.py, lists the tree, stages a     *)
(* copy, zips it and writes the digest. Both programs work in the tree they   *)
(* describe, are run again after a failure, and may be killed anywhere.       *)
(*                                                                         *)
(* A file is a version of its contents. What the image's bytes are is Fat12's *)
(* business: here it is the pair of versions it was built from.              *)
(***************************************************************************)
EXTENDS Naturals

CONSTANTS
  Procs,      \* processes, each free to run any job again
  Jobs,       \* what they run: "make" (make_cidata.py), "package"
  Absent,     \* no such file
  Torn,       \* a file cut short
  Link,       \* a symbolic link
  MaxEdits,   \* bound: changes to the tree
  MaxFaults,  \* bound: writes that fail
  MaxKills    \* bound: processes killed

(* FILES; the rest of what the package includes; what it excludes as generated.*)
Configuration == {"user_configuration.json", "defer-provisioning"}
Names == Configuration \cup {"included", "generated"}
Versions == 0 .. MaxEdits

(* A file cut short is nobody's image. *)
PackageAssumption ==
  /\ Jobs \subseteq {"make", "package"}
  /\ {MaxEdits, MaxFaults, MaxKills} \subseteq Nat
  /\ Torn \notin [Configuration -> Versions \cup {Absent, Link}]

(* The other files of the package: the image, and a temporary of its writer.  *)
Image == "cidata.img"
Temporary == ".cidata.img."
Packed == Names \cup {Image, Temporary}
NoFiles == [n \in Packed |-> Absent]

VARIABLES
  tree,     \* what the developer keeps under each name
  image,    \* image/cidata/cidata.img
  litter,   \* a killed writer's temporary lies beside the sources
  stage,    \* STAGE
  archive,  \* ARCHIVE: its files, and whether it has its directory
  sums,     \* SHA256SUMS: the archive it is the digest of
  pc, job, payloads, files,   \* of each process
  made,     \* an image was made of the tree as it is now
  edits, faults, kills

local == <<pc, job, payloads, files>>
bounds == <<edits, faults, kills>>
vars == <<tree, image, litter, stage, archive, sums, local, made, bounds>>

Idle == \A p \in Procs : pc[p] = "idle"

(* What make_cidata.py makes of the tree as it is. *)
Built == [n \in Configuration |-> tree[n]]

(* A clone: the committed image is the one of the committed sources.          *)
Init ==
  /\ tree = [n \in Names |-> IF n = "generated" THEN Absent ELSE 0]
  /\ image = Built /\ litter = FALSE
  /\ stage = NoFiles /\ archive = Absent /\ sums = Absent
  /\ pc = [p \in Procs |-> "idle"] /\ job \in [Procs -> Jobs]
  /\ payloads = [p \in Procs |-> [n \in Configuration |-> Absent]]
  /\ files = [p \in Procs |-> {}]
  /\ made = TRUE /\ edits = 0 /\ faults = 0 /\ kills = 0

-----------------------------------------------------------------------------
Goto(p, l) == pc' = [pc EXCEPT ![p] = l]
At(p, l) == pc[p] = l

End(p) == Goto(p, "idle")

(* A writer's temporary is there from mkstemp to os.replace. *)
HasTemporary(p) == pc[p] \in {"write", "replace"}
TemporarySeen == litter \/ \E p \in Procs : HasTemporary(p)

Start(p) ==
  /\ At(p, "idle")
  /\ \E j \in Jobs : job' = [job EXCEPT ![p] = j]
  /\ Goto(p, "scan")
  /\ UNCHANGED <<tree, image, litter, stage, archive, sums, payloads, files, made, bounds>>

(* present, against expected: nothing missing, nothing else but the image.    *)
SourceSetMatches == (\A n \in Configuration : tree[n] # Absent) /\ ~ TemporarySeen

(* build_image reads the directory, then both sources. *)
Scan(p) ==
  /\ At(p, "scan")
  /\ IF SourceSetMatches THEN Goto(p, "read") ELSE End(p)
  /\ UNCHANGED <<tree, image, litter, stage, archive, sums, job, payloads, files, made, bounds>>

ReadSources(p) ==
  /\ At(p, "read")
  /\ payloads' = [payloads EXCEPT ![p] = Built]
  /\ Goto(p, "mkstemp")
  /\ UNCHANGED <<tree, image, litter, stage, archive, sums, job, files, made, bounds>>

(* Mutant: the image is written where it is. *)
WriteInPlace(p) ==
  /\ At(p, "mkstemp") /\ Goto(p, "write") /\ image' = Torn
  /\ UNCHANGED <<tree, litter, stage, archive, sums, job, payloads, files, made, bounds>>

(* _write_atomic: the temporary, beside the image. *)
MakeTemporary(p) ==
  /\ At(p, "mkstemp") /\ Goto(p, "write")
  /\ UNCHANGED <<tree, image, litter, stage, archive, sums, job, payloads, files, made, bounds>>

(* Written and synced. *)
WriteTemporary(p) ==
  /\ At(p, "write") /\ Goto(p, "replace")
  /\ UNCHANGED <<tree, image, litter, stage, archive, sums, job, payloads, files, made, bounds>>

(* The finally clause removes it. *)
WriteFails(p) ==
  /\ HasTemporary(p) /\ faults < MaxFaults /\ faults' = faults + 1
  /\ End(p)
  /\ UNCHANGED <<tree, image, litter, stage, archive, sums, job, payloads, files, made, edits, kills>>

(* os.replace; package.py goes on, make_cidata.py ends. *)
ReplaceImage(p) ==
  /\ At(p, "replace") /\ image' = payloads[p] /\ made' = TRUE
  /\ IF job[p] = "package" THEN Goto(p, "list") ELSE End(p)
  /\ UNCHANGED <<tree, litter, stage, archive, sums, job, payloads, files, bounds>>

-----------------------------------------------------------------------------
(* The file a name stands for, as package.py finds it. *)
OnDisk(n) ==
  CASE n = Image -> image
    [] n = Temporary -> IF TemporarySeen THEN Torn ELSE Absent
    [] OTHER -> tree[n]

(* included_files, without what is_generated_payload excludes.                *)
Included == {n \in Packed \ {"generated"} : OnDisk(n) # Absent}

(* Both loops go through sorted paths: one order, whichever.                  *)
First(S) == CHOOSE n \in S : TRUE

(* The list; a link among it refuses the package before anything is touched.  *)
ListFiles(p) ==
  /\ At(p, "list") /\ files' = [files EXCEPT ![p] = Included]
  /\ IF \E n \in Included : OnDisk(n) = Link
     THEN End(p) ELSE Goto(p, "clear")
  /\ UNCHANGED <<tree, image, litter, stage, archive, sums, job, payloads, made, bounds>>

(* Mutant: what an earlier run staged stays. *)
KeepStage(p) ==
  /\ At(p, "clear") /\ Goto(p, "copy")
  /\ UNCHANGED <<tree, image, litter, stage, archive, sums, job, payloads, files, made, bounds>>

(* shutil.rmtree(STAGE) *)
ClearStage(p) ==
  /\ At(p, "clear") /\ Goto(p, "copy") /\ stage' = NoFiles
  /\ UNCHANGED <<tree, image, litter, archive, sums, job, payloads, files, made, bounds>>

(* One file into STAGE, or, when none is left, the old archive goes and a new *)
(* one is opened, with what STAGE holds to be added.                         *)
CopyFile(p) ==
  /\ At(p, "copy")
  /\ \/ /\ files[p] # {}
        /\ stage' = [stage EXCEPT ![First(files[p])] = OnDisk(First(files[p]))]
        /\ files' = [files EXCEPT ![p] = @ \ {First(@)}]
        /\ UNCHANGED <<pc, archive>>
     \/ /\ files[p] = {} /\ Goto(p, "zip")
        /\ archive' = [files |-> NoFiles, closed |-> FALSE]
        /\ files' = [files EXCEPT ![p] = {n \in Packed : stage[n] # Absent}]
        /\ UNCHANGED stage
  /\ UNCHANGED <<tree, image, litter, sums, job, payloads, made, bounds>>

(* archive.writestr; after the last file the archive gets its directory.      *)
ZipFile(p) ==
  /\ At(p, "zip")
  /\ \/ /\ files[p] # {}
        /\ archive' = [archive EXCEPT !.files[First(files[p])] = stage[First(files[p])]]
        /\ files' = [files EXCEPT ![p] = @ \ {First(@)}]
        /\ UNCHANGED pc
     \/ /\ files[p] = {} /\ Goto(p, "sum")
        /\ archive' = [archive EXCEPT !.closed = TRUE] /\ UNCHANGED files
  /\ UNCHANGED <<tree, image, litter, stage, sums, job, payloads, made, bounds>>

(* Mutant: the digest is written whatever happened. *)
PackageFailsSummed(p) ==
  /\ pc[p] \in {"copy", "zip", "sum"} /\ faults < MaxFaults /\ faults' = faults + 1
  /\ archive' = IF At(p, "zip") THEN [archive EXCEPT !.closed = TRUE] ELSE archive
  /\ sums' = archive' /\ End(p)
  /\ UNCHANGED <<tree, image, litter, stage, job, payloads, files, made, edits, kills>>

(* A copy or a write that fails. ZipFile is closed on the way out: it gets a   *)
(* directory of what it holds so far.                                        *)
PackageFails(p) ==
  /\ pc[p] \in {"copy", "zip", "sum"} /\ faults < MaxFaults /\ faults' = faults + 1
  /\ archive' = IF At(p, "zip") THEN [archive EXCEPT !.closed = TRUE] ELSE archive
  /\ End(p)
  /\ UNCHANGED <<tree, image, litter, stage, sums, job, payloads, files, made, edits, kills>>

(* SHA256SUMS *)
WriteSums(p) ==
  /\ At(p, "sum") /\ sums' = archive /\ End(p)
  /\ UNCHANGED <<tree, image, litter, stage, archive, job, payloads, files, made, bounds>>

-----------------------------------------------------------------------------
(* Killed: no finally clause runs. *)
Kill(p) ==
  /\ ~ At(p, "idle") /\ kills < MaxKills /\ kills' = kills + 1
  /\ litter' = (litter \/ HasTemporary(p)) /\ End(p)
  /\ UNCHANGED <<tree, image, stage, archive, sums, job, payloads, files, made, edits, faults>>

(* The developer changes, removes or links a file, between runs. *)
Edit ==
  /\ Idle /\ edits < MaxEdits /\ edits' = edits + 1
  /\ \E n \in Names, v \in {edits + 1, Absent, Link} : tree' = [tree EXCEPT ![n] = v]
  /\ made' = (image = [n \in Configuration |-> tree'[n]])
  /\ UNCHANGED <<image, litter, stage, archive, sums, local, faults, kills>>

Step(p) ==
  \/ Scan(p) \/ ReadSources(p)
  \/ MakeTemporary(p) \/ WriteTemporary(p) \/ ReplaceImage(p)
  \/ ListFiles(p) \/ ClearStage(p) \/ CopyFile(p) \/ ZipFile(p) \/ WriteSums(p)

Next ==
  \/ \E p \in Procs : Start(p) \/ Step(p) \/ WriteFails(p) \/ PackageFails(p) \/ Kill(p)
  \/ Edit

Spec == Init /\ [][Next]_vars

-----------------------------------------------------------------------------
(* Types; and only a killed writer leaves a temporary. *)
TypeOK ==
  /\ tree \in [Names -> Versions \cup {Absent, Link}]
  /\ litter \in BOOLEAN /\ made \in BOOLEAN /\ (litter => kills > 0)
  /\ job \in [Procs -> Jobs] /\ files \in [Procs -> SUBSET Packed]
  /\ payloads \in [Procs -> [Configuration -> Versions \cup {Absent, Link}]]
  /\ DOMAIN stage = Packed

(* Types; the image is whole whenever anyone looks, however its writers end,   *)
(* and once one has ended well it is the sources' image, until they change.    *)
ImageWholeAndFresh == TypeOK /\ image # Torn /\ (made /\ Idle => image = Built)

(* An archive that agrees with SHA256SUMS was closed, lacks no configuration   *)
(* file, and its image is the one of that configuration. Runs cut short leave *)
(* an archive that does not agree. That it is the whole tree is PackageIsTree. *)
SumsProveArchive ==
  sums # Absent /\ sums = archive =>
    /\ archive.closed
    /\ archive.files[Image] = [n \in Configuration |-> archive.files[n]]
    /\ \A n \in Configuration : archive.files[n] # Absent

(* What ends in an archive is the tree as it was, nothing that an earlier run  *)
(* staged or left beside the sources, and nothing generated.                  *)
TreeArchived ==
  \A p \in Procs : At(p, "sum") /\ sums' # sums =>
    archive.files = [n \in Packed |-> IF n \in Included THEN OnDisk(n) ELSE Absent]

PackageIsTree == [][TreeArchived]_vars
=============================================================================
