-------------------------------- MODULE MCTools --------------------------------
(***************************************************************************)
(* Four programs for TLC, each on its own small instance; a behaviour is of  *)
(* one of them, and the others stay as they start:                          *)
(*   Resources  PCs on either side of the host minimum and of every bound of *)
(*              the choice;                                               *)
(*   Fat12      the repository's two files by their code points: every text  *)
(*              of up to five bytes, markers on both sides of a cluster, one  *)
(*              text that needs more clusters than a byte counts;           *)
(*   Inventory  databases of up to two packages in either order: with no     *)
(*              licence, one or two, a description that looks like a heading, *)
(*              a tab in a text, a name missing;                           *)
(*   Expand     every place for a corrupt chunk and for one not readable.    *)
(***************************************************************************)
EXTENDS Resources, Sequences

CONSTANTS
  Files, Contents,             \* of the configuration image
  BytesPerSector, ReservedSectors, FatCount, SectorsPerFat,
  RootEntries, RootSectors, TotalSectors,
  Databases,                   \* what pacman may have installed
  Chunks, Ratio, Capacity,     \* of the stream to verify
  MaxFaults                    \* bound: kills of zstd

VARIABLES
  tool,
  contents, eol, fatPc, file, payload, index, next, fat, data, root,
  database, listPc, packages, tsv, components, expressions, notices,
  content, corrupt, missing, writer, sent, writer_error, stdin, closed, stdout,
  zstd, taken, pending, main, hashed, verdict, faults

fat12 == <<contents, eol, fatPc, file, payload, index, next, fat, data, root>>
inventory == <<database, listPc, packages, tsv, components, expressions, notices>>
expand == <<content, corrupt, missing, writer, sent, writer_error, stdin, closed, stdout,
            zstd, taken, pending, main, hashed, verdict, faults>>
mcVars == <<tool, vars, fat12, inventory, expand>>

-----------------------------------------------------------------------------
Memories == {4096, 6144, 8191, 8192, 8193, 10240, 16384, 31744, 32768, 65536, 131072}

UserConfiguration ==
  [long |-> <<117, 115, 101, 114, 95, 99, 111, 110, 102, 105, 103, 117, 114, 97,
              116, 105, 111, 110, 46, 106, 115, 111, 110>>,
   short |-> <<85, 83, 69, 82, 95, 67, 126, 49, 74, 83, 79>>, text |-> TRUE]

DeferProvisioning ==
  [long |-> <<100, 101, 102, 101, 114, 45, 112, 114, 111, 118, 105, 115, 105, 111,
              110, 105, 110, 103>>,
   short |-> <<68, 69, 70, 69, 82, 45, 126, 49, 32, 32, 32>>, text |-> FALSE]

Texts == UNION {[1 .. n -> {10, 123}] : n \in 0 .. 5}
Markers == {[i \in 1 .. n |-> 120 + i] : n \in {0, 4, 5}}
LongText == [i \in 1 .. 515 |-> IF i % 7 = 0 THEN 10 ELSE 48 + (i % 64)]

RepositoryFiles == <<UserConfiguration, DeferProvisioning>>
SmallContents ==
  {<<t, m>> : t \in Texts, m \in Markers}
    \cup {<<LongText, <<120, 121, 122, 123, 124>> >>}

F == INSTANCE Fat12 WITH pc <- fatPc

Package(name, desc, url, license) ==
  [NAME |-> name, VERSION |-> << <<1>> >>, DESC |-> desc, URL |-> url,
   ARCH |-> << <<2>> >>, LICENSE |-> license]

(* <<"%", k>> is a heading, <<0>> the text with a tab in it. *)
Packages ==
  {Package(<< <<n>> >>, d, u, l) :
     n \in 1 .. 3, d \in {<<>>, << <<5>> >>, << <<"%", "NAME">> >>, << <<"%", "LICENSE">> >>},
     u \in {<<>>, << <<0>> >>}, l \in {<<>>, << <<6>> >>, << <<6>>, <<7>> >>}}
  \cup {Package(<<>>, <<>>, <<>>, <<>>)}

SmallDatabases ==
  {db \in UNION {[1 .. n -> Packages] : n \in 0 .. 2} :
     \A i, j \in DOMAIN db : i # j => db[i].NAME # db[j].NAME}

I == INSTANCE Inventory WITH pc <- listPc

E == INSTANCE Expand

ASSUME ToolsAssumption ==
  F!Fat12Assumption /\ I!InventoryAssumption /\ E!ExpandAssumption

-----------------------------------------------------------------------------
(* What is not at work starts in one way. *)
MCInit ==
  /\ tool \in {"resources", "fat12", "inventory", "expand"}
  /\ Init /\ (tool # "resources" => hostMemoryMiB = 8192 /\ processors = 8)
  /\ F!Init /\ (tool # "fat12" => contents = << <<>>, <<>> >> /\ eol = "lf")
  /\ I!Init /\ (tool # "inventory" => database = <<>>)
  /\ E!Init /\ (tool # "expand" => content = "image" /\ corrupt = 0 /\ missing = 0)

MCNext ==
  /\ \/ tool = "resources" /\ Next /\ UNCHANGED <<fat12, inventory, expand>>
     \/ tool = "fat12" /\ F!Next /\ UNCHANGED <<vars, inventory, expand>>
     \/ tool = "inventory" /\ I!Next /\ UNCHANGED <<vars, fat12, expand>>
     \/ tool = "expand" /\ E!Next /\ UNCHANGED <<vars, fat12, inventory>>
  /\ UNCHANGED tool

MCSpec ==
  /\ MCInit /\ [][MCNext]_mcVars
  /\ WF_expand(tool = "expand" /\ E!Writer)
  /\ WF_expand(tool = "expand" /\ E!Zstd)
  /\ WF_expand(tool = "expand" /\ E!Main)

-----------------------------------------------------------------------------
(* Fat12: a reader of the finished image finds the repository's files. *)
ImageReadsBack == F!ReadsBack

(* Inventory: the inventories agree with each other and with the disk.         *)
InventoryTrue == I!InventoryTrue

(* Expand: accepted is the image, refused is for a reason. *)
VerdictIsTrue == E!VerdictIsTrue

(* Expand: the verification ends, whatever the release holds and whoever dies. *)
VerificationEnds == tool = "expand" => E!VerificationEnds
=============================================================================
