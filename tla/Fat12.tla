-------------------------------- MODULE Fat12 --------------------------------
(***************************************************************************)
(* image/make_cidata.py, build_image: the two configuration files of the      *)
(* guest as a FAT12 image, built with no file system tool so that every host  *)
(* makes the same bytes. One action per statement of its loops.              *)
(*                                                                         *)
(* Bytes and UTF-16 units are numbers. A sector of the data area and an entry *)
(* of the root directory are records of what their bytes say; the table keeps *)
(* its bytes, because two entries share one.                                 *)
(***************************************************************************)
EXTENDS Integers, Sequences, FiniteSets, SequencesExt

CONSTANTS
  Files,            \* FILES: long name, short name, and whether it is text
  Contents,         \* what the repository may hold, a sequence per file
  BytesPerSector, ReservedSectors, FatCount, SectorsPerFat,
  RootEntries, RootSectors, TotalSectors

LF == 10
CR == 13
FatEof == 4095                       \* FAT_EOF
Bits == 256                          \* a byte holds less
Bytes == 0 .. Bits - 1
Units == 1 .. 65535                  \* of UTF-16, in a name

(* The root directory fills its sectors. *)
DiskAssumption ==
  /\ {BytesPerSector, ReservedSectors, FatCount, SectorsPerFat,
      RootEntries, RootSectors, TotalSectors} \subseteq Nat \ {0}
  /\ RootSectors * BytesPerSector = RootEntries * 32

(* There are bytes for each file; the repository's texts hold no CR.          *)
FilesAssumption ==
  /\ Files \in Seq([long : Seq(Units), short : Seq(Bytes), text : BOOLEAN]) /\ Files # <<>>
  /\ Contents \subseteq Seq(Seq(Bytes))
  /\ \A c \in Contents : /\ Len(c) = Len(Files)
                         /\ \A f \in 1 .. Len(Files) :
                              Files[f].text => \A i \in 1 .. Len(c[f]) : c[f][i] # CR

Fat12Assumption == DiskAssumption /\ FilesAssumption

DataStartSector == ReservedSectors + FatCount * SectorsPerFat + RootSectors
FatBytes == SectorsPerFat * BytesPerSector
Sectors == DataStartSector .. TotalSectors - 1

VARIABLES
  contents,  \* what the repository holds
  eol,       \* how this host's checkout ends a line
  pc,        \* "scan", "clusters", "layout", "done", "overflow"
  file,      \* position in Files
  payload,   \* its bytes, read
  index,     \* clusters of it written so far
  next,      \* next_cluster
  fat,       \* the table's bytes
  data,      \* the data area, by sector
  root       \* root_entries

vars == <<contents, eol, pc, file, payload, index, next, fat, data, root>>

Volume == [kind |-> "volume"]

(* The table opens with its two reserved entries, the root with the label.    *)
Init ==
  /\ contents \in Contents /\ eol \in {"lf", "crlf"}
  /\ pc = "scan" /\ file = 1 /\ payload = <<>> /\ index = 0 /\ next = 2
  /\ fat = [b \in 0 .. FatBytes - 1 |->
              CASE b = 0 -> 240 [] b \in {1, 2} -> 255 [] OTHER -> 0]
  /\ data = [s \in Sectors |-> <<>>]
  /\ root = <<Volume>>

-----------------------------------------------------------------------------
(* The members of a finite set of positions, in order. *)
Rank(positions, p) == Cardinality({q \in positions : q <= p})

InOrder(positions) ==
  [k \in 1 .. Cardinality(positions) |-> CHOOSE p \in positions : Rank(positions, p) = k]

(* The sources on this host: git ends the lines of text as it is told to.     *)
(* Byte i of what the repository holds is at 2i, the CR before an LF at 2i - 1. *)
Checkout(name, bytes) ==
  LET kept == InOrder({p \in 1 .. 2 * Len(bytes) :
                         p % 2 = 0 \/ bytes[(p + 1) \div 2] = LF})
  IN  IF name.text /\ eol = "crlf"
      THEN [k \in 1 .. Len(kept) |->
              IF kept[k] % 2 = 0 THEN bytes[kept[k] \div 2] ELSE CR]
      ELSE bytes

(* replace(b"\r\n", b"\n"): a CR that an LF follows goes. *)
WithoutCRLF(bytes) ==
  LET kept == InOrder({i \in 1 .. Len(bytes) :
                         ~ (bytes[i] = CR /\ i < Len(bytes) /\ bytes[i + 1] = LF)})
  IN  [k \in 1 .. Len(kept) |-> bytes[kept[k]]]

(* replace(b"\r", b"\n"). *)
WithoutCR(bytes) == [i \in 1 .. Len(bytes) |-> IF bytes[i] = CR THEN LF ELSE bytes[i]]

(* _read_payload *)
ReadPayload(name, bytes) ==
  IF name.text THEN WithoutCR(WithoutCRLF(bytes)) ELSE bytes

(* Mutant: an odd entry overwrites the byte it shares with the one before.    *)
SetFat12EntryUnmasked(table, cluster, value) ==
  LET offset == cluster + cluster \div 2
  IN  IF cluster % 2 = 0
      THEN [table EXCEPT ![offset] = value % Bits,
                         ![offset + 1] = @ - (@ % 16) + ((value \div Bits) % 16)]
      ELSE [table EXCEPT ![offset] = (value * 16) % Bits,
                         ![offset + 1] = (value \div 16) % Bits]

(* _set_fat12_entry: twelve bits of three bytes for every two entries.        *)
SetFat12Entry(table, cluster, value) ==
  LET offset == cluster + cluster \div 2
  IN  IF cluster % 2 = 0
      THEN [table EXCEPT ![offset] = value % Bits,
                         ![offset + 1] = @ - (@ % 16) + ((value \div Bits) % 16)]
      ELSE [table EXCEPT ![offset] = (@ % 16) + ((value * 16) % Bits),
                         ![offset + 1] = (value \div 16) % Bits]

(* _short_name_checksum: rotate right in eight bits, add. *)
ShortNameChecksum(short) ==
  LET sum[n \in 0 .. Len(short)] ==
        IF n = 0 THEN 0
        ELSE ((sum[n - 1] % 2) * 128 + sum[n - 1] \div 2 + short[n]) % Bits
  IN  sum[Len(short)]

(* The units of a name: ended by 0, then 65535 up to a multiple of thirteen.  *)
PaddedUnits(units) ==
  LET length == 13 * ((Len(units) + 13) \div 13)
  IN  [i \in 1 .. length |-> IF i <= Len(units) THEN units[i]
                             ELSE IF i = Len(units) + 1 THEN 0 ELSE 65535]

(* _lfn_entries: the chunks of a name, the last one first and marked. *)
LfnEntries(name) ==
  LET units == PaddedUnits(name.long)
      count == Len(units) \div 13
  IN  Reverse([i \in 1 .. count |->
         [kind |-> "lfn", sequence |-> i, last |-> i = count,
          checksum |-> ShortNameChecksum(name.short),
          units |-> SubSeq(units, 13 * (i - 1) + 1, 13 * i)]])

(* _directory_entry *)
DirectoryEntry(short, first, size) ==
  [kind |-> "file", short |-> short, first |-> first, size |-> size]

ClusterCount == (Len(payload) + BytesPerSector - 1) \div BytesPerSector

-----------------------------------------------------------------------------
(* The loop over the files. *)
ReadFile ==
  /\ pc = "scan"
  /\ payload' = ReadPayload(Files[file], Checkout(Files[file], contents[file]))
  /\ index' = 0 /\ pc' = "clusters"
  /\ UNCHANGED <<contents, eol, file, next, fat, data, root>>

(* The next cluster of the chain, or its end. *)
Following(cluster) == IF index + 1 < ClusterCount THEN cluster + 1 ELSE FatEof

(* One cluster: its entry in the table, its bytes in its sector. *)
PlaceCluster ==
  /\ pc = "clusters" /\ index < ClusterCount
  /\ fat' = SetFat12Entry(fat, next + index, Following(next + index))
  /\ data' = [data EXCEPT ![DataStartSector + next + index - 2] =
                SubSeq(payload, index * BytesPerSector + 1,
                       Min({Len(payload), (index + 1) * BytesPerSector}))]
  /\ index' = index + 1
  /\ UNCHANGED <<contents, eol, pc, file, payload, next, root>>

(* The file's entries: a file of no cluster starts nowhere. *)
DescribeFile ==
  /\ pc = "clusters" /\ index = ClusterCount
  /\ root' = root \o LfnEntries(Files[file])
                  \o <<DirectoryEntry(Files[file].short,
                         IF ClusterCount > 0 THEN next ELSE 0, Len(payload))>>
  /\ next' = next + ClusterCount
  /\ IF file < Len(Files) THEN pc' = "scan" /\ file' = file + 1
                          ELSE pc' = "layout" /\ file' = file
  /\ UNCHANGED <<contents, eol, payload, index, fat, data>>

(* The directory must fit; then the tables and the entries go into the image. *)
Layout ==
  /\ pc = "layout"
  /\ pc' = IF Len(root) > RootEntries THEN "overflow" ELSE "done"
  /\ UNCHANGED <<contents, eol, file, payload, index, next, fat, data, root>>

Next == ReadFile \/ PlaceCluster \/ DescribeFile \/ Layout

Spec == Init /\ [][Next]_vars

-----------------------------------------------------------------------------
(* A reader: it knows the boot sector's numbers and the FAT12 format only.    *)

(* _boot_sector: where a reader finds cluster 2. *)
FirstDataSector ==
  ReservedSectors + FatCount * SectorsPerFat + (RootEntries * 32) \div BytesPerSector

(* The twelve bits of a cluster. *)
Entry(table, cluster) ==
  LET word == table[(3 * cluster) \div 2] + Bits * table[(3 * cluster) \div 2 + 1]
  IN  IF cluster % 2 = 0 THEN word % 4096 ELSE word \div 16

(* The n-th cluster of the chain that starts at "first". *)
InChain(first, n) ==
  LET at[i \in 0 .. n] == IF i = 0 THEN first ELSE Entry(fat, at[i - 1])
  IN  at[n]

(* A file's clusters: as many as its size needs, none ends before the last,   *)
(* the last does.                                                           *)
ChainEnds(e) ==
  LET count == (e.size + BytesPerSector - 1) \div BytesPerSector
  IN  IF count = 0 THEN e.first = 0
      ELSE /\ \A i \in 0 .. count - 1 : InChain(e.first, i) \in 2 .. next - 1
           /\ InChain(e.first, count) >= 4088

(* What a reader gets out of them. *)
BytesOf(e) ==
  [i \in 1 .. e.size |->
     data[FirstDataSector + InChain(e.first, (i - 1) \div BytesPerSector) - 2]
         [((i - 1) % BytesPerSector) + 1]]

(* The long name before the short entry at p: entries count .. 1, the highest *)
(* marked, all with the checksum of the short name; "" if there is none.      *)
LongName(p) ==
  LET start == CHOOSE s \in 1 .. p - 1 : /\ root[s].kind = "lfn" /\ root[s].last
                                         /\ \A q \in s + 1 .. p - 1 :
                                              root[q].kind = "lfn" /\ ~ root[q].last
      count == p - start
      units == [i \in 1 .. 13 * count |->
                  root[p - 1 - (i - 1) \div 13].units[((i - 1) % 13) + 1]]
      ends  == {i \in 1 .. 13 * count : units[i] = 0}
      rotated(sum) == IF sum % 2 = 1 THEN 128 + (sum - 1) \div 2 ELSE sum \div 2
      short == root[p].short
      check[n \in 0 .. Len(short)] ==
        IF n = 0 THEN 0 ELSE (rotated(check[n - 1]) + short[n]) % 256
  IN  IF \A i \in 1 .. count :
           root[p - i].sequence = i /\ root[p - i].checksum = check[Len(short)]
      THEN SubSeq(units, 1, (CHOOSE i \in ends : \A j \in ends : i <= j) - 1)
      ELSE <<>>

-----------------------------------------------------------------------------
(* Every byte of the table is a byte, and the two reserved entries are kept.  *)
TypeOK ==
  /\ pc \in {"scan", "clusters", "layout", "done", "overflow"}
  /\ file \in 1 .. Len(Files) /\ index \in 0 .. ClusterCount
  /\ fat \in [0 .. FatBytes - 1 -> Bytes]
  /\ fat[0] = 240 /\ fat[1] = 255 /\ fat[2] = 255
  /\ next \in 2 .. TotalSectors

(* Types; and a reader of the finished image finds every file under its long   *)
(* name, and its chain of clusters, some of which share bytes of the table,    *)
(* holds what the repository holds: on every host, with whatever line endings *)
(* it was checked out.                                                      *)
ReadsBack ==
  /\ TypeOK
  /\ pc = "done" =>
    \A f \in 1 .. Len(Files) : \E p \in 2 .. Len(root) :
      /\ root[p].kind = "file" /\ root[p].short = Files[f].short
      /\ LongName(p) = Files[f].long
      /\ ChainEnds(root[p])
      /\ BytesOf(root[p]) = contents[f]
=============================================================================
