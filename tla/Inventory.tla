------------------------------ MODULE Inventory ------------------------------
(***************************************************************************)
(* guest/scripts/package_metadata.py: the package database of the factory     *)
(* disk becomes a table (packages.lock.tsv), a bill of materials              *)
(* (sbom.cdx.json) and a licence inventory (licenses.json), and               *)
(* extract-metadata.sh counts the table's lines into the notices.             *)
(*                                                                         *)
(* A text is <<n>>, n being its place in the order of texts; <<Tabbed>> has a *)
(* tab in it.  A line of a description file is a heading, a text, or blank.   *)
(***************************************************************************)
EXTENDS Naturals, Sequences, FiniteSets, Functions

CONSTANT Databases   \* databases as pacman lists them: sequences of packages

Keys == {"NAME", "VERSION", "DESC", "URL", "ARCH", "LICENSE"}
Heading(k) == <<"%", k>>
Blank == <<>>
Text == [1 .. 1 -> Nat]
Tabbed == 0
Unknown == 99        \* the text "unknown"

(* A package has lines under each heading.  Its description is one line at    *)
(* most, of any wording; directories are named by package and version.        *)
InventoryAssumption ==
  \A db \in Databases :
    /\ db \in Seq([Keys -> Seq(Text \cup {Heading(k) : k \in Keys})])
    /\ \A i \in 1 .. Len(db) :
         /\ Len(db[i]["DESC"]) <= 1
         /\ \A k \in Keys \ {"DESC"} : db[i][k] \in Seq(Text)
    /\ \A i, j \in 1 .. Len(db) :
         i # j => <<db[i]["NAME"], db[i]["VERSION"]>> # <<db[j]["NAME"], db[j]["VERSION"]>>

VARIABLES
  database,  \* the packages installed, in the order of their directories
  pc, packages, tsv, components, expressions, notices

vars == <<database, pc, packages, tsv, components, expressions, notices>>

Init ==
  /\ database \in Databases
  /\ pc = "load" /\ packages = <<>> /\ tsv = <<>> /\ components = <<>>
  /\ expressions = <<>> /\ notices = 0

-----------------------------------------------------------------------------
(* No heading without a line under it. *)
Section(p, k) == IF p[k] = <<>> THEN <<>> ELSE <<Heading(k)>> \o p[k] \o <<Blank>>

(* What pacman writes of a package, of the headings that are read. *)
Description(p) ==
  Section(p, "NAME") \o Section(p, "VERSION") \o Section(p, "DESC")
    \o Section(p, "URL") \o Section(p, "ARCH") \o Section(p, "LICENSE")

(* Mutant: a heading empties its field. *)
OpenAnew(fields, k) == [j \in DOMAIN fields \cup {k} |-> IF j = k THEN <<>> ELSE fields[j]]

(* setdefault: a heading opens its field, and keeps what it already holds.     *)
Open(fields, k) ==
  [j \in DOMAIN fields \cup {k} |-> IF j \in DOMAIN fields THEN fields[j] ELSE <<>>]

(* A text goes to the field opened last. *)
ReadLine(reader, line) ==
  IF \E k \in Keys : line = Heading(k)
  THEN [key |-> line[2], fields |-> Open(reader.fields, line[2])]
  ELSE IF line = Blank \/ reader.key = "" THEN reader
  ELSE [key |-> reader.key,
        fields |-> [reader.fields EXCEPT ![reader.key] = Append(@, line)]]

NothingRead == [key |-> "", fields |-> [k \in {} |-> <<>>]]

(* read_desc *)
ReadDesc(lines) ==
  LET read[n \in 0 .. Len(lines)] ==
        IF n = 0 THEN NothingRead ELSE ReadLine(read[n - 1], lines[n])
  IN  read[Len(lines)].fields

(* fields.get *)
Get(fields, k, default) == IF k \in DOMAIN fields THEN fields[k] ELSE default

Licenses(fields) == Get(fields, "LICENSE", << <<Unknown>> >>)

(* one: a field that must have one line. *)
HasOne(fields, k) == Len(Get(fields, k, <<>>)) = 1

(* load_packages, a directory at a time; ValueError where a line is missing.   *)
LoadPackage ==
  /\ pc = "load" /\ Len(packages) < Len(database)
  /\ LET fields == ReadDesc(Description(database[Len(packages) + 1]))
     IN  IF \A k \in {"NAME", "VERSION", "ARCH"} : HasOne(fields, k)
         THEN /\ packages' = Append(packages,
                   [name |-> fields["NAME"][1], version |-> fields["VERSION"][1],
                    arch |-> fields["ARCH"][1], licenses |-> Licenses(fields),
                    url |-> Get(fields, "URL", <<>>)])
              /\ UNCHANGED pc
         ELSE pc' = "refused" /\ UNCHANGED packages
  /\ UNCHANGED <<database, tsv, components, expressions, notices>>

(* The order of names, then of versions. *)
Before(p, q) ==
  \/ p.name[1] < q.name[1]
  \/ p.name = q.name /\ p.version[1] < q.version[1]

(* The place of s[i] in that order, which no two packages share. *)
Place(s, i) == 1 + Cardinality({j \in 1 .. Len(s) : Before(s[j], s[i])})

Sorted(s) ==
  [k \in 1 .. Len(s) |-> s[CHOOSE i \in 1 .. Len(s) : Place(s, i) = k]]

(* packages.sort; an empty database is refused. *)
SortPackages ==
  /\ pc = "load" /\ Len(packages) = Len(database)
  /\ IF packages = <<>> THEN pc' = "refused" ELSE pc' = "table"
  /\ packages' = Sorted(packages)
  /\ UNCHANGED <<database, tsv, components, expressions, notices>>

(* The texts of a row. *)
Texts(p) == {p.name, p.version, p.arch} \cup Range(p.licenses) \cup Range(p.url)

(* packages.lock.tsv, unless a text would split its row. *)
WriteTable ==
  /\ pc = "table"
  /\ IF \E i \in 1 .. Len(packages) : <<Tabbed>> \in Texts(packages[i])
     THEN pc' = "refused" /\ UNCHANGED tsv
     ELSE pc' = "sbom" /\ tsv' = packages
  /\ UNCHANGED <<database, packages, components, expressions, notices>>

(* sbom.cdx.json: a component per package, named by its purl.                  *)
WriteSbom ==
  /\ pc = "sbom" /\ pc' = "licenses"
  /\ components' = [i \in 1 .. Len(packages) |->
       [bomref |-> <<packages[i].name, packages[i].version, packages[i].arch>>,
        licenses |-> packages[i].licenses]]
  /\ UNCHANGED <<database, packages, tsv, expressions, notices>>

(* licenses.json: the packages under each expression. *)
WriteLicenses ==
  /\ pc = "licenses" /\ pc' = "notices"
  /\ expressions' = [e \in UNION {Range(packages[i].licenses) : i \in 1 .. Len(packages)} |->
       {packages[i].name : i \in {j \in 1 .. Len(packages) : e \in Range(packages[j].licenses)}}]
  /\ UNCHANGED <<database, packages, tsv, components, notices>>

(* extract-metadata.sh: lines of the table, without its header.                *)
CountPackages ==
  /\ pc = "notices" /\ pc' = "done" /\ notices' = Len(tsv)
  /\ UNCHANGED <<database, packages, tsv, components, expressions>>

Next == LoadPackage \/ SortPackages \/ WriteTable \/ WriteSbom \/ WriteLicenses \/ CountPackages

Spec == Init /\ [][Next]_vars

-----------------------------------------------------------------------------
(* Types; the table has what was loaded, and the notices its length.         *)
TypeOK ==
  /\ pc \in {"load", "table", "sbom", "licenses", "notices", "done", "refused"}
  /\ Len(packages) <= Len(database)
  /\ tsv \in {<<>>, packages} /\ notices \in {0, Len(database)}

Installed(i) == <<database[i]["NAME"], database[i]["VERSION"], database[i]["ARCH"]>>

(* What a reader of the table sees: a tab starts a column. *)
Columns(row) ==
  LET tabs(texts) == Cardinality({i \in 1 .. Len(texts) : texts[i] = <<Tabbed>>})
  IN  5 + tabs(<<row.name, row.version, row.arch>>) + tabs(row.licenses) + tabs(row.url)

(* The table, the bill of materials and the notices speak of the same packages, *)
(* in the same order, and these are the installed ones, whatever their         *)
(* descriptions say.                                                        *)
InventoriesAgree ==
  pc = "done" =>
    /\ Len(tsv) = Len(database) /\ Len(components) = Len(tsv) /\ notices = Len(tsv)
    /\ \A i \in 1 .. Len(tsv) :
         /\ components[i].bomref = <<tsv[i].name, tsv[i].version, tsv[i].arch>>
         /\ Columns(tsv[i]) = 5
    /\ {<< <<b[1]>>, <<b[2]>>, <<b[3]>> >> : b \in {components[i].bomref : i \in 1 .. Len(tsv)}}
         = {Installed(i) : i \in 1 .. Len(database)}

(* It has no licence, and a description that reads as the heading of one.      *)
Hidden(p) == p["LICENSE"] = <<>> /\ p["DESC"] = <<Heading("LICENSE")>>

(* Every package is found under each of its licences, under "unknown" if it     *)
(* names none, unless its description hides that.                             *)
EveryPackageLicensed ==
  pc = "done" =>
    \A i \in {j \in 1 .. Len(database) : ~Hidden(database[j])} :
      LET own == Range(database[i]["LICENSE"])
      IN  \A e \in IF own = {} THEN { <<Unknown>> } ELSE own :
            e \in DOMAIN expressions /\ database[i]["NAME"][1] \in expressions[e]

(* A database is refused only when it is empty, when a package lacks a line it  *)
(* must have, or for a tab: never for what a description says.                 *)
RefusedForReason ==
  pc = "refused" =>
    \/ database = <<>>
    \/ \E i \in 1 .. Len(database) :
         \/ \E k \in {"NAME", "VERSION", "ARCH"} : Len(database[i][k]) # 1
         \/ \E k \in Keys \ {"DESC"} : <<Tabbed>> \in Range(database[i][k])

(* The same packages make the same files, in whatever order the directories     *)
(* are found.                                                              *)
OrderOfNames ==
  pc = "done" => \A i, j \in 1 .. Len(tsv) : i < j => Before(tsv[i], tsv[j])

(* All that a reader relies on. *)
InventoryTrue ==
  /\ TypeOK
  /\ InventoriesAgree
  /\ EveryPackageLicensed
  /\ RefusedForReason
  /\ OrderOfNames
=============================================================================
