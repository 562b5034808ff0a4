------------------------------ MODULE ToolsProofs ------------------------------
(***************************************************************************)
(* Proofs about three programs of MCTools: for every contract and every PC    *)
(* the choice of Experience.ps1 is one that Run-VM.ps1 accepts; for streams of *)
(* every length and pipes of every size the verdict of the verification is   *)
(* true; and files of every name and size that fit are read from the image as *)
(* the repository holds them.                                               *)
(***************************************************************************)
EXTENDS MCTools, SequenceTheorems, FunctionTheorems, FiniteSetTheorems, TLAPS

-----------------------------------------------------------------------------
(* The choice of memory and processors. *)

(* What Run-VM.ps1 asks of the choice. *)
Accepted == InContract /\ memoryMiB =< hostMemoryMiB - 2048

(* What has been established at each step of an attempt in which Windows     *)
(* has answered every query.                                               *)
Established ==
  queries = "answered" =>
    /\ pc \in {"resources", "arguments", "runStatus", "runMemory"} =>
         HostReady(hostMemoryMiB)
    /\ pc \in {"arguments", "runStatus", "runMemory"} => Accepted
    /\ pc # "refused"

ChoiceInv == TypeOK /\ Established

(* The bounds of the memory, whatever the half of the PC's memory is.        *)
LEMMA MemoryBounds ==
  ASSUME NEW h \in Nat, h >= minimumHostMemoryMiB
  PROVE  /\ Memory(h) \in Nat
         /\ minimumMemoryMiB =< Memory(h)
         /\ Memory(h) =< 32768
         /\ Memory(h) =< h - 2048
<1> DEFINE half == (h \div 2048) * 1024
           wanted == Larger(minimumMemoryMiB, Smaller(16384, half))
<1>1. half \in Int
  OBVIOUS
<1>2. wanted \in Int /\ minimumMemoryMiB =< wanted /\ wanted =< 32768
  <2> HIDE DEF half
  <2> QED BY <1>1, ResourcesAssumption DEF ResourcesAssumption, Larger, Smaller
<1>3. Memory(h) = IF wanted > h - 3072 THEN Larger(minimumMemoryMiB, h - 3072) ELSE wanted
  BY DEF Memory
<1> HIDE DEF wanted
<1> QED BY <1>2, <1>3, ResourcesAssumption DEF ResourcesAssumption, Larger

(* The processors are those of the contract. *)
LEMMA ProcessorBounds ==
  ASSUME NEW p \in Nat
  PROVE  Processors(p) \in minimumCpuCount .. maximumCpuCount
<1> DEFINE half == p \div 2
<1>1. half \in Int
  OBVIOUS
<1>2. Processors(p) = Smaller(maximumCpuCount, Larger(minimumCpuCount, half))
  BY DEF Processors
<1> HIDE DEF half
<1> QED BY <1>1, <1>2, ResourcesAssumption DEF ResourcesAssumption, Larger, Smaller

LEMMA ChoiceInit == Init => ChoiceInv
  BY ResourcesAssumption DEF ResourcesAssumption, Init, ChoiceInv, TypeOK, Established, Accepted

LEMMA ChoiceStep == ChoiceInv /\ [Next]_vars => ChoiceInv'
<1> SUFFICES ASSUME ChoiceInv, [Next]_vars PROVE ChoiceInv'
  OBVIOUS
<1> USE ResourcesAssumption DEF ResourcesAssumption
<1>1. hostMemoryMiB \in Nat /\ processors \in Nat
  BY DEF ChoiceInv, TypeOK
<1>2. CASE Open
  BY <1>2 DEF Open, ChoiceInv, TypeOK, Established, Accepted, host, choice
<1>3. CASE ExperienceChecks
  BY <1>3 DEF ExperienceChecks, CheckHost, ChoiceInv, TypeOK, Established, Accepted, host, choice
<1>4. CASE ChooseResources
  <2>1. cpuCount' \in minimumCpuCount .. maximumCpuCount
    BY <1>1, <1>4, ProcessorBounds DEF ChooseResources
  <2>2. memoryMiB' \in Nat
    <3>1. CASE memoryMiB' = recommendedMemoryMiB
      BY <3>1
    <3>2. CASE memoryMiB' = Memory(hostMemoryMiB) /\ queries' = queries
      BY <1>1, <3>2 DEF Memory, Larger, Smaller
    <3> QED BY <1>4, <3>1, <3>2 DEF ChooseResources
  <2>3. queries' = "answered" => HostReady(hostMemoryMiB) /\ memoryMiB' = Memory(hostMemoryMiB)
    BY <1>4 DEF ChooseResources, ChoiceInv, TypeOK, Established
  <2>4. queries' = "answered" => Accepted'
    <3> SUFFICES ASSUME queries' = "answered" PROVE Accepted'
      OBVIOUS
    <3>1. /\ minimumMemoryMiB =< memoryMiB'
          /\ memoryMiB' =< 32768
          /\ memoryMiB' =< hostMemoryMiB - 2048
      BY <1>1, <2>3, MemoryBounds DEF HostReady
    <3> QED BY <1>4, <2>1, <3>1 DEF ChooseResources, Accepted, InContract, host
  <2>5. TypeOK'
    BY <1>4, <2>1, <2>2 DEF ChooseResources, ChoiceInv, TypeOK, host
  <2> QED BY <1>4, <2>3, <2>4, <2>5 DEF ChooseResources, ChoiceInv, Established, HostReady, host
<1>5. CASE CheckArguments
  BY <1>5 DEF CheckArguments, InContract, ChoiceInv, TypeOK, Established, Accepted, host, choice
<1>6. CASE RunChecks
  BY <1>6 DEF RunChecks, CheckHost, InContract, ChoiceInv, TypeOK, Established, Accepted,
              HostReady, host, choice
<1>7. CASE CheckMemory
  BY <1>1, <1>7 DEF CheckMemory, InContract, ChoiceInv, TypeOK, Established, Accepted, HostReady,
                    host, choice
<1>8. CASE UNCHANGED vars
  BY <1>8 DEF vars, host, choice, InContract, ChoiceInv, TypeOK, Established, Accepted, HostReady
<1> QED BY <1>2, <1>3, <1>4, <1>5, <1>6, <1>7, <1>8 DEF Next

LEMMA ChoiceAlways == Spec => []ChoiceInv
  BY ChoiceInit, ChoiceStep, PTL DEF Spec

(* The variables keep their types; in particular the number of processors    *)
(* never leaves the contract, however many the PC has.                      *)
THEOREM TypeCorrect == Spec => []TypeOK
<1>1. ChoiceInv => TypeOK
  BY DEF ChoiceInv
<1> QED BY <1>1, ChoiceAlways, PTL

(* Run-VM.ps1 never refuses what Experience.ps1 chose for a host it let       *)
(* through, unless a query to Windows has failed: for every PC and for every *)
(* contract in which the smallest host fits the smallest machine.            *)
THEOREM ChoiceIsAccepted == Spec => []ChoiceAccepted
<1>1. ChoiceInv => ChoiceAccepted
  BY DEF ChoiceInv, TypeOK, Established, ChoiceAccepted
<1> QED BY <1>1, ChoiceAlways, PTL

-----------------------------------------------------------------------------
(* The verification. *)

(* What each process may be at, and the numbers' types. *)
Shape ==
  /\ content \in {"image", "other"} /\ corrupt \in 0 .. Chunks /\ missing \in 0 .. Chunks
  /\ writer \in {"write", "kill", "done"}
  /\ zstd \in {"running", "failed", "killed", "ended"}
  /\ main \in {"read", "join", "done"} /\ verdict \in {"none", "accepted", "refused"}
  /\ sent \in Nat /\ stdin \in Nat /\ stdout \in Nat /\ taken \in Nat
  /\ pending \in Nat /\ hashed \in Nat /\ faults \in Nat

(* Why a release may be refused, other than for its content. *)
Reason == corrupt # 0 \/ missing # 0 \/ faults # 0

(* Nothing that was sent is lost, unless zstd failed over it. *)
Sent ==
  /\ zstd # "failed" => taken + stdin = sent
  /\ missing # 0 => sent < missing
  /\ corrupt # 0 => taken < corrupt

(* The writer closes its end when all is sent, and says why if it cannot.      *)
Closed ==
  /\ closed => sent = Chunks /\ writer # "write"
  /\ writer = "kill" => writer_error
  /\ writer_error => Reason

(* zstd ends only with its input, or for a reason. *)
Ended ==
  /\ zstd = "ended" => closed /\ stdin = 0 /\ pending = 0
  /\ zstd \in {"failed", "killed"} => Reason

(* The main thread has read all that zstd put out. *)
Drained == main # "read" => stdout = 0 /\ zstd # "running"

VerdictInv == E!VerdictIsTrue /\ Shape /\ Sent /\ Closed /\ Ended /\ Drained

-----------------------------------------------------------------------------
LEMMA VerdictInit == ASSUME E!Init PROVE VerdictInv
<1>1. Chunks \in Nat /\ Capacity \in Nat /\ Ratio \in Nat /\ Ratio * 0 = 0
  BY ToolsAssumption DEF ToolsAssumption, E!ExpandAssumption
<1>2. Shape /\ Sent
  BY <1>1 DEF E!Init, Shape, Sent
<1>3. Closed /\ Ended /\ Drained
  BY DEF E!Init, Closed, Ended, Drained
<1>4. E!VerdictIsTrue
  BY <1>1 DEF E!Init, E!VerdictIsTrue, E!TypeOK
<1> QED
  BY <1>2, <1>3, <1>4 DEF VerdictInv

LEMMA WriterStep == ASSUME VerdictInv, E!Writer PROVE VerdictInv'
<1> USE ToolsAssumption DEF ToolsAssumption, E!ExpandAssumption, VerdictInv, E!VerdictIsTrue,
            E!TypeOK, Shape, Sent, Closed, Ended, Drained, Reason, E!release
<1>1. CASE E!WriteParts
  <2>1. Shape' /\ Sent'
    BY <1>1 DEF E!WriteParts
  <2>2. Closed' /\ Ended' /\ Drained'
    BY <1>1 DEF E!WriteParts
  <2>3. E!VerdictIsTrue'
    BY <1>1 DEF E!WriteParts
  <2> QED
    BY <2>1, <2>2, <2>3
<1>2. CASE E!CloseStdin
  <2>1. Shape' /\ Sent'
    BY <1>2 DEF E!CloseStdin
  <2>2. Closed' /\ Ended' /\ Drained'
    BY <1>2 DEF E!CloseStdin
  <2>3. E!VerdictIsTrue'
    BY <1>2 DEF E!CloseStdin
  <2> QED
    BY <2>1, <2>2, <2>3
<1>3. CASE E!KillZstd
  BY <1>3 DEF E!KillZstd
<1> QED
  BY <1>1, <1>2, <1>3 DEF E!Writer

LEMMA ZstdStep == ASSUME VerdictInv, E!Zstd \/ E!KilledOutside PROVE VerdictInv'
<1> USE ToolsAssumption DEF ToolsAssumption, E!ExpandAssumption, VerdictInv, E!VerdictIsTrue,
            E!TypeOK, Shape, Sent, Closed, Ended, Drained, Reason, E!release
<1>1. CASE E!Take
  <2>1. /\ taken' \in Nat /\ Ratio \in Nat
        /\ Ratio * (taken + 1) = Ratio * taken + Ratio
    BY <1>1 DEF E!Take
  <2>2. Shape' /\ Sent'
    <3>1. CASE taken + 1 = corrupt
      BY <1>1, <3>1 DEF E!Take
    <3>2. CASE taken + 1 # corrupt
      BY <1>1, <2>1, <3>2 DEF E!Take
    <3> QED
      BY <3>1, <3>2
  <2>3. Closed' /\ Ended' /\ Drained'
    BY <1>1 DEF E!Take
  <2>4. E!VerdictIsTrue'
    <3>1. CASE taken + 1 = corrupt
      BY <1>1, <3>1 DEF E!Take
    <3>2. CASE taken + 1 # corrupt
      BY <1>1, <2>1, <3>2 DEF E!Take
    <3> QED
      BY <3>1, <3>2
  <2> QED
    BY <2>2, <2>3, <2>4
<1>2. CASE E!Put
  BY <1>2 DEF E!Put
<1>3. CASE E!Finish
  BY <1>3 DEF E!Finish
<1>4. CASE E!KilledOutside
  BY <1>4 DEF E!KilledOutside
<1> QED
  BY <1>1, <1>2, <1>3, <1>4 DEF E!Zstd

LEMMA MainStep == ASSUME VerdictInv, E!Main PROVE VerdictInv'
<1> USE ToolsAssumption DEF ToolsAssumption, E!ExpandAssumption, VerdictInv, E!VerdictIsTrue,
            E!TypeOK, Shape, Sent, Closed, Ended, Drained, Reason, E!release
<1>1. CASE E!Read
  BY <1>1 DEF E!Read
<1>2. CASE E!Judge
  BY <1>2 DEF E!Judge, E!SameImage
<1> QED
  BY <1>1, <1>2 DEF E!Main

(* The others leave the verification where it starts. *)
LEMMA VerdictAlways == MCSpec => []VerdictInv
<1>1. MCInit => VerdictInv
  BY VerdictInit DEF MCInit
<1>2. VerdictInv /\ [MCNext]_mcVars => VerdictInv'
  <2> SUFFICES ASSUME VerdictInv, [MCNext]_mcVars PROVE VerdictInv'
    OBVIOUS
  <2>1. CASE E!Next
    BY <2>1, WriterStep, ZstdStep, MainStep DEF E!Next
  <2>2. CASE UNCHANGED expand
    BY <2>2 DEF expand, VerdictInv, E!VerdictIsTrue, E!TypeOK, Shape, Sent, Closed,
                Ended, Drained, Reason
  <2> QED
    BY <2>1, <2>2 DEF MCNext, mcVars
<1> QED
  BY <1>1, <1>2, PTL DEF MCSpec

(* Accepted is the whole image, every part of it read; and a good release is   *)
(* never refused for the order in which the writer, zstd and the main thread   *)
(* run, however long the stream and however small the pipes.                 *)
THEOREM Verdict == MCSpec => []VerdictIsTrue
<1>1. VerdictInv => VerdictIsTrue
  BY DEF VerdictInv, VerdictIsTrue
<1> QED
  BY <1>1, VerdictAlways, PTL
-----------------------------------------------------------------------------
(* The configuration image. The table: a pair of entries shares three bytes.   *)
Places == 0 .. F!FatBytes - 1
Tables == [Places -> F!Bytes]
Words == 0 .. 4095
InTable(cluster) == cluster + cluster \div 2 + 1 < F!FatBytes

LEMMA FatSize == F!FatBytes \in Nat
<1>1. SectorsPerFat \in Nat /\ BytesPerSector \in Nat
  BY ToolsAssumption DEF ToolsAssumption, F!Fat12Assumption, F!DiskAssumption
<1> QED
  BY <1>1 DEF F!FatBytes

LEMMA Halves ==
  ASSUME NEW cluster \in Nat
  PROVE  \/ \E k \in Nat : cluster = 2 * k
         \/ \E k \in Nat : cluster = 2 * k + 1
<1>1. cluster = 2 * (cluster \div 2) \/ cluster = 2 * (cluster \div 2) + 1
  OBVIOUS
<1>2. cluster \div 2 \in Nat
  OBVIOUS
<1> QED
  BY <1>1, <1>2

(* Where the two entries of a pair lie. *)
LEMMA Even ==
  ASSUME NEW k \in Nat
  PROVE  /\ (2 * k) % 2 = 0
         /\ (2 * k) \div 2 = k /\ (3 * (2 * k)) \div 2 = 3 * k
  OBVIOUS

LEMMA Odd ==
  ASSUME NEW k \in Nat
  PROVE  /\ (2 * k + 1) % 2 = 1
         /\ (2 * k + 1) \div 2 = k /\ (3 * (2 * k + 1)) \div 2 = 3 * k + 1
  OBVIOUS

(* What the arithmetic on a byte gives. *)
LEMMA Nibbles ==
  ASSUME NEW byte \in F!Bytes, NEW value \in Words
  PROVE  /\ value % 256 \in F!Bytes
         /\ byte - (byte % 16) + ((value \div 256) % 16) \in F!Bytes
         /\ (byte % 16) + ((value * 16) % 256) \in F!Bytes
         /\ (value \div 16) % 256 \in F!Bytes
         /\ (byte - (byte % 16) + ((value \div 256) % 16)) \div 16 = byte \div 16
         /\ ((byte % 16) + ((value * 16) % 256)) % 16 = byte % 16
  BY DEF F!Bytes, Words, F!Bits

(* What _set_fat12_entry writes for the even and for the odd one of a pair.    *)
LEMMA SetEven ==
  ASSUME NEW table \in Tables, NEW k \in Nat, NEW value \in Words,
         NEW b \in Places
  PROVE  F!SetFat12Entry(table, 2 * k, value)[b] =
           IF b = 3 * k + 1 THEN table[b] - (table[b] % 16) + ((value \div 256) % 16)
           ELSE IF b = 3 * k THEN value % 256 ELSE table[b]
<1>1. DOMAIN table = Places
  BY DEF Tables
<1>2. (2 * k) % 2 = 0 /\ 2 * k + (2 * k) \div 2 = 3 * k
  BY Even
<1> QED
  BY <1>1, <1>2, FatSize DEF Places, F!SetFat12Entry, F!Bits

LEMMA SetOdd ==
  ASSUME NEW table \in Tables, NEW k \in Nat, NEW value \in Words,
         NEW b \in Places
  PROVE  F!SetFat12Entry(table, 2 * k + 1, value)[b] =
           IF b = 3 * k + 2 THEN (value \div 16) % 256
           ELSE IF b = 3 * k + 1 THEN (table[b] % 16) + ((value * 16) % 256)
           ELSE table[b]
<1>1. DOMAIN table = Places
  BY DEF Tables
<1>2. (2 * k + 1) % 2 # 0 /\ 2 * k + 1 + (2 * k + 1) \div 2 = 3 * k + 1
  BY Odd
<1> QED
  BY <1>1, <1>2, FatSize DEF Places, F!SetFat12Entry, F!Bits

(* Every byte stays one. *)
LEMMA ByteStays ==
  ASSUME NEW table \in Tables, NEW cluster \in Nat, NEW value \in Words,
         NEW b \in Places
  PROVE  F!SetFat12Entry(table, cluster, value)[b] \in F!Bytes
<1>1. table[b] \in F!Bytes
  BY DEF Tables
<1>2. /\ value % 256 \in F!Bytes
      /\ table[b] - (table[b] % 16) + ((value \div 256) % 16) \in F!Bytes
      /\ (table[b] % 16) + ((value * 16) % 256) \in F!Bytes
      /\ (value \div 16) % 256 \in F!Bytes
  BY <1>1, Nibbles
<1>3. ASSUME NEW k \in Nat, cluster = 2 * k
      PROVE  F!SetFat12Entry(table, cluster, value)[b] \in F!Bytes
  BY <1>1, <1>2, <1>3, SetEven
<1>4. ASSUME NEW k \in Nat, cluster = 2 * k + 1
      PROVE  F!SetFat12Entry(table, cluster, value)[b] \in F!Bytes
  BY <1>1, <1>2, <1>4, SetOdd
<1>5. \/ \E k \in Nat : cluster = 2 * k
      \/ \E k \in Nat : cluster = 2 * k + 1
  BY Halves
<1> QED
  BY <1>3, <1>4, <1>5, Zenon

LEMMA TableStays ==
  ASSUME NEW table \in Tables, NEW cluster \in Nat, NEW value \in Words
  PROVE  F!SetFat12Entry(table, cluster, value) \in Tables
<1> DEFINE t == F!SetFat12Entry(table, cluster, value)
<1>1. t = [b \in Places |-> t[b]]
  <2>1. DOMAIN table = Places
    BY DEF Tables
  <2> QED
    BY <2>1 DEF F!SetFat12Entry
<1>2. \A b \in Places : t[b] \in F!Bytes
  BY ByteStays
<1> HIDE DEF t
<1> QED
  BY <1>1, <1>2 DEF Tables, t

(* An entry is read from two of them. *)
LEMMA ReadEven ==
  ASSUME NEW table, NEW k \in Nat
  PROVE  F!Entry(table, 2 * k) = (table[3 * k] + 256 * table[3 * k + 1]) % 4096
  BY Even DEF F!Entry, F!Bits

LEMMA ReadOdd ==
  ASSUME NEW table, NEW k \in Nat
  PROVE  F!Entry(table, 2 * k + 1) = (table[3 * k + 1] + 256 * table[3 * k + 2]) \div 16
  BY Odd DEF F!Entry, F!Bits

(* Twelve bits survive being cut in two. *)
LEMMA EvenReadsBack ==
  ASSUME NEW byte \in F!Bytes, NEW value \in Words
  PROVE  ((value % 256) + 256 * (byte - (byte % 16) + ((value \div 256) % 16))) % 4096 = value
  BY DEF F!Bytes, Words, F!Bits

LEMMA OddReadsBack ==
  ASSUME NEW byte \in F!Bytes, NEW value \in Words
  PROVE  ((byte % 16) + ((value * 16) % 256) + 256 * ((value \div 16) % 256)) \div 16 = value
  BY DEF F!Bytes, Words, F!Bits

(* The shared byte's half that is not written is all the other entry reads.    *)
LEMMA LowHalf ==
  ASSUME NEW low \in F!Bytes, NEW a \in F!Bytes, NEW b \in F!Bytes, a % 16 = b % 16
  PROVE  (low + 256 * a) % 4096 = (low + 256 * b) % 4096
  BY DEF F!Bytes, Words, F!Bits

LEMMA HighHalf ==
  ASSUME NEW high \in F!Bytes, NEW a \in F!Bytes, NEW b \in F!Bytes, a \div 16 = b \div 16
  PROVE  (a + 256 * high) \div 16 = (b + 256 * high) \div 16
  BY DEF F!Bytes, Words, F!Bits

(* _set_fat12_entry on a table big enough: the entry reads back, and every     *)
(* other entry reads as before, the one that shares a byte with it included.    *)
LEMMA EntryReadsBack ==
  ASSUME NEW table \in Tables, NEW cluster \in Nat, InTable(cluster), NEW value \in Words
  PROVE  F!Entry(F!SetFat12Entry(table, cluster, value), cluster) = value
<1> DEFINE t == F!SetFat12Entry(table, cluster, value)
<1>1. \A b \in Places : table[b] \in F!Bytes
  BY DEF Tables
<1>2. CASE \E k \in Nat : cluster = 2 * k
  <2> PICK k \in Nat : cluster = 2 * k
    BY <1>2
  <2>1. 3 * k \in Places /\ 3 * k + 1 \in Places
    BY Even, FatSize DEF InTable, Places
  <2>2. /\ t[3 * k] = value % 256
        /\ t[3 * k + 1] = table[3 * k + 1] - (table[3 * k + 1] % 16) + ((value \div 256) % 16)
    BY <2>1, SetEven
  <2> QED
    BY <1>1, <2>1, <2>2, ReadEven, EvenReadsBack
<1>3. CASE \E k \in Nat : cluster = 2 * k + 1
  <2> PICK k \in Nat : cluster = 2 * k + 1
    BY <1>3
  <2>1. 3 * k + 1 \in Places /\ 3 * k + 2 \in Places
    BY Odd, FatSize DEF InTable, Places
  <2>2. /\ t[3 * k + 1] = (table[3 * k + 1] % 16) + ((value * 16) % 256)
        /\ t[3 * k + 2] = (value \div 16) % 256
    BY <2>1, SetOdd
  <2> QED
    BY <1>1, <2>1, <2>2, ReadOdd, OddReadsBack
<1> QED
  BY <1>2, <1>3, Halves

LEMMA OthersStay ==
  ASSUME NEW table \in Tables, NEW cluster \in Nat, NEW value \in Words,
         NEW other \in Nat, InTable(other), other # cluster
  PROVE  F!Entry(F!SetFat12Entry(table, cluster, value), other) = F!Entry(table, other)
<1> DEFINE t == F!SetFat12Entry(table, cluster, value)
<1>1. /\ \A b \in Places : table[b] \in F!Bytes
      /\ \A b \in Places : t[b] \in F!Bytes
  BY TableStays DEF Tables
<1>2. ASSUME NEW k \in Nat, cluster = 2 * k
      PROVE  /\ \A b \in Places : b \notin {3 * k, 3 * k + 1} => t[b] = table[b]
             /\ 3 * k + 1 \in Places =>
                  t[3 * k + 1] \div 16 = table[3 * k + 1] \div 16
  BY <1>1, <1>2, SetEven, Nibbles
<1>3. ASSUME NEW k \in Nat, cluster = 2 * k + 1
      PROVE  /\ \A b \in Places : b \notin {3 * k + 1, 3 * k + 2} => t[b] = table[b]
             /\ 3 * k + 1 \in Places =>
                  t[3 * k + 1] % 16 = table[3 * k + 1] % 16
  BY <1>1, <1>3, SetOdd, Nibbles
<1> HIDE DEF t
<1>4. CASE \E j \in Nat : other = 2 * j
  <2> PICK j \in Nat : other = 2 * j
    BY <1>4
  <2>1. 3 * j \in Places /\ 3 * j + 1 \in Places
    BY Even, FatSize DEF InTable, Places
  <2>2. t[3 * j] = table[3 * j] /\ t[3 * j + 1] % 16 = table[3 * j + 1] % 16
    <3>1. CASE \E k \in Nat : cluster = 2 * k
      <4> PICK k \in Nat : cluster = 2 * k
        BY <3>1
      <4>1. k # j
        OBVIOUS
      <4> QED
        BY <1>2, <2>1, <4>1
    <3>2. CASE \E k \in Nat : cluster = 2 * k + 1
      <4> PICK k \in Nat : cluster = 2 * k + 1
        BY <3>2
      <4> QED
        BY <1>3, <2>1
    <3> QED
      BY <3>1, <3>2, Halves
  <2>3. F!Entry(t, other) = F!Entry(table, other)
    BY <1>1, <2>1, <2>2, ReadEven, LowHalf
  <2> QED
    BY <2>3 DEF t
<1>5. CASE \E j \in Nat : other = 2 * j + 1
  <2> PICK j \in Nat : other = 2 * j + 1
    BY <1>5
  <2>1. 3 * j + 1 \in Places /\ 3 * j + 2 \in Places
    BY Odd, FatSize DEF InTable, Places
  <2>2. t[3 * j + 2] = table[3 * j + 2] /\ t[3 * j + 1] \div 16 = table[3 * j + 1] \div 16
    <3>1. CASE \E k \in Nat : cluster = 2 * k
      <4> PICK k \in Nat : cluster = 2 * k
        BY <3>1
      <4> QED
        BY <1>2, <2>1
    <3>2. CASE \E k \in Nat : cluster = 2 * k + 1
      <4> PICK k \in Nat : cluster = 2 * k + 1
        BY <3>2
      <4>1. k # j
        OBVIOUS
      <4> QED
        BY <1>3, <2>1, <4>1
    <3> QED
      BY <3>1, <3>2, Halves
  <2>3. F!Entry(t, other) = F!Entry(table, other)
    BY <1>1, <2>1, <2>2, ReadOdd, HighHalf
  <2> QED
    BY <2>3 DEF t
<1> QED
  BY <1>4, <1>5, Halves

-----------------------------------------------------------------------------
(* Positions in order. *)
Below(K, p) == {q \in K : q <= p}
Rises(g) == \A i, j \in DOMAIN g : i < j => g[i] < g[j]
Onto(g, K) == \A p \in K : \E i \in DOMAIN g : g[i] = p

(* Instances of one definition. *)
LEMMA Counts == \A S : F!Cardinality(S) = Cardinality(S)
  BY DEF Cardinality, F!Cardinality

LEMMA RankIs ==
  ASSUME NEW K, NEW p
  PROVE  F!Rank(K, p) = Cardinality(Below(K, p))
  BY Counts DEF F!Rank, Below

LEMMA RankRises ==
  ASSUME NEW K \in SUBSET Nat, IsFiniteSet(K), NEW p \in K
  PROVE  /\ F!Rank(K, p) \in 1 .. Cardinality(K)
         /\ \A q \in K : p < q => F!Rank(K, p) < F!Rank(K, q)
<1>1. ASSUME NEW q \in K
      PROVE  IsFiniteSet(Below(K, q)) /\ F!Rank(K, q) \in Nat
  <2>1. Below(K, q) \in SUBSET K
    BY DEF Below
  <2> QED
    BY <2>1, FS_Subset, FS_CardinalityType, RankIs
<1>2. F!Rank(K, p) <= Cardinality(K) /\ Cardinality(K) \in Nat
  <2>1. Below(K, p) \in SUBSET K
    BY DEF Below
  <2> QED
    BY <2>1, FS_Subset, FS_CardinalityType, RankIs
<1>3. F!Rank(K, p) # 0
  <2>1. p \in Below(K, p)
    BY DEF Below
  <2> QED
    BY <1>1, <2>1, FS_EmptySet, RankIs
<1>4. ASSUME NEW q \in K, p < q
      PROVE  F!Rank(K, p) < F!Rank(K, q)
  <2>1. Below(K, p) \in SUBSET Below(K, q) /\ q \in Below(K, q) /\ q \notin Below(K, p)
    <3>1. p \in Nat /\ q \in Nat /\ \A r \in K : r \in Nat
      OBVIOUS
    <3>2. \A r \in K : r <= p => r <= q
      BY <1>4, <3>1
    <3>3. q <= q /\ ~ (q <= p)
      BY <1>4, <3>1
    <3> QED
      BY <3>2, <3>3, Zenon DEF Below
  <2>2. Cardinality(Below(K, p)) <= Cardinality(Below(K, q))
    BY <1>1, <2>1, FS_Subset
  <2>3. Cardinality(Below(K, q)) # Cardinality(Below(K, p))
    BY <1>1, <2>1, FS_Subset
  <2> QED
    BY <1>1, <2>2, <2>3, RankIs
<1> QED
  BY <1>1, <1>2, <1>3, <1>4

(* It is what its name says. *)
LEMMA InOrderRises ==
  ASSUME NEW K \in SUBSET Nat, IsFiniteSet(K)
  PROVE  /\ F!InOrder(K) \in [1 .. Cardinality(K) -> K]
         /\ Rises(F!InOrder(K)) /\ Onto(F!InOrder(K), K)
         /\ \A p \in K : F!InOrder(K)[F!Rank(K, p)] = p
         /\ Cardinality(K) \in Nat
<1> DEFINE n == Cardinality(K)
           rank == [p \in K |-> F!Rank(K, p)]
           g == F!InOrder(K)
<1>1. n \in Nat
  BY FS_CardinalityType
<1>2. rank \in [K -> 1 .. n] /\ \A p, q \in K : rank[p] = rank[q] => p = q
  <2>1. \A p, q \in K : p < q => F!Rank(K, p) < F!Rank(K, q)
    BY RankRises
  <2>2. \A p \in K : F!Rank(K, p) \in 1 .. n
    BY RankRises
  <2> QED
    BY <1>1, <2>1, <2>2
<1>3. rank \in Injection(K, 1 .. n)
  BY <1>2, Fun_IsInj
<1>4. IsFiniteSet(1 .. n) /\ Cardinality(1 .. n) = n
  BY <1>1, FS_Interval
<1>5. rank \in Surjection(K, 1 .. n)
  BY <1>3, <1>4, FS_Injection
<1>6. \A k \in 1 .. n : \E p \in K : F!Rank(K, p) = k
  <2>1. \A k \in 1 .. n : \E p \in K : rank[p] = k
    <3> HIDE DEF rank
    <3> QED
      BY <1>5, Fun_SurjectionProperties
  <2> QED
    BY <2>1
<1>7. g = [k \in 1 .. n |-> CHOOSE p \in K : F!Rank(K, p) = k]
  BY Counts DEF F!InOrder
<1>8. \A k \in 1 .. n : g[k] \in K /\ F!Rank(K, g[k]) = k
  BY <1>6, <1>7
<1>9. g \in [1 .. n -> K]
  BY <1>7, <1>8
<1>10. \A p \in K : F!Rank(K, p) \in 1 .. n /\ g[F!Rank(K, p)] = p
  BY <1>2, <1>8, RankRises
<1>11. Rises(g)
  <2> SUFFICES ASSUME NEW i \in 1 .. n, NEW j \in 1 .. n, i < j PROVE g[i] < g[j]
    BY <1>9 DEF Rises
  <2>1. g[j] < g[i] => F!Rank(K, g[j]) < F!Rank(K, g[i])
    BY <1>8, RankRises
  <2>2. g[i] \in Nat /\ g[j] \in Nat
    BY <1>8
  <2>3. F!Rank(K, g[i]) = i /\ F!Rank(K, g[j]) = j
    BY <1>8
  <2> QED
    BY <1>1, <2>1, <2>2, <2>3
<1>12. Onto(g, K)
  BY <1>9, <1>10 DEF Onto
<1> QED
  BY <1>1, <1>9, <1>10, <1>11, <1>12

(* And nothing else is. *)
LEMMA InOrderOnly ==
  ASSUME NEW K \in SUBSET Nat, NEW n \in Nat, NEW g \in [1 .. n -> K], Rises(g), Onto(g, K)
  PROVE  Cardinality(K) = n /\ F!InOrder(K) = g /\ IsFiniteSet(K)
<1>0. \A i \in 1 .. n : g[i] \in Nat /\ g[i] \in K
  OBVIOUS
<1>1. \A i, j \in 1 .. n : g[i] = g[j] => i = j
  <2> SUFFICES ASSUME NEW i \in 1 .. n, NEW j \in 1 .. n, i < j PROVE g[i] # g[j]
    OBVIOUS
  <2> QED
    BY <1>0 DEF Rises
<1>2. ASSUME NEW i \in 0 .. n
      PROVE  IsFiniteSet({g[j] : j \in 1 .. i}) /\ Cardinality({g[j] : j \in 1 .. i}) = i
  <2> DEFINE S == {g[j] : j \in 1 .. i}
             h == [j \in 1 .. i |-> g[j]]
  <2>1. h \in [1 .. i -> S] /\ \A a, b \in 1 .. i : h[a] = h[b] => a = b
    BY <1>1
  <2>2. \A t \in S : \E s \in 1 .. i : h[s] = t
    OBVIOUS
  <2>3. h \in Bijection(1 .. i, S)
    BY <2>1, <2>2, Fun_IsBij
  <2>4. ExistsBijection(1 .. i, S)
    BY <2>3, Fun_ExistsBij
  <2>5. i \in Nat /\ IsFiniteSet(1 .. i) /\ Cardinality(1 .. i) = i
    BY FS_Interval
  <2> HIDE DEF S
  <2>6. IsFiniteSet(S) /\ Cardinality(S) = i
    BY <2>4, <2>5, FS_Bijection
  <2> QED
    BY <2>6 DEF S
<1>3. K = {g[j] : j \in 1 .. n}
  BY DEF Onto
<1>4. IsFiniteSet(K) /\ Cardinality(K) = n
  <2>1. n \in 0 .. n
    OBVIOUS
  <2> QED
    BY <1>2, <1>3, <2>1
<1>5. ASSUME NEW i \in 1 .. n
      PROVE  F!Rank(K, g[i]) = i
  <2>1. Below(K, g[i]) = {g[j] : j \in 1 .. i}
    <3>1. ASSUME NEW j \in 1 .. n
          PROVE  g[j] <= g[i] <=> j <= i
      <4>1. j < i \/ j = i \/ i < j
        OBVIOUS
      <4>2. (j < i => g[j] < g[i]) /\ (i < j => g[i] < g[j])
        BY DEF Rises
      <4> QED
        BY <1>0, <4>1, <4>2
    <3>2. \A j : j \in 1 .. i <=> (j \in 1 .. n /\ j <= i)
      OBVIOUS
    <3>3. Below(K, g[i]) = {g[j] : j \in {m \in 1 .. n : m <= i}}
      BY <1>3, <3>1, Zenon DEF Below
    <3>4. {m \in 1 .. n : m <= i} = 1 .. i
      BY <3>2
    <3> QED
      BY <3>3, <3>4
  <2>2. i \in 0 .. n
    OBVIOUS
  <2> QED
    BY <1>2, <2>1, <2>2, RankIs
<1>6. F!InOrder(K) = [k \in 1 .. n |-> CHOOSE p \in K : F!Rank(K, p) = k]
  BY <1>4, Counts DEF F!InOrder
<1>7. \A k \in 1 .. n : F!InOrder(K)[k] = g[k]
  <2> SUFFICES ASSUME NEW k \in 1 .. n PROVE (CHOOSE p \in K : F!Rank(K, p) = k) = g[k]
    BY <1>6
  <2>1. g[k] \in K /\ F!Rank(K, g[k]) = k
    BY <1>5
  <2>2. \A p \in K : F!Rank(K, p) = k => p = g[k]
    BY <1>3, <1>5
  <2> QED
    BY <2>1, <2>2
<1> QED
  BY <1>4, <1>6, <1>7

-----------------------------------------------------------------------------
(* The text of a checkout. *)
Plain(c) == \A i \in 1 .. Len(c) : c[i] # F!CR

(* Nothing to undo where lines end with LF. *)
LEMMA NothingToStrip ==
  ASSUME NEW c \in Seq(F!Bytes), Plain(c)
  PROVE  F!WithoutCRLF(c) = c
<1> DEFINE n == Len(c)
           J == {i \in 1 .. n : ~ (c[i] = F!CR /\ i < n /\ c[i + 1] = F!LF)}
           g == [k \in 1 .. n |-> k]
<1>1. n \in Nat /\ c = [k \in 1 .. n |-> c[k]]
  BY SeqDef, LenProperties
<1>2. J = 1 .. n
  BY DEF Plain
<1>3. J \in SUBSET Nat /\ g \in [1 .. n -> J] /\ Rises(g) /\ Onto(g, J)
  BY <1>1, <1>2 DEF Rises, Onto
<1> HIDE DEF J
<1>4. F!InOrder(J) = g
  BY <1>1, <1>3, InOrderOnly
<1>5. Len(g) = n
  BY <1>1
<1>6. F!WithoutCRLF(c) = [k \in 1 .. n |-> c[k]]
  BY <1>4, <1>5 DEF F!WithoutCRLF, J
<1> QED
  BY <1>1, <1>6

(* The places of a text and of the CR that git puts before each LF. *)
Kept(c) == {p \in 1 .. 2 * Len(c) : p % 2 = 0 \/ c[(p + 1) \div 2] = F!LF}
WithCR(c) ==
  [k \in 1 .. Cardinality(Kept(c)) |->
     IF F!InOrder(Kept(c))[k] % 2 = 0 THEN c[F!InOrder(Kept(c))[k] \div 2] ELSE F!CR]

LEMMA KeptFinite ==
  ASSUME NEW c \in Seq(F!Bytes)
  PROVE  Kept(c) \in SUBSET Nat /\ IsFiniteSet(Kept(c))
<1>1. Len(c) \in Nat
  BY LenProperties
<1>2. IsFiniteSet(1 .. 2 * Len(c)) /\ Kept(c) \in SUBSET (1 .. 2 * Len(c))
  BY <1>1, FS_Interval DEF Kept
<1> QED
  BY <1>1, <1>2, FS_Subset DEF Kept

(* What replace(b"\r\n", b"\n") finds in it is what git put there. *)
LEMMA Inserted ==
  ASSUME NEW c \in Seq(F!Bytes), Plain(c), NEW i \in 1 .. Cardinality(Kept(c))
  PROVE  LET m == Cardinality(Kept(c))
         IN  (WithCR(c)[i] = F!CR /\ i < m /\ WithCR(c)[i + 1] = F!LF)
               <=> F!InOrder(Kept(c))[i] % 2 # 0
<1> DEFINE n == Len(c)
           K == Kept(c)
           m == Cardinality(K)
           g == F!InOrder(K)
           x == WithCR(c)
<1>1. n \in Nat
  BY LenProperties
<1>2. /\ g \in [1 .. m -> K] /\ Rises(g) /\ Onto(g, K)
      /\ m \in Nat
  BY KeptFinite, InOrderRises
<1>3. \A k \in 1 .. m : x[k] = IF g[k] % 2 = 0 THEN c[g[k] \div 2] ELSE F!CR
  BY DEF WithCR
<1>4. \A p \in K : p \in 1 .. 2 * n /\ (p % 2 = 0 \/ c[(p + 1) \div 2] = F!LF)
  BY DEF Kept
<1>5. \A p \in 1 .. 2 * n : p % 2 = 0 => p \in K /\ p \div 2 \in 1 .. n
  BY <1>1 DEF Kept
<1> HIDE DEF g, K, x, n, m
<1>6. CASE g[i] % 2 = 0
  <2>1. g[i] \div 2 \in 1 .. n
    BY <1>2, <1>4, <1>5, <1>6 DEF m, K
  <2>2. x[i] # F!CR
    BY <1>3, <1>6, <2>1 DEF Plain, n, m, K
  <2> QED
    BY <1>6, <2>2 DEF x, g, K
<1>7. CASE g[i] % 2 # 0
  <2> DEFINE p == g[i]
  <2>0. i \in 1 .. m
    BY DEF m, K
  <2>1. p \in K /\ p \in 1 .. 2 * n /\ c[(p + 1) \div 2] = F!LF
    BY <1>2, <1>4, <1>7, <2>0
  <2>2. p + 1 \in K /\ (p + 1) % 2 = 0
    <3> HIDE DEF p
    <3>1. p % 2 # 0 /\ p \in Nat
      BY <1>1, <1>7, <2>1 DEF p
    <3>2. (p + 1) % 2 = 0
      BY <3>1
    <3>3. p # 2 * n
      BY <1>1, <3>1
    <3> QED
      BY <1>1, <1>5, <2>1, <3>2, <3>3
  <2>3. PICK j \in 1 .. m : g[j] = p + 1
    BY <1>2, <2>2 DEF Onto
  <2>4. \A k \in 1 .. m : g[k] \in Nat
    BY <1>2, <1>4
  <2>5. i < j
    BY <1>2, <2>0, <2>1, <2>3, <2>4 DEF Rises
  <2>6. i + 1 \in 1 .. m /\ g[i] < g[i + 1]
    BY <1>2, <2>0, <2>5 DEF Rises
  <2>7. ~ (i + 1 < j)
    BY <1>2, <2>3, <2>4, <2>6 DEF Rises
  <2>8. g[i + 1] = p + 1
    BY <1>2, <2>0, <2>3, <2>5, <2>7
  <2>9. x[i] = F!CR /\ x[i + 1] = F!LF /\ i < m
    BY <1>2, <1>3, <1>7, <2>0, <2>1, <2>2, <2>6, <2>8
  <2> QED
    BY <1>7, <2>9 DEF x, g, K, m
<1> QED
  BY <1>6, <1>7

LEMMA Stripped ==
  ASSUME NEW c \in Seq(F!Bytes), Plain(c)
  PROVE  F!WithoutCRLF(WithCR(c)) = c
<1> DEFINE n == Len(c)
           K == Kept(c)
           m == Cardinality(K)
           g == F!InOrder(K)
           x == WithCR(c)
           J == {i \in 1 .. m : ~ (x[i] = F!CR /\ i < m /\ x[i + 1] = F!LF)}
           h == [k \in 1 .. n |-> F!Rank(K, 2 * k)]
<1>1. n \in Nat /\ c = [k \in 1 .. n |-> c[k]]
  BY SeqDef, LenProperties
<1>2. /\ K \in SUBSET Nat /\ IsFiniteSet(K)
      /\ g \in [1 .. m -> K] /\ Rises(g) /\ Onto(g, K) /\ m \in Nat
      /\ \A p \in K : g[F!Rank(K, p)] = p
  BY KeptFinite, InOrderRises
<1>3. Len(x) = m /\ \A k \in 1 .. m : x[k] = IF g[k] % 2 = 0 THEN c[g[k] \div 2] ELSE F!CR
  BY <1>2 DEF WithCR
<1>4. J = {i \in 1 .. m : g[i] % 2 = 0}
  BY Inserted
<1>5. \A k \in 1 .. n : 2 * k \in K
  BY <1>1 DEF Kept
<1>6. \A p \in K : p % 2 = 0 => p \div 2 \in 1 .. n /\ p = 2 * (p \div 2)
  BY <1>1 DEF Kept
<1> HIDE DEF K, x, J, n, m, g
<1>7. \A k \in 1 .. n : h[k] \in 1 .. m /\ g[h[k]] = 2 * k
  BY <1>2, <1>5, RankRises DEF m
<1>8. J \in SUBSET Nat /\ h \in [1 .. n -> J]
  <2>1. \A k \in 1 .. n : (2 * k) % 2 = 0
    BY <1>1
  <2> QED
    BY <1>2, <1>4, <1>7, <2>1
<1>9. Rises(h)
  <2> SUFFICES ASSUME NEW i \in 1 .. n, NEW j \in 1 .. n, i < j PROVE h[i] < h[j]
    BY DEF Rises
  <2>1. 2 * i \in K /\ 2 * j \in K /\ 2 * i < 2 * j
    BY <1>1, <1>5
  <2> QED
    BY <1>2, <2>1, RankRises
<1>10. Onto(h, J)
  <2> SUFFICES ASSUME NEW i \in J PROVE \E k \in 1 .. n : h[k] = i
    BY DEF Onto
  <2>1. i \in 1 .. m /\ g[i] \in K /\ g[i] % 2 = 0
    BY <1>2, <1>4
  <2>2. PICK k \in 1 .. n : g[i] = 2 * k
    BY <1>6, <2>1
  <2>3. g[h[k]] = g[i] /\ h[k] \in 1 .. m
    BY <1>7, <2>2
  <2>4. \A a \in 1 .. m : g[a] \in Nat
    BY <1>2
  <2>5. ~ (h[k] < i) /\ ~ (i < h[k])
    BY <1>2, <2>1, <2>3, <2>4 DEF Rises
  <2> QED
    BY <1>2, <2>1, <2>3, <2>5
<1>11. F!InOrder(J) = h
  BY <1>1, <1>8, <1>9, <1>10, InOrderOnly
<1>12. Len(h) = n
  BY <1>1
<1>13. F!WithoutCRLF(x) = [k \in 1 .. n |-> x[h[k]]]
  BY <1>3, <1>11, <1>12 DEF F!WithoutCRLF, J
<1>14. \A k \in 1 .. n : x[h[k]] = c[k]
  <2>1. \A k \in 1 .. n : (2 * k) % 2 = 0 /\ (2 * k) \div 2 = k
    BY <1>1
  <2> QED
    BY <1>3, <1>7, <2>1
<1> QED
  BY <1>1, <1>13, <1>14 DEF x

(* Whatever a checkout does to the ends of lines, _read_payload undoes. *)
LEMMA PayloadIsContents ==
  ASSUME NEW name, NEW c \in Seq(F!Bytes), name.text => Plain(c)
  PROVE  F!ReadPayload(name, F!Checkout(name, c)) = c
<1>1. CASE ~ name.text
  BY <1>1 DEF F!ReadPayload, F!Checkout
<1>2. CASE name.text
  <2>1. Len(c) \in Nat /\ c = [k \in 1 .. Len(c) |-> c[k]]
    BY SeqDef, LenProperties
  <2>2. F!WithoutCR(c) = c
    BY <1>2, <2>1 DEF F!WithoutCR, Plain
  <2>3. CASE eol # "crlf"
    BY <1>2, <2>2, <2>3, NothingToStrip DEF F!ReadPayload, F!Checkout
  <2>4. CASE eol = "crlf"
    <3>1. /\ F!InOrder(Kept(c)) \in [1 .. Cardinality(Kept(c)) -> Kept(c)]
          /\ Cardinality(Kept(c)) \in Nat
      BY KeptFinite, InOrderRises
    <3>2. Len(F!InOrder(Kept(c))) = Cardinality(Kept(c))
      BY <3>1
    <3>3. F!Checkout(name, c) = WithCR(c)
      BY <1>2, <2>4, <3>2 DEF F!Checkout, Kept, WithCR
    <3> QED
      BY <1>2, <2>2, <3>3, Stripped DEF F!ReadPayload
  <2> QED
    BY <2>3, <2>4
<1> QED
  BY <1>1, <1>2

-----------------------------------------------------------------------------
(* Recursive functions: the least place where something fails. *)
LEMMA LeastPlace ==
  ASSUME NEW S \in SUBSET Nat, NEW s \in S
  PROVE  \E n \in S : \A m \in S : n <= m
<1>1. IsWellFoundedOn(OpToRel(<, Nat), Nat)
  BY NatLessThanWellFounded
<1>2. PICK n \in S : \A m \in S : ~ (<<m, n>> \in OpToRel(<, Nat))
  BY <1>1, WFMin
<1>3. \A m \in S : ~ (m < n)
  BY <1>2 DEF OpToRel
<1> QED
  BY <1>3

(* The two ways to add up a short name. *)
SumIs(sum, short, m) ==
  sum = [n \in 0 .. m |->
           IF n = 0 THEN 0
           ELSE ((sum[n - 1] % 2) * 128 + sum[n - 1] \div 2 + short[n]) % 256]
Rotated(sum) == IF sum % 2 = 1 THEN 128 + (sum - 1) \div 2 ELSE sum \div 2
CheckIs(check, short, m) ==
  check = [n \in 0 .. m |->
             IF n = 0 THEN 0 ELSE (Rotated(check[n - 1]) + short[n]) % 256]

LEMMA RotatedIs ==
  ASSUME NEW sum \in Nat
  PROVE  Rotated(sum) = (sum % 2) * 128 + sum \div 2 /\ Rotated(sum) \in Nat
  BY DEF Rotated

(* Each has one value for every name. *)
LEMMA SumExists ==
  ASSUME NEW short \in Seq(F!Bytes), NEW m \in 0 .. Len(short)
  PROVE  \E sum \in [0 .. m -> Nat] : SumIs(sum, short, m)
<1>0. Len(short) \in Nat /\ \A n \in 1 .. Len(short) : short[n] \in Nat
  <2>1. Len(short) \in Nat /\ \A n \in 1 .. Len(short) : short[n] \in F!Bytes
    BY ElementOfSeq, LenProperties
  <2>2. \A b \in F!Bytes : b \in Nat
    BY DEF F!Bytes, F!Bits
  <2> QED
    BY <2>1, <2>2
<1> DEFINE Bad == {n \in 0 .. Len(short) : ~ \E sum \in [0 .. n -> Nat] : SumIs(sum, short, n)}
<1> SUFFICES ASSUME m \in Bad PROVE FALSE
  OBVIOUS
<1>1. PICK n \in Bad : \A b \in Bad : n <= b
  <2>1. Bad \in SUBSET Nat
    OBVIOUS
  <2> HIDE DEF Bad
  <2> QED
    BY <2>1, LeastPlace
<1>2. n # 0
  <2>1. [k \in 0 .. 0 |-> 0] \in [0 .. 0 -> Nat] /\ SumIs([k \in 0 .. 0 |-> 0], short, 0)
    BY DEF SumIs
  <2> QED
    BY <1>1, <2>1
<1>3. n - 1 \in 0 .. Len(short) /\ n - 1 \notin Bad /\ n \in 1 .. Len(short)
  <2>1. n \in 0 .. Len(short)
    BY <1>1
  <2> HIDE DEF Bad
  <2>2. n - 1 \in 0 .. Len(short) /\ n \in 1 .. Len(short) /\ ~ (n <= n - 1)
    BY <1>0, <1>2, <2>1
  <2> QED
    BY <1>1, <2>2
<1>4. PICK sum \in [0 .. n - 1 -> Nat] : SumIs(sum, short, n - 1)
  BY <1>3
<1> DEFINE last == ((sum[n - 1] % 2) * 128 + sum[n - 1] \div 2 + short[n]) % 256
           t == [k \in 0 .. n |-> IF k = n THEN last ELSE sum[k]]
<1>5. last \in Nat
  <2>1. sum[n - 1] \in Nat /\ short[n] \in Nat
    BY <1>0, <1>3, <1>4
  <2> QED
    BY <2>1
<1> HIDE DEF last
<1>6. t \in [0 .. n -> Nat]
  BY <1>3, <1>4, <1>5
<1>7. \A k \in 0 .. n - 1 : t[k] = sum[k]
  BY <1>3
<1>8. \A k \in 0 .. n - 1 :
        sum[k] = IF k = 0 THEN 0
                 ELSE ((sum[k - 1] % 2) * 128 + sum[k - 1] \div 2 + short[k]) % 256
  BY <1>4 DEF SumIs
<1>9. \A k \in 0 .. n :
        t[k] = IF k = 0 THEN 0
               ELSE ((t[k - 1] % 2) * 128 + t[k - 1] \div 2 + short[k]) % 256
  <2> SUFFICES ASSUME NEW k \in 0 .. n
               PROVE  t[k] = IF k = 0 THEN 0
                             ELSE ((t[k - 1] % 2) * 128 + t[k - 1] \div 2 + short[k]) % 256
    OBVIOUS
  <2>1. k # 0 => t[k - 1] = sum[k - 1]
    BY <1>3, <1>7
  <2>2. CASE k = n
    BY <1>3, <2>1, <2>2 DEF last
  <2>3. CASE k # n
    <3>1. k \in 0 .. n - 1
      BY <1>3, <2>3
    <3>2. t[k] = sum[k]
      BY <1>7, <3>1
    <3> HIDE DEF t
    <3>3. k # 0 => sum[k - 1] = t[k - 1]
      BY <2>1
    <3> QED
      BY <1>8, <3>1, <3>2, <3>3
  <2> QED
    BY <2>2, <2>3
<1>10. SumIs(t, short, n)
  <2>1. t = [k \in 0 .. n |-> t[k]]
    OBVIOUS
  <2> HIDE DEF t
  <2> QED
    BY <1>9, <2>1 DEF SumIs
<1> QED
  BY <1>1, <1>6, <1>10

LEMMA SumUnique ==
  ASSUME NEW short \in Seq(F!Bytes), NEW m \in Nat, NEW s, NEW t,
         SumIs(s, short, m), SumIs(t, short, m)
  PROVE  s[m] = t[m]
<1> DEFINE Bad == {n \in 0 .. m : s[n] # t[n]}
<1>1. /\ \A n \in 0 .. m :
           s[n] = IF n = 0 THEN 0
                  ELSE ((s[n - 1] % 2) * 128 + s[n - 1] \div 2 + short[n]) % 256
      /\ \A n \in 0 .. m :
           t[n] = IF n = 0 THEN 0
                  ELSE ((t[n - 1] % 2) * 128 + t[n - 1] \div 2 + short[n]) % 256
  BY DEF SumIs
<1> SUFFICES ASSUME m \in Bad PROVE FALSE
  OBVIOUS
<1>2. PICK n \in Bad : \A b \in Bad : n <= b
  <2>1. Bad \in SUBSET Nat
    OBVIOUS
  <2> HIDE DEF Bad
  <2> QED
    BY <2>1, LeastPlace
<1>3. n \in 0 .. m /\ s[n] # t[n]
  BY <1>2
<1>4. n # 0
  BY <1>1, <1>3
<1>5. n - 1 \in 0 .. m /\ ~ (n <= n - 1)
  BY <1>3, <1>4
<1>6. n - 1 \notin Bad
  <2> HIDE DEF Bad
  <2> QED
    BY <1>2, <1>5
<1>7. s[n - 1] = t[n - 1]
  BY <1>5, <1>6
<1> QED
  BY <1>1, <1>3, <1>4, <1>7

LEMMA CheckUnique ==
  ASSUME NEW short \in Seq(F!Bytes), NEW m \in Nat, NEW s, NEW t,
         CheckIs(s, short, m), CheckIs(t, short, m)
  PROVE  s[m] = t[m]
<1> DEFINE Bad == {n \in 0 .. m : s[n] # t[n]}
<1>1. /\ \A n \in 0 .. m :
           s[n] = IF n = 0 THEN 0 ELSE (Rotated(s[n - 1]) + short[n]) % 256
      /\ \A n \in 0 .. m :
           t[n] = IF n = 0 THEN 0 ELSE (Rotated(t[n - 1]) + short[n]) % 256
  BY DEF CheckIs
<1> SUFFICES ASSUME m \in Bad PROVE FALSE
  OBVIOUS
<1>2. PICK n \in Bad : \A b \in Bad : n <= b
  <2>1. Bad \in SUBSET Nat
    OBVIOUS
  <2> HIDE DEF Bad
  <2> QED
    BY <2>1, LeastPlace
<1>3. n \in 0 .. m /\ s[n] # t[n]
  BY <1>2
<1>4. n # 0
  BY <1>1, <1>3
<1>5. n - 1 \in 0 .. m /\ ~ (n <= n - 1)
  BY <1>3, <1>4
<1>6. n - 1 \notin Bad
  <2> HIDE DEF Bad
  <2> QED
    BY <1>2, <1>5
<1>7. s[n - 1] = t[n - 1]
  BY <1>5, <1>6
<1> QED
  BY <1>1, <1>3, <1>4, <1>7

(* So the reader's sum is the one that make_cidata.py wrote. *)
LEMMA ChecksumsAgree ==
  ASSUME NEW short \in Seq(F!Bytes)
  PROVE  (CHOOSE check : CheckIs(check, short, Len(short)))[Len(short)]
           = F!ShortNameChecksum(short)
<1> DEFINE m == Len(short)
<1>1. m \in Nat /\ m \in 0 .. m
  BY LenProperties
<1>2. PICK sum \in [0 .. m -> Nat] : SumIs(sum, short, m)
  BY <1>1, SumExists
<1>3. CheckIs(sum, short, m)
  <2>1. \A n \in 0 .. m : n # 0 =>
          Rotated(sum[n - 1]) = (sum[n - 1] % 2) * 128 + sum[n - 1] \div 2
    <3> SUFFICES ASSUME NEW n \in 0 .. m, n # 0
                 PROVE  Rotated(sum[n - 1]) = (sum[n - 1] % 2) * 128 + sum[n - 1] \div 2
      OBVIOUS
    <3>1. sum[n - 1] \in Nat
      BY <1>1, <1>2
    <3> QED
      BY <3>1, RotatedIs
  <2>2. \A n \in 0 .. m :
          sum[n] = IF n = 0 THEN 0
                   ELSE ((sum[n - 1] % 2) * 128 + sum[n - 1] \div 2 + short[n]) % 256
    BY <1>2 DEF SumIs
  <2>3. \A n \in 0 .. m :
          sum[n] = IF n = 0 THEN 0 ELSE (Rotated(sum[n - 1]) + short[n]) % 256
    BY <2>1, <2>2
  <2>4. sum = [n \in 0 .. m |-> sum[n]]
    BY <1>2
  <2> QED
    BY <2>3, <2>4 DEF CheckIs
<1>4. CheckIs(CHOOSE check : CheckIs(check, short, m), short, m)
  BY <1>3
<1>5. SumIs(CHOOSE s : SumIs(s, short, m), short, m)
  BY <1>2
<1>6. F!ShortNameChecksum(short) = (CHOOSE s : SumIs(s, short, m))[m]
  BY DEF F!ShortNameChecksum, SumIs, F!Bits
<1> QED
  BY <1>1, <1>2, <1>3, <1>4, <1>5, <1>6, SumUnique, CheckUnique

-----------------------------------------------------------------------------
(* Long names. *)
EntriesOf(long) == (Len(long) + 13) \div 13
LongEntry(name, i) ==
  [kind |-> "lfn", sequence |-> i, last |-> i = EntriesOf(name.long),
   checksum |-> F!ShortNameChecksum(name.short),
   units |-> SubSeq(F!PaddedUnits(name.long), 13 * (i - 1) + 1, 13 * i)]

(* The entries before the one at p are those of the name. *)
Described(name, p) ==
  /\ p - EntriesOf(name.long) \in Nat \ {0}
  /\ root[p].short = name.short
  /\ \A i \in 1 .. EntriesOf(name.long) : root[p - i] = LongEntry(name, i)

(* What the reader makes of them. *)
StartsAt(p, s) ==
  /\ root[s].kind = "lfn" /\ root[s].last
  /\ \A q \in s + 1 .. p - 1 : root[q].kind = "lfn" /\ ~ root[q].last
Collected(p, count) ==
  [i \in 1 .. 13 * count |-> root[p - 1 - (i - 1) \div 13].units[((i - 1) % 13) + 1]]

(* The lengths of names and of their pieces. *)
LEMMA Thirteens ==
  ASSUME NEW n \in Nat
  PROVE  (n + 13) \div 13 \in Nat \ {0} /\ n + 1 <= 13 * ((n + 13) \div 13)
  OBVIOUS

LEMMA Thirteenth ==
  ASSUME NEW n \in Nat, NEW i \in 1 .. 13 * n
  PROVE  /\ (i - 1) \div 13 \in Nat /\ (i - 1) % 13 \in 0 .. 12
         /\ 13 * ((i - 1) \div 13) + ((i - 1) % 13) + 1 = i
         /\ (i - 1) \div 13 + 1 \in 1 .. n
<1> DEFINE j == i - 1
           d == j \div 13
           r == j % 13
<1>1. j \in Nat /\ j + 1 = i /\ j < 13 * n
  OBVIOUS
<1> HIDE DEF j
<1>2. d \in Nat /\ r \in 0 .. 12 /\ 13 * d + r = j
  BY <1>1
<1> HIDE DEF d, r
<1>3. d + 1 \in 1 .. n
  BY <1>1, <1>2
<1>4. 13 * d + r + 1 = i
  BY <1>1, <1>2
<1> QED
  <2>1. j \div 13 \in Nat /\ j % 13 \in 0 .. 12
    BY <1>2 DEF d, r
  <2>2. 13 * (j \div 13) + (j % 13) + 1 = i /\ j \div 13 + 1 \in 1 .. n
    BY <1>3, <1>4 DEF d, r
  <2> QED
    BY <2>1, <2>2, Zenon DEF j

LEMMA Slice ==
  ASSUME NEW s, NEW m \in Int, NEW n \in Int
  PROVE  /\ SubSeq(s, m, n) \in Seq({s[i] : i \in m .. n})
         /\ Len(SubSeq(s, m, n)) = IF m <= n THEN n - m + 1 ELSE 0
         /\ \A i \in 1 .. n - m + 1 : SubSeq(s, m, n)[i] = s[m + i - 1]
<1>1. \A i \in m .. n : s[i] \in {s[j] : j \in m .. n}
  OBVIOUS
<1> QED
  BY <1>1, SubSeqProperties

LEMMA Entries ==
  ASSUME NEW long \in Seq(F!Units)
  PROVE  EntriesOf(long) \in Nat \ {0}
<1>1. Len(long) \in Nat
  BY LenProperties
<1> QED
  BY <1>1, Thirteens DEF EntriesOf

(* The units of a name, and what fills its last piece. *)
Unit(long, i) ==
  IF i <= Len(long) THEN long[i] ELSE IF i = Len(long) + 1 THEN 0 ELSE 65535

LEMMA Padded ==
  ASSUME NEW long \in Seq(F!Units)
  PROVE  /\ Len(long) \in Nat /\ Len(long) + 1 <= 13 * EntriesOf(long)
         /\ Len(F!PaddedUnits(long)) = 13 * EntriesOf(long)
         /\ DOMAIN F!PaddedUnits(long) = 1 .. 13 * EntriesOf(long)
         /\ F!PaddedUnits(long) = [i \in 1 .. 13 * EntriesOf(long) |-> F!PaddedUnits(long)[i]]
         /\ \A i \in 1 .. 13 * EntriesOf(long) : F!PaddedUnits(long)[i] = Unit(long, i)
<1>1. Len(long) \in Nat
  BY LenProperties
<1>2. EntriesOf(long) \in Nat \ {0} /\ Len(long) + 1 <= 13 * EntriesOf(long)
  BY <1>1, Thirteens DEF EntriesOf
<1>3. F!PaddedUnits(long) = [i \in 1 .. 13 * EntriesOf(long) |-> Unit(long, i)]
  BY DEF F!PaddedUnits, EntriesOf, Unit
<1>4. Len(F!PaddedUnits(long)) = 13 * EntriesOf(long)
  BY <1>2, <1>3
<1>5. \A i \in 1 .. 13 * EntriesOf(long) : F!PaddedUnits(long)[i] = Unit(long, i)
  BY <1>3
<1>6. F!PaddedUnits(long) = [i \in 1 .. 13 * EntriesOf(long) |-> F!PaddedUnits(long)[i]]
  BY <1>3, <1>5
<1> QED
  BY <1>1, <1>2, <1>3, <1>4, <1>5, <1>6

LEMMA StartFound ==
  ASSUME NEW name, name.long \in Seq(F!Units), NEW p \in Nat, Described(name, p)
  PROVE  (CHOOSE s \in 1 .. p - 1 : StartsAt(p, s)) = p - EntriesOf(name.long)
<1> DEFINE n == EntriesOf(name.long)
<1>1. n \in Nat \ {0} /\ p - n \in Nat \ {0}
  <2>1. n \in Nat \ {0}
    BY Entries
  <2> QED
    BY <2>1 DEF Described
<1>2. \A i \in 1 .. n : root[p - i].kind = "lfn" /\ (root[p - i].last <=> i = n)
  <2>1. \A i \in 1 .. n : root[p - i] = LongEntry(name, i)
    BY DEF Described
  <2>2. \A i : LongEntry(name, i).kind = "lfn" /\ (LongEntry(name, i).last <=> i = n)
    BY DEF LongEntry
  <2> QED
    BY <2>1, <2>2
<1> HIDE DEF n
<1>3. \A q \in p - n .. p - 1 : root[q].kind = "lfn" /\ (root[q].last <=> q = p - n)
  <2> SUFFICES ASSUME NEW q \in p - n .. p - 1
               PROVE  root[q].kind = "lfn" /\ (root[q].last <=> q = p - n)
    OBVIOUS
  <2>1. p - q \in 1 .. n /\ p - (p - q) = q /\ (p - q = n <=> q = p - n)
    BY <1>1
  <2> QED
    BY <1>2, <2>1
<1>4. p - n \in 1 .. p - 1 /\ StartsAt(p, p - n)
  BY <1>1, <1>3 DEF StartsAt
<1>5. ASSUME NEW s \in 1 .. p - 1, StartsAt(p, s)
      PROVE  s = p - n
  <2>1. s \in Int /\ p - n \in Int
    BY <1>1
  <2>2. CASE s < p - n
    <3>1. p - n \in s + 1 .. p - 1
      BY <1>1, <2>2
    <3> QED
      BY <1>3, <1>4, <1>5, <3>1 DEF StartsAt
  <2>3. CASE s > p - n
    BY <1>1, <1>3, <1>5, <2>3 DEF StartsAt
  <2> QED
    BY <2>1, <2>2, <2>3
<1> QED
  BY <1>4, <1>5 DEF n

LEMMA CollectedIs ==
  ASSUME NEW name, name.long \in Seq(F!Units), NEW p \in Nat, Described(name, p)
  PROVE  Collected(p, EntriesOf(name.long)) = F!PaddedUnits(name.long)
<1> DEFINE n == EntriesOf(name.long)
           U == F!PaddedUnits(name.long)
<1>1. /\ n \in Nat \ {0} /\ p - n \in Nat \ {0}
      /\ Len(U) = 13 * n /\ U = [i \in 1 .. 13 * n |-> U[i]]
  <2>1. n \in Nat \ {0} /\ Len(U) = 13 * n /\ U = [i \in 1 .. 13 * n |-> U[i]]
    BY Entries, Padded
  <2>2. p - n \in Nat \ {0}
    BY DEF Described
  <2> QED
    BY <2>1, <2>2
<1>2. \A i \in 1 .. n : root[p - i].units = SubSeq(U, 13 * (i - 1) + 1, 13 * i)
  <2>1. \A i \in 1 .. n : root[p - i] = LongEntry(name, i)
    BY DEF Described
  <2>2. \A i : LongEntry(name, i).units = SubSeq(U, 13 * (i - 1) + 1, 13 * i)
    BY DEF LongEntry
  <2> QED
    BY <2>1, <2>2
<1> HIDE DEF n, U
<1>3. ASSUME NEW i \in 1 .. 13 * n
      PROVE  root[p - 1 - (i - 1) \div 13].units[((i - 1) % 13) + 1] = U[i]
  <2> DEFINE d == (i - 1) \div 13
             r == (i - 1) % 13
  <2>1. /\ d \in Nat /\ d + 1 \in 1 .. n /\ r \in 0 .. 12 /\ 13 * d + r + 1 = i
        /\ p - 1 - d = p - (d + 1)
    <3>1. d \in Nat /\ r \in 0 .. 12 /\ 13 * d + r + 1 = i /\ d + 1 \in 1 .. n
      BY <1>1, Thirteenth
    <3> HIDE DEF d, r
    <3> QED
      BY <3>1
  <2> HIDE DEF d, r
  <2>2. root[p - 1 - d].units = SubSeq(U, 13 * d + 1, 13 * (d + 1))
    <3>1. 13 * ((d + 1) - 1) + 1 = 13 * d + 1
      BY <2>1
    <3> QED
      BY <1>2, <2>1, <3>1
  <2>3. r + 1 \in 1 .. 13 * (d + 1) - (13 * d + 1) + 1 /\ 13 * d + 1 + (r + 1) - 1 = i
    BY <2>1
  <2>4. SubSeq(U, 13 * d + 1, 13 * (d + 1))[r + 1] = U[i]
    <3>1. 13 * d + 1 \in Int /\ 13 * (d + 1) \in Int
      BY <2>1
    <3> QED
      BY <2>3, <3>1, Slice
  <2> QED
    BY <2>2, <2>4 DEF d, r
<1>4. Collected(p, n) = [i \in 1 .. 13 * n |-> U[i]]
  BY <1>3 DEF Collected
<1> QED
  BY <1>1, <1>4 DEF n, U

(* The unit that ends a long name is none of its own. *)
LEMMA NoZeroUnit == 0 \notin F!Units
BY DEF F!Units

(* The end of a name is its first 0. *)
LEMMA EndFound ==
  ASSUME NEW long \in Seq(F!Units)
  PROVE  LET U    == F!PaddedUnits(long)
             ends == {i \in 1 .. 13 * EntriesOf(long) : U[i] = 0}
         IN  SubSeq(U, 1, (CHOOSE i \in ends : \A j \in ends : i <= j) - 1) = long
<1> DEFINE U == F!PaddedUnits(long)
           m == Len(long)
           ends == {i \in 1 .. 13 * EntriesOf(long) : U[i] = 0}
           first == CHOOSE i \in ends : \A j \in ends : i <= j
<1>1. /\ m \in Nat /\ m + 1 \in 1 .. 13 * EntriesOf(long)
      /\ EntriesOf(long) \in Nat
      /\ \A i \in 1 .. 13 * EntriesOf(long) : U[i] = Unit(long, i)
  BY Padded, Entries
<1>2. \A i \in 1 .. m : long[i] # 0
  <2>1. \A i \in 1 .. m : long[i] \in F!Units
    BY ElementOfSeq
  <2>2. 0 \notin F!Units
    BY NoZeroUnit
  <2> QED
    BY <2>1, <2>2
<1>3. m + 1 \in ends /\ \A j \in ends : m + 1 <= j
  BY <1>1, <1>2 DEF Unit
<1>4. ends \in SUBSET Nat
  BY <1>1
<1>5. first = m + 1
  <2> HIDE DEF ends
  <2>1. \A i \in ends : (\A j \in ends : i <= j) => i = m + 1
    BY <1>3, <1>4
  <2> QED
    BY <1>3, <2>1
<1>6. SubSeq(U, 1, m) = long
  <2>1. /\ SubSeq(U, 1, m) \in Seq({U[i] : i \in 1 .. m})
        /\ Len(SubSeq(U, 1, m)) = m
        /\ \A i \in 1 .. m : SubSeq(U, 1, m)[i] = U[i]
    <3>1. /\ SubSeq(U, 1, m) \in Seq({U[i] : i \in 1 .. m})
          /\ Len(SubSeq(U, 1, m)) = IF 1 <= m THEN m - 1 + 1 ELSE 0
          /\ \A i \in 1 .. m - 1 + 1 : SubSeq(U, 1, m)[i] = U[1 + i - 1]
      <4>1. m \in Int /\ 1 \in Int
        BY <1>1
      <4> HIDE DEF U, m, ends, first
      <4> QED
        BY <4>1, Slice
    <3>2. m - 1 + 1 = m /\ \A i \in 1 .. m : 1 + i - 1 = i
      BY <1>1
    <3> HIDE DEF U
    <3> QED
      BY <1>1, <3>1, <3>2
  <2>2. \A i \in 1 .. m : U[i] = long[i]
    BY <1>1 DEF Unit
  <2>3. /\ SubSeq(U, 1, m) = [i \in 1 .. m |-> SubSeq(U, 1, m)[i]]
        /\ long = [i \in 1 .. m |-> long[i]]
    <3>1. DOMAIN SubSeq(U, 1, m) = 1 .. m /\ SubSeq(U, 1, m) \in [1 .. m -> {U[i] : i \in 1 .. m}]
      BY <2>1, LenProperties
    <3>2. long \in [1 .. m -> F!Units]
      BY LenProperties
    <3> HIDE DEF U, m
    <3> QED
      BY <3>1, <3>2
  <2> HIDE DEF U, m
  <2> QED
    BY <2>1, <2>2, <2>3
<1>7. first - 1 = m
  <2> HIDE DEF first
  <2> QED
    BY <1>1, <1>5
<1> HIDE DEF m, U, ends, first
<1>8. SubSeq(U, 1, first - 1) = long
  BY <1>6, <1>7
<1> QED
  BY <1>8, Zenon DEF U, ends, first

(* A name is found before its entry, whole and with the right checksum. *)
LEMMA LongNameReads ==
  ASSUME NEW name, name.long \in Seq(F!Units), name.short \in Seq(F!Bytes),
         NEW p \in Nat, Described(name, p)
  PROVE  F!LongName(p) = name.long
<1> DEFINE n == EntriesOf(name.long)
           start == CHOOSE s \in 1 .. p - 1 : StartsAt(p, s)
           ends == {i \in 1 .. 13 * n : Collected(p, n)[i] = 0}
           short == root[p].short
           check == CHOOSE c : CheckIs(c, short, Len(short))
<1>1. n \in Nat \ {0} /\ p - n \in Nat \ {0} /\ short = name.short
  <2>1. n \in Nat \ {0}
    BY Entries
  <2> QED
    BY <2>1 DEF Described
<1>2. start = p - n
  BY StartFound
<1>3. F!LongName(p) =
        IF \A i \in 1 .. p - start :
             root[p - i].sequence = i /\ root[p - i].checksum = check[Len(short)]
        THEN LET units == Collected(p, p - start)
                 e == {i \in 1 .. 13 * (p - start) : units[i] = 0}
             IN  SubSeq(units, 1, (CHOOSE i \in e : \A j \in e : i <= j) - 1)
        ELSE <<>>
  BY DEF F!LongName, StartsAt, Collected, CheckIs, Rotated
<1>4. p - start = n
  <2> HIDE DEF start, n
  <2> QED
    BY <1>1, <1>2
<1>5. \A i \in 1 .. n : root[p - i].sequence = i /\ root[p - i].checksum = check[Len(short)]
  <2>1. \A i \in 1 .. n : root[p - i] = LongEntry(name, i)
    BY DEF Described
  <2>2. \A i : /\ LongEntry(name, i).sequence = i
               /\ LongEntry(name, i).checksum = F!ShortNameChecksum(name.short)
    BY DEF LongEntry
  <2>3. check[Len(short)] = F!ShortNameChecksum(name.short)
    BY <1>1, ChecksumsAgree
  <2> QED
    BY <2>1, <2>2, <2>3
<1>6. Collected(p, n) = F!PaddedUnits(name.long)
  BY CollectedIs
<1> HIDE DEF start, check, short
<1>7. F!LongName(p) =
        LET units == F!PaddedUnits(name.long)
            e == {i \in 1 .. 13 * n : units[i] = 0}
        IN  SubSeq(units, 1, (CHOOSE i \in e : \A j \in e : i <= j) - 1)
  BY <1>3, <1>4, <1>5, <1>6
<1> QED
  BY <1>7, EndFound

-----------------------------------------------------------------------------
(* Chains: n clusters one after the other, the last one marked. *)
Chained(first, n) ==
  \A i \in 0 .. n - 1 :
    F!Entry(fat, first + i) = IF i + 1 < n THEN first + i + 1 ELSE F!FatEof

ChainIs(at, first, n) ==
  at = [i \in 0 .. n |-> IF i = 0 THEN first ELSE F!Entry(fat, at[i - 1])]

LEMMA ChainUnique ==
  ASSUME NEW first, NEW m \in Nat, NEW s, NEW t,
         ChainIs(s, first, m), ChainIs(t, first, m)
  PROVE  s[m] = t[m]
<1> DEFINE Bad == {n \in 0 .. m : s[n] # t[n]}
<1>1. /\ \A n \in 0 .. m : s[n] = IF n = 0 THEN first ELSE F!Entry(fat, s[n - 1])
      /\ \A n \in 0 .. m : t[n] = IF n = 0 THEN first ELSE F!Entry(fat, t[n - 1])
  BY DEF ChainIs
<1> SUFFICES ASSUME m \in Bad PROVE FALSE
  OBVIOUS
<1>2. PICK n \in Bad : \A b \in Bad : n <= b
  <2>1. Bad \in SUBSET Nat
    OBVIOUS
  <2> HIDE DEF Bad
  <2> QED
    BY <2>1, LeastPlace
<1>3. n \in 0 .. m /\ s[n] # t[n]
  BY <1>2
<1>4. n # 0
  BY <1>1, <1>3
<1>5. n - 1 \in 0 .. m /\ ~ (n <= n - 1)
  BY <1>3, <1>4
<1>6. n - 1 \notin Bad
  <2> HIDE DEF Bad
  <2> QED
    BY <1>2, <1>5
<1>7. s[n - 1] = t[n - 1]
  BY <1>5, <1>6
<1> QED
  BY <1>1, <1>3, <1>4, <1>7

(* A reader who follows one comes by every cluster, then to its end. *)
LEMMA ChainReads ==
  ASSUME NEW first \in Nat, NEW n \in Nat \ {0}, Chained(first, n), NEW m \in 0 .. n
  PROVE  F!InChain(first, m) = IF m < n THEN first + m ELSE F!FatEof
<1> DEFINE t == [i \in 0 .. m |-> IF i < n THEN first + i ELSE F!FatEof]
<1>1. ChainIs(t, first, m)
  <2>1. \A i \in 0 .. m : t[i] = IF i = 0 THEN first ELSE F!Entry(fat, t[i - 1])
    <3> SUFFICES ASSUME NEW i \in 0 .. m
                 PROVE  t[i] = IF i = 0 THEN first ELSE F!Entry(fat, t[i - 1])
      OBVIOUS
    <3>1. CASE i = 0
      BY <3>1
    <3>2. CASE i # 0
      <4>1. i - 1 \in 0 .. n - 1 /\ i - 1 \in 0 .. m /\ i - 1 < n
        BY <3>2
      <4>2. t[i - 1] = first + (i - 1)
        BY <4>1
      <4>3. F!Entry(fat, first + (i - 1))
              = IF (i - 1) + 1 < n THEN first + (i - 1) + 1 ELSE F!FatEof
        BY <4>1 DEF Chained
      <4>4. (i - 1) + 1 = i /\ first + (i - 1) + 1 = first + i
        OBVIOUS
      <4>5. t[i] = IF i < n THEN first + i ELSE F!FatEof
        OBVIOUS
      <4> HIDE DEF t
      <4> QED
        BY <3>2, <4>2, <4>3, <4>4, <4>5
    <3> QED
      BY <3>1, <3>2
  <2>2. t = [i \in 0 .. m |-> t[i]]
    OBVIOUS
  <2> HIDE DEF t
  <2> QED
    BY <2>1, <2>2 DEF ChainIs
<1>2. ChainIs(CHOOSE at : ChainIs(at, first, m), first, m)
  BY <1>1
<1>3. F!InChain(first, m) = (CHOOSE at : ChainIs(at, first, m))[m]
  BY DEF F!InChain, ChainIs
<1>4. m \in Nat /\ t[m] = IF m < n THEN first + m ELSE F!FatEof
  OBVIOUS
<1> HIDE DEF t
<1> QED
  BY <1>1, <1>2, <1>3, <1>4, ChainUnique

-----------------------------------------------------------------------------
(* F!Bytes and clusters. *)
LEMMA Division ==
  ASSUME NEW a \in Nat, NEW b \in Nat \ {0}
  PROVE  /\ a \div b \in Nat /\ a % b \in 0 .. b - 1
         /\ a = b * (a \div b) + (a % b)
  OBVIOUS

LEMMA Monotone ==
  ASSUME NEW a \in Nat, NEW c \in Nat, NEW b \in Nat, a <= c
  PROVE  b * a <= b * c /\ b * a \in Nat
  OBVIOUS

LEMMA Sizes ==
  /\ BytesPerSector \in Nat \ {0} /\ RootSectors \in Nat \ {0} /\ FatCount \in Nat \ {0}
  /\ SectorsPerFat \in Nat \ {0} /\ ReservedSectors \in Nat \ {0} /\ TotalSectors \in Nat
  /\ RootSectors * BytesPerSector = RootEntries * 32
  BY ToolsAssumption DEF ToolsAssumption, F!Fat12Assumption, F!DiskAssumption

Clusters(size) == (size + BytesPerSector - 1) \div BytesPerSector

LEMMA ClustersHold ==
  ASSUME NEW size \in Nat
  PROVE  /\ Clusters(size) \in Nat /\ (Clusters(size) = 0 <=> size = 0)
         /\ \A i \in 1 .. size : (i - 1) \div BytesPerSector \in 0 .. Clusters(size) - 1
<1> DEFINE B == BytesPerSector
           n == Clusters(size)
           r == (size + B - 1) % B
<1>1. B \in Nat \ {0}
  BY Sizes
<1>2. n \in Nat /\ r \in 0 .. B - 1 /\ size + B - 1 = B * n + r
  <2>1. size + B - 1 \in Nat
    BY <1>1
  <2> QED
    BY <1>1, <2>1, Division DEF Clusters
<1> HIDE DEF n, r, B
<1>3. n = 0 <=> size = 0
  <2>1. CASE n = 0
    BY <1>1, <1>2, <2>1
  <2>2. CASE n # 0
    <3>1. B * 1 <= B * n
      BY <1>1, <1>2, <2>2, Monotone
    <3> QED
      BY <1>1, <1>2, <2>2, <3>1
  <2> QED
    BY <2>1, <2>2
<1>4. ASSUME NEW i \in 1 .. size
      PROVE  (i - 1) \div B \in 0 .. n - 1
  <2> DEFINE q == (i - 1) \div B
             s == (i - 1) % B
  <2>1. q \in Nat /\ s \in 0 .. B - 1 /\ i - 1 = B * q + s
    <3>1. i - 1 \in Nat
      OBVIOUS
    <3> QED
      BY <1>1, <3>1, Division
  <2> HIDE DEF q, s
  <2>2. ASSUME n <= q PROVE FALSE
    <3>1. B * n <= B * q /\ B * n \in Nat /\ B * q \in Nat
      BY <1>1, <1>2, <2>1, <2>2, Monotone
    <3> HIDE DEF n
    <3> QED
      BY <1>1, <1>2, <2>1, <3>1
  <2>3. q \in 0 .. n - 1
    BY <1>2, <2>1, <2>2
  <2> QED
    BY <2>3 DEF q
<1> QED
  BY <1>2, <1>3, <1>4 DEF n, B

(* Where the boot sector says the data begins. *)
LEMMA DataBegins == F!FirstDataSector = F!DataStartSector /\ F!DataStartSector \in Nat
<1>1. (RootSectors * BytesPerSector) \div BytesPerSector = RootSectors
  <2>1. RootSectors \in Nat /\ BytesPerSector \in Nat \ {0}
    BY Sizes
  <2> QED
    BY <2>1
<1>2. (RootEntries * 32) \div BytesPerSector = RootSectors
  BY <1>1, Sizes
<1>3. FatCount * SectorsPerFat \in Nat
  BY Sizes
<1> QED
  BY <1>2, <1>3, Sizes DEF F!FirstDataSector, F!DataStartSector

(* What a cluster of a file holds. *)
Chunk(bytes, i) ==
  SubSeq(bytes, i * BytesPerSector + 1, F!Min({Len(bytes), (i + 1) * BytesPerSector}))
Placed(first, bytes, n) ==
  \A i \in 0 .. n - 1 : data[F!DataStartSector + first + i - 2] = Chunk(bytes, i)

LEMMA Least ==
  ASSUME NEW a \in Nat, NEW b \in Nat
  PROVE  F!Min({a, b}) = IF a <= b THEN a ELSE b
<1>1. \E x \in {a, b} : \A y \in {a, b} : x <= y
  OBVIOUS
<1> QED
  BY <1>1 DEF F!Min

LEMMA ChunkHolds ==
  ASSUME NEW bytes \in Seq(F!Bytes), NEW i \in 1 .. Len(bytes)
  PROVE  Chunk(bytes, (i - 1) \div BytesPerSector)[((i - 1) % BytesPerSector) + 1] = bytes[i]
<1> DEFINE B == BytesPerSector
           q == (i - 1) \div B
           r == (i - 1) % B
           last == F!Min({Len(bytes), (q + 1) * B})
<1>1. B \in Nat \ {0} /\ Len(bytes) \in Nat
  BY Sizes, LenProperties
<1>2. q \in Nat /\ r \in 0 .. B - 1 /\ i - 1 = B * q + r
  <2>1. i - 1 \in Nat
    OBVIOUS
  <2> QED
    BY <1>1, <2>1, Division
<1> HIDE DEF q, r, B
<1>3. (q + 1) * B = q * B + B /\ q * B = B * q /\ q * B \in Nat
  BY <1>1, <1>2
<1>4. last \in Nat /\ i <= last
  <2>1. last = IF Len(bytes) <= (q + 1) * B THEN Len(bytes) ELSE (q + 1) * B
    BY <1>1, <1>3, Least
  <2> HIDE DEF last
  <2> QED
    BY <1>1, <1>2, <1>3, <2>1
<1> HIDE DEF last
<1>5. r + 1 \in 1 .. last - (q * B + 1) + 1 /\ q * B + 1 + (r + 1) - 1 = i
  BY <1>1, <1>2, <1>3, <1>4
<1>6. q * B + 1 \in Int /\ last \in Int
  BY <1>3, <1>4
<1>7. SubSeq(bytes, q * B + 1, last)[r + 1] = bytes[i]
  BY <1>5, <1>6, Slice
<1> QED
  BY <1>7 DEF Chunk, q, r, B, last

(* A file whose clusters are chained and hold its bytes reads back. *)
LEMMA FileReads ==
  ASSUME NEW bytes \in Seq(F!Bytes), NEW first \in Nat, NEW e,
         LET n == Clusters(Len(bytes))
         IN  /\ e.size = Len(bytes) /\ e.first = IF n > 0 THEN first ELSE 0
             /\ 2 <= first /\ first + n <= next /\ next \in Nat
             /\ Chained(first, n) /\ Placed(first, bytes, n)
  PROVE  F!ChainEnds(e) /\ F!BytesOf(e) = bytes
<1> DEFINE n == Clusters(Len(bytes))
           B == BytesPerSector
<1>1. /\ Len(bytes) \in Nat /\ n \in Nat /\ (n = 0 <=> Len(bytes) = 0)
      /\ \A i \in 1 .. Len(bytes) : (i - 1) \div B \in 0 .. n - 1
  BY LenProperties, ClustersHold
<1>2. (e.size + B - 1) \div B = n
  BY DEF Clusters
<1>3. \A m \in 0 .. n :
        n # 0 => F!InChain(e.first, m) = IF m < n THEN first + m ELSE F!FatEof
  BY <1>1, ChainReads
<1>4. F!ChainEnds(e)
  <2> HIDE DEF n
  <2>1. CASE n = 0
    BY <1>1, <1>2, <2>1 DEF F!ChainEnds, n
  <2>2. CASE n # 0
    <3>1. \A i \in 0 .. n - 1 : F!InChain(e.first, i) \in 2 .. next - 1
      BY <1>1, <1>3, <2>2 DEF n
    <3>2. F!InChain(e.first, n) = F!FatEof
      BY <1>1, <1>3, <2>2
    <3> QED
      BY <1>2, <2>2, <3>1, <3>2 DEF F!ChainEnds, F!FatEof
  <2> QED
    BY <2>1, <2>2
<1>5. ASSUME NEW i \in 1 .. Len(bytes)
      PROVE  data[F!FirstDataSector + F!InChain(e.first, (i - 1) \div B) - 2]
                 [((i - 1) % B) + 1] = bytes[i]
  <2> DEFINE q == (i - 1) \div B
  <2>1. q \in 0 .. n - 1
    BY <1>1
  <2>2. n # 0 /\ q \in 0 .. n /\ q < n /\ q \in Nat
    BY <1>1, <2>1
  <2> HIDE DEF q, n
  <2>3. F!InChain(e.first, q) = first + q
    BY <1>3, <2>2
  <2>4. F!FirstDataSector + (first + q) - 2 = F!DataStartSector + first + q - 2
    BY <2>2, DataBegins
  <2>5. data[F!FirstDataSector + F!InChain(e.first, q) - 2] = Chunk(bytes, q)
    BY <2>1, <2>3, <2>4 DEF Placed, n
  <2> QED
    BY <2>5, ChunkHolds DEF q
<1>6. F!BytesOf(e) = [i \in 1 .. Len(bytes) |-> bytes[i]]
  BY <1>5 DEF F!BytesOf
<1>7. bytes = [i \in 1 .. Len(bytes) |-> bytes[i]]
  <2>1. bytes \in [1 .. Len(bytes) -> F!Bytes]
    BY LenProperties
  <2> QED
    BY <2>1
<1> QED
  BY <1>4, <1>6, <1>7

-----------------------------------------------------------------------------
(* The image as it is built. *)

(* The clusters given out so far fit the table, the data area and FAT12. *)
End == IF fatPc = "clusters" THEN next + index ELSE next
FitsTo(end) ==
  /\ InTable(end - 1) /\ end - 1 < 4088
  /\ F!DataStartSector + (end - 1) - 2 < TotalSectors
Fits == FitsTo(End)

Rows ==
  {F!Volume}
    \cup {LongEntry(Files[f], i) : f \in 1 .. Len(Files), i \in Nat}
    \cup {F!DirectoryEntry(Files[f].short, first, size) :
            f \in 1 .. Len(Files), first \in Nat, size \in Nat}

(* Types, and what the loops hold on to. *)
FatShape ==
  /\ contents \in Contents /\ eol \in {"lf", "crlf"}
  /\ fatPc \in {"scan", "clusters", "layout", "done", "overflow"}
  /\ file \in 1 .. Len(Files)
  /\ fatPc \in {"layout", "done", "overflow"} => file = Len(Files)
  /\ payload \in Seq(F!Bytes) /\ index \in 0 .. F!ClusterCount
  /\ next \in Nat /\ next >= 2
  /\ DOMAIN data = F!Sectors
  /\ root \in Seq(Rows) /\ root # <<>>

(* The table is one, and opens with its reserved entries. *)
TableKept ==
  /\ fat \in Tables
  /\ fat[0] = 240 /\ fat[1] = 255 /\ fat[2] = 255

(* A file that has been dealt with. *)
FileAt(f, p, first) ==
  LET n == Clusters(Len(contents[f]))
  IN  /\ Described(Files[f], p) /\ p <= Len(root)
      /\ root[p] = F!DirectoryEntry(Files[f].short, IF n > 0 THEN first ELSE 0, Len(contents[f]))
      /\ 2 <= first /\ first + n <= next
      /\ Chained(first, n) /\ Placed(first, contents[f], n)
FileKept(f) == \E p \in Nat, first \in Nat : FileAt(f, p, first)

Finished == IF fatPc \in {"scan", "clusters"} THEN file - 1 ELSE Len(Files)

(* The one at hand: its clusters up to index. *)
AtHand ==
  fatPc = "clusters" =>
    /\ payload = contents[file]
    /\ \A i \in 0 .. index - 1 :
         F!Entry(fat, next + i) = IF i + 1 < F!ClusterCount THEN next + i + 1 ELSE F!FatEof
    /\ Placed(next, payload, index)

FatInv ==
  /\ FatShape
  /\ Fits => TableKept /\ (\A f \in 1 .. Finished : FileKept(f)) /\ AtHand

-----------------------------------------------------------------------------
LEMMA TheFiles ==
  /\ Len(Files) \in Nat \ {0}
  /\ \A f \in 1 .. Len(Files) :
       /\ Files[f].long \in Seq(F!Units) /\ Files[f].short \in Seq(F!Bytes)
       /\ Files[f].text \in BOOLEAN
<1>1. /\ Files \in Seq([long : Seq(F!Units), short : Seq(F!Bytes), text : BOOLEAN])
      /\ Files # <<>>
  BY ToolsAssumption DEF ToolsAssumption, F!Fat12Assumption, F!FilesAssumption
<1>2. Len(Files) \in Nat \ {0}
  BY <1>1, EmptySeq
<1>3. \A f \in 1 .. Len(Files) :
        Files[f] \in [long : Seq(F!Units), short : Seq(F!Bytes), text : BOOLEAN]
  BY <1>1, ElementOfSeq
<1> QED
  BY <1>2, <1>3

LEMMA TheContents ==
  ASSUME NEW c \in Contents, NEW f \in 1 .. Len(Files)
  PROVE  c[f] \in Seq(F!Bytes) /\ (Files[f].text => Plain(c[f]))
<1>1. c \in Seq(Seq(F!Bytes)) /\ Len(c) = Len(Files)
  BY ToolsAssumption DEF ToolsAssumption, F!Fat12Assumption, F!FilesAssumption
<1>2. c[f] \in Seq(F!Bytes)
  BY <1>1, ElementOfSeq
<1>3. Files[f].text => Plain(c[f])
  BY ToolsAssumption DEF ToolsAssumption, F!Fat12Assumption, F!FilesAssumption, Plain
<1> QED
  BY <1>2, <1>3

(* What the properties of a finished file rest on. *)
LEMMA InvReadsBack == ASSUME FatInv, Fits PROVE F!ReadsBack
<1>1. FatShape /\ TableKept /\ (\A f \in 1 .. Finished : FileKept(f))
  BY DEF FatInv
<1>2. F!TypeOK
  <2>1. next \in 2 .. TotalSectors
    <3>1. F!DataStartSector >= 3
      <4>1. FatCount * SectorsPerFat \in Nat /\ FatCount * SectorsPerFat >= 1
        BY Sizes
      <4> QED
        BY <4>1, Sizes DEF F!DataStartSector
    <3>2. End \in Nat /\ next <= End
      <4>1. index \in Nat
        BY <1>1 DEF FatShape
      <4> QED
        BY <1>1, <4>1 DEF FatShape, End
    <3>3. F!DataStartSector + (End - 1) - 2 < TotalSectors
      BY DEF Fits, FitsTo
    <3> QED
      BY <1>1, <3>1, <3>2, <3>3, DataBegins, Sizes DEF FatShape
  <2>2. fat \in [0 .. F!FatBytes - 1 -> F!Bytes]
    BY <1>1 DEF TableKept, Tables, Places
  <2> QED
    BY <1>1, <2>1, <2>2 DEF F!TypeOK, FatShape, TableKept
<1>3. ASSUME fatPc = "done", NEW f \in 1 .. Len(Files)
      PROVE  \E p \in 2 .. Len(root) :
               /\ root[p].kind = "file" /\ root[p].short = Files[f].short
               /\ F!LongName(p) = Files[f].long
               /\ F!ChainEnds(root[p])
               /\ F!BytesOf(root[p]) = contents[f]
  <2>1. PICK p \in Nat, first \in Nat : FileAt(f, p, first)
    <3>1. FileKept(f)
      BY <1>1, <1>3 DEF Finished
    <3> QED
      BY <3>1 DEF FileKept
  <2>2. Files[f].long \in Seq(F!Units) /\ Files[f].short \in Seq(F!Bytes)
    BY TheFiles
  <2>3. F!LongName(p) = Files[f].long
    BY <2>1, <2>2, LongNameReads DEF FileAt
  <2>4. p \in 2 .. Len(root)
    <3>1. EntriesOf(Files[f].long) \in Nat \ {0} /\ p - EntriesOf(Files[f].long) \in Nat \ {0}
      BY <2>1, <2>2, Entries DEF FileAt, Described
    <3>2. p <= Len(root) /\ Len(root) \in Nat
      BY <1>1, <2>1, LenProperties DEF FileAt, FatShape
    <3> QED
      BY <3>1, <3>2
  <2>5. /\ root[p].kind = "file" /\ root[p].short = Files[f].short
        /\ root[p].first = IF Clusters(Len(contents[f])) > 0 THEN first ELSE 0
        /\ root[p].size = Len(contents[f])
    <3>1. root[p] = F!DirectoryEntry(Files[f].short,
                      IF Clusters(Len(contents[f])) > 0 THEN first ELSE 0, Len(contents[f]))
      BY <2>1 DEF FileAt
    <3> QED
      BY <3>1 DEF F!DirectoryEntry
  <2>6. contents[f] \in Seq(F!Bytes)
    BY <1>1, TheContents DEF FatShape
  <2>7. F!ChainEnds(root[p]) /\ F!BytesOf(root[p]) = contents[f]
    BY <1>1, <2>1, <2>5, <2>6, FileReads DEF FileAt, FatShape
  <2> QED
    BY <2>3, <2>4, <2>5, <2>7
<1> QED
  BY <1>2, <1>3 DEF F!ReadsBack

-----------------------------------------------------------------------------
(* Steps. *)
LEMMA FatInit == ASSUME F!Init PROVE FatInv
<1>1. Len(<<>>) = 0 /\ <<>> \in Seq(F!Bytes)
  BY EmptySeq
<1>2. F!ClusterCount \in Nat
  BY <1>1, ClustersHold DEF F!Init, F!ClusterCount, Clusters
<1>3. FatShape
  <2>1. root \in Seq(Rows) /\ root # <<>>
    <3>1. F!Volume \in Rows
      BY DEF Rows
    <3> QED
      BY <3>1 DEF F!Init
  <2>2. 1 \in 1 .. Len(Files)
    BY TheFiles
  <2> QED
    BY <1>1, <1>2, <2>1, <2>2 DEF F!Init, FatShape
<1>4. ASSUME Fits PROVE TableKept
  <2>1. F!FatBytes > 2
    BY <1>4, FatSize DEF Fits, FitsTo, InTable, End, F!Init
  <2>2. 240 \in F!Bytes /\ 255 \in F!Bytes /\ 0 \in F!Bytes
    BY DEF F!Bytes, F!Bits
  <2>3. fat = [b \in Places |-> IF b = 0 THEN 240 ELSE IF b \in {1, 2} THEN 255 ELSE 0]
    BY DEF F!Init, Places
  <2>4. fat \in Tables
    BY <2>2, <2>3 DEF Tables
  <2>5. 0 \in Places /\ 1 \in Places /\ 2 \in Places
    BY <2>1, FatSize DEF Places
  <2> QED
    BY <2>3, <2>4, <2>5 DEF TableKept
<1>5. Finished = 0 /\ AtHand
  BY DEF F!Init, Finished, AtHand
<1> QED
  BY <1>3, <1>4, <1>5 DEF FatInv

(* What no step takes away. *)
LEMMA FitsBelow ==
  ASSUME NEW a \in Nat, NEW b \in Nat, 2 <= a, a <= b, FitsTo(b)
  PROVE  FitsTo(a)
<1>1. InTable(a - 1)
  <2>1. (a - 1) \div 2 <= (b - 1) \div 2
    OBVIOUS
  <2> QED
    BY <2>1, FatSize DEF FitsTo, InTable
<1>2. F!DataStartSector + (a - 1) - 2 < TotalSectors
  BY DataBegins, Sizes DEF FitsTo
<1> QED
  BY <1>1, <1>2 DEF FitsTo

LEMMA EndRises ==
  ASSUME FatShape, FatShape', End <= End', Fits'
  PROVE  Fits
<1>1. next \in Nat /\ next >= 2 /\ index \in Nat /\ next' \in Nat /\ index' \in Nat
  BY DEF FatShape
<1>2. End \in Nat /\ End >= 2 /\ End' \in Nat
  <2>1. next + index \in Nat /\ next + index >= 2 /\ next' + index' \in Nat
    <3>1. ASSUME NEW a \in Nat, NEW b \in Nat PROVE a + b \in Nat /\ (a >= 2 => a + b >= 2)
      OBVIOUS
    <3> QED
      BY <1>1, <3>1
  <2>2. End \in {next, next + index} /\ End' \in {next', next' + index'}
    BY DEF End
  <2> QED
    BY <1>1, <2>1, <2>2
<1> QED
  BY <1>2, FitsBelow DEF Fits

LEMMA KeptStays ==
  ASSUME FatShape, NEW f \in 1 .. Len(Files), FileKept(f),
         contents' = contents, next' \in Nat, next <= next',
         Len(root) <= Len(root'),
         \A p \in 1 .. Len(root) : root'[p] = root[p],
         \A c \in 2 .. next - 1 :
           /\ F!Entry(fat', c) = F!Entry(fat, c)
           /\ data'[F!DataStartSector + c - 2] = data[F!DataStartSector + c - 2]
  PROVE  FileKept(f)'
<1> DEFINE n == Clusters(Len(contents[f]))
<1>1. PICK p \in Nat, first \in Nat : FileAt(f, p, first)
  BY DEF FileKept
<1>2. n \in Nat
  <2>1. Len(contents[f]) \in Nat
    BY TheContents, LenProperties DEF FatShape
  <2> QED
    BY <2>1, ClustersHold
<1>3. n' = n /\ contents'[f] = contents[f]
  OBVIOUS
<1> HIDE DEF n
<1>4. /\ Described(Files[f], p) /\ p <= Len(root)
      /\ root[p] = F!DirectoryEntry(Files[f].short, IF n > 0 THEN first ELSE 0, Len(contents[f]))
      /\ 2 <= first /\ first + n <= next
      /\ Chained(first, n) /\ Placed(first, contents[f], n)
  BY <1>1 DEF FileAt, n
<1>5. Described(Files[f], p)' /\ root'[p] = root[p] /\ p <= Len(root')
  <2>1. EntriesOf(Files[f].long) \in Nat \ {0}
    BY TheFiles, Entries
  <2>2. Len(root) \in Nat /\ Len(root') \in Nat => p <= Len(root')
    BY <1>4
  <2>3. Len(root) \in Nat /\ p - EntriesOf(Files[f].long) \in Nat \ {0}
    BY <1>4, LenProperties DEF FatShape, Described
  <2>4. p \in 1 .. Len(root)
    BY <1>4, <2>1, <2>3
  <2>5. \A i \in 1 .. EntriesOf(Files[f].long) : p - i \in 1 .. Len(root)
    BY <2>1, <2>3, <2>4
  <2>6. \A i \in 1 .. EntriesOf(Files[f].long) : root'[p - i] = LongEntry(Files[f], i)
    BY <1>4, <2>5 DEF Described
  <2>7. root'[p].short = Files[f].short
    BY <1>4, <2>4 DEF Described
  <2>8. p <= Len(root')
    BY <2>4
  <2> QED
    BY <1>4, <2>3, <2>4, <2>6, <2>7, <2>8 DEF Described
<1>6. \A i \in 0 .. n - 1 : first + i \in 2 .. next - 1
  <2>1. next \in Nat
    BY DEF FatShape
  <2> QED
    BY <1>2, <1>4, <2>1
<1>7. Chained(first, n)'
  BY <1>3, <1>4, <1>6 DEF Chained
<1>8. Placed(first, contents[f], n)'
  <2>1. \A i \in 0 .. n - 1 :
          data'[F!DataStartSector + (first + i) - 2] = data[F!DataStartSector + (first + i) - 2]
    BY <1>6
  <2>2. \A i \in 0 .. n - 1 :
          F!DataStartSector + (first + i) - 2 = F!DataStartSector + first + i - 2
    BY <1>2, DataBegins
  <2> QED
    BY <1>3, <1>4, <2>1, <2>2 DEF Placed, Chunk
<1>9. first + n <= next'
  BY <1>2, <1>4 DEF FatShape
<1> QED
  BY <1>3, <1>4, <1>5, <1>7, <1>8, <1>9 DEF FileKept, FileAt, n

(* The steps. *)
LEMMA ReadFileStep == ASSUME FatInv, F!ReadFile PROVE FatInv'
<1>1. FatShape
  BY DEF FatInv
<1>2. payload' = contents[file] /\ payload' \in Seq(F!Bytes)
  <2>1. contents[file] \in Seq(F!Bytes) /\ (Files[file].text => Plain(contents[file]))
    BY <1>1, TheContents DEF FatShape
  <2> QED
    BY <2>1, PayloadIsContents DEF F!ReadFile
<1>3. FatShape'
  <2>1. F!ClusterCount' \in Nat
    <3>1. Len(payload') \in Nat
      BY <1>2, LenProperties
    <3> QED
      BY <3>1, ClustersHold DEF F!ClusterCount, Clusters
  <2>2. index' \in 0 .. F!ClusterCount'
    BY <2>1 DEF F!ReadFile
  <2>3. UNCHANGED <<contents, eol, file, next, data, root>> /\ fatPc' = "clusters"
    BY DEF F!ReadFile
  <2> QED
    BY <1>1, <1>2, <2>2, <2>3 DEF FatShape
<1>4. ASSUME Fits'
      PROVE  TableKept' /\ (\A f \in 1 .. Finished : FileKept(f))' /\ AtHand'
  <2>1. Fits
    <3>1. End = next /\ End' = next + 0 /\ next \in Nat
      BY <1>1 DEF F!ReadFile, End, FatShape
    <3>2. End <= End'
      BY <3>1
    <3> QED
      BY <1>1, <1>3, <1>4, <3>2, EndRises
  <2>2. TableKept /\ \A f \in 1 .. Finished : FileKept(f)
    BY <2>1 DEF FatInv
  <2>3. Finished' = Finished /\ Finished \in 0 .. Len(Files)
    BY <1>1, TheFiles DEF F!ReadFile, Finished, FatShape
  <2>4. \A f \in 1 .. Finished' : FileKept(f)'
    <3> SUFFICES ASSUME NEW f \in 1 .. Finished' PROVE FileKept(f)'
      OBVIOUS
    <3>1. f \in 1 .. Len(Files) /\ FileKept(f)
      BY <2>2, <2>3, TheFiles
    <3>2. /\ UNCHANGED <<contents, next, root, fat, data>> /\ next \in Nat
          /\ Len(root) <= Len(root')
      <4>1. Len(root) \in Nat
        BY <1>1, LenProperties DEF FatShape
      <4> QED
        BY <1>1, <4>1 DEF F!ReadFile, FatShape
    <3> QED
      BY <1>1, <3>1, <3>2, KeptStays
  <2>5. TableKept'
    BY <2>2 DEF TableKept, F!ReadFile
  <2>6. AtHand'
    <3>1. index' = 0 /\ file' = file /\ contents' = contents
      BY DEF F!ReadFile
    <3> QED
      BY <1>2, <3>1 DEF AtHand, Placed
  <2> QED
    BY <2>4, <2>5, <2>6
<1> QED
  BY <1>3, <1>4 DEF FatInv

LEMMA LayoutStep == ASSUME FatInv, F!Layout PROVE FatInv'
<1>1. FatShape
  BY DEF FatInv
<1>2. UNCHANGED <<contents, eol, file, payload, index, next, fat, data, root>>
  BY DEF F!Layout
<1>3. fatPc = "layout" /\ fatPc' \in {"done", "overflow"}
  BY DEF F!Layout
<1>4. FatShape'
  <2>1. F!ClusterCount' = F!ClusterCount
    BY <1>2 DEF F!ClusterCount
  <2> QED
    BY <1>1, <1>2, <1>3, <2>1 DEF FatShape
<1>5. End' = End /\ Finished' = Finished
  BY <1>2, <1>3 DEF End, Finished
<1>6. Fits' => Fits
  BY <1>5 DEF Fits
<1>7. TableKept => TableKept'
  BY <1>2 DEF TableKept
<1>8. \A f : FileKept(f)' <=> FileKept(f)
  BY <1>2 DEF FileKept, FileAt, Described, Chained, Placed, Chunk
<1>9. AtHand'
  BY <1>3 DEF AtHand
<1> QED
  BY <1>4, <1>5, <1>6, <1>7, <1>8, <1>9 DEF FatInv

(* Another program's step. *)
LEMMA FatRests == ASSUME FatInv, UNCHANGED fat12 PROVE FatInv'
<1>1. UNCHANGED <<contents, eol, fatPc, file, payload, index, next, fat, data, root>>
  BY DEF fat12
<1>2. FatShape <=> FatShape'
  BY <1>1 DEF FatShape, F!ClusterCount
<1>3. End' = End /\ Finished' = Finished
  BY <1>1 DEF End, Finished
<1>4. Fits' <=> Fits
  BY <1>3 DEF Fits
<1>5. TableKept => TableKept'
  BY <1>1 DEF TableKept
<1>6. \A f : FileKept(f)' <=> FileKept(f)
  BY <1>1 DEF FileKept, FileAt, Described, Chained, Placed, Chunk
<1>7. AtHand => AtHand'
  <2>1. F!ClusterCount' = F!ClusterCount
    BY <1>1 DEF F!ClusterCount
  <2> QED
    BY <1>1, <2>1 DEF AtHand, Placed, Chunk
<1> QED
  BY <1>2, <1>3, <1>4, <1>5, <1>6, <1>7 DEF FatInv

(* The reserved entries lie before every cluster's. *)
LEMMA ReservedStay ==
  ASSUME NEW table \in Tables, NEW cluster \in Nat, cluster >= 2, NEW value \in Words,
         NEW b \in Places, b < 3
  PROVE  F!SetFat12Entry(table, cluster, value)[b] = table[b]
<1>1. ASSUME NEW k \in Nat, cluster = 2 * k
      PROVE  F!SetFat12Entry(table, cluster, value)[b] = table[b]
  <2>1. b # 3 * k /\ b # 3 * k + 1
    BY <1>1 DEF Places
  <2> QED
    BY <1>1, <2>1, SetEven
<1>2. ASSUME NEW k \in Nat, cluster = 2 * k + 1
      PROVE  F!SetFat12Entry(table, cluster, value)[b] = table[b]
  <2>1. b # 3 * k + 1 /\ b # 3 * k + 2
    BY <1>2 DEF Places
  <2> QED
    BY <1>2, <2>1, SetOdd
<1> QED
  BY <1>1, <1>2, Halves, Zenon

LEMMA PlaceClusterStep == ASSUME FatInv, F!PlaceCluster PROVE FatInv'
<1> DEFINE c == next + index
           n == F!ClusterCount
           value == F!Following(c)
<1>1. FatShape /\ fatPc = "clusters" /\ index < n
  BY DEF FatInv, F!PlaceCluster
<1>2. n \in Nat /\ index \in Nat /\ next \in Nat /\ next >= 2
  <2>1. Len(payload) \in Nat
    BY <1>1, LenProperties DEF FatShape
  <2> QED
    BY <1>1, <2>1, ClustersHold DEF FatShape, F!ClusterCount, Clusters
<1>3. /\ fat' = F!SetFat12Entry(fat, c, value)
      /\ data' = [data EXCEPT ![F!DataStartSector + next + index - 2] = Chunk(payload, index)]
      /\ index' = index + 1
      /\ UNCHANGED <<contents, eol, fatPc, file, payload, next, root>>
  BY DEF F!PlaceCluster, Chunk
<1>4. n' = n
  BY <1>3 DEF F!ClusterCount
<1>5. value = IF index + 1 < n THEN c + 1 ELSE F!FatEof
  BY DEF F!Following
<1> HIDE DEF n, value
<1>6. FatShape'
  <2>1. index' \in 0 .. F!ClusterCount'
    BY <1>1, <1>2, <1>3, <1>4 DEF n
  <2>2. DOMAIN data' = F!Sectors
    BY <1>1, <1>3 DEF FatShape
  <2> QED
    BY <1>1, <1>3, <2>1, <2>2 DEF FatShape
<1>7. ASSUME Fits'
      PROVE  TableKept' /\ (\A f \in 1 .. Finished : FileKept(f))' /\ AtHand'
  <2>1. End = c /\ End' = c + 1 /\ c \in Nat /\ c >= 2
    <3>1. End = c
      BY <1>1 DEF End
    <3>2. End' = next + (index + 1)
      BY <1>1, <1>3 DEF End
    <3> QED
      BY <1>2, <3>1, <3>2
  <2>2. Fits
    BY <1>1, <1>6, <1>7, <2>1, EndRises
  <2>3. TableKept /\ (\A f \in 1 .. Finished : FileKept(f)) /\ AtHand
    BY <2>2 DEF FatInv
  <2>4. FitsTo(c + 1)
    BY <1>7, <2>1 DEF Fits
  <2>5. InTable(c) /\ c < 4088 /\ F!DataStartSector + c - 2 < TotalSectors
    <3>1. (c + 1) - 1 = c
      BY <2>1
    <3> HIDE DEF c
    <3>2. /\ InTable((c + 1) - 1) /\ (c + 1) - 1 < 4088
          /\ F!DataStartSector + ((c + 1) - 1) - 2 < TotalSectors
      BY <2>4, <3>1 DEF FitsTo
    <3> QED
      BY <3>1, <3>2
  <2>6. \A d \in Nat : d < c => InTable(d)
    <3> SUFFICES ASSUME NEW d \in Nat, d < c PROVE InTable(d)
      OBVIOUS
    <3> HIDE DEF c
    <3>1. d \div 2 <= c \div 2 /\ c \div 2 \in Nat /\ d \div 2 \in Nat
      BY <2>1
    <3> QED
      BY <2>1, <2>5, <3>1, FatSize DEF InTable
  <2>7. value \in Words
    <3> HIDE DEF c
    <3> QED
      BY <1>5, <2>1, <2>5 DEF Words, F!FatEof
  <2>8. fat \in Tables /\ fat' \in Tables
    <3> HIDE DEF c
    <3> QED
      BY <1>3, <2>1, <2>3, <2>7, TableStays DEF TableKept
  <2>9. F!Entry(fat', c) = value
    <3> HIDE DEF c
    <3> QED
      BY <1>3, <2>1, <2>5, <2>7, <2>8, EntryReadsBack
  <2>10. \A d \in Nat : d < c => F!Entry(fat', d) = F!Entry(fat, d)
    <3> HIDE DEF c
    <3> QED
      BY <1>3, <2>1, <2>6, <2>7, <2>8, OthersStay
  <2>11. \A s \in F!Sectors :
           data'[s] = IF s = F!DataStartSector + c - 2 THEN Chunk(payload, index) ELSE data[s]
    <3>1. F!DataStartSector + next + index - 2 = F!DataStartSector + c - 2
      BY <1>2, DataBegins
    <3> HIDE DEF c
    <3> QED
      BY <1>1, <1>3, <3>1 DEF FatShape
  <2>12. \A d \in Nat : d >= 2 /\ d =< c => F!DataStartSector + d - 2 \in F!Sectors
    <3> HIDE DEF c
    <3> QED
      BY <2>1, <2>5, DataBegins, Sizes DEF F!Sectors
  <2>13. \A d \in Nat : d >= 2 /\ d < c =>
           data'[F!DataStartSector + d - 2] = data[F!DataStartSector + d - 2]
    <3> SUFFICES ASSUME NEW d \in Nat, d >= 2, d < c
                 PROVE  data'[F!DataStartSector + d - 2] = data[F!DataStartSector + d - 2]
      OBVIOUS
    <3> HIDE DEF c
    <3>1. F!DataStartSector + d - 2 \in F!Sectors
      BY <2>1, <2>12
    <3>2. F!DataStartSector + d - 2 # F!DataStartSector + c - 2
      BY <2>1, DataBegins
    <3> QED
      BY <2>11, <3>1, <3>2
  <2>14. TableKept'
    <3>1. F!FatBytes > 2
      <4> HIDE DEF c
      <4>1. c + c \div 2 + 1 > 2
        BY <2>1
      <4> QED
        BY <2>1, <2>5, <4>1, FatSize DEF InTable
    <3>2. 0 \in Places /\ 1 \in Places /\ 2 \in Places
      BY <3>1, FatSize DEF Places
    <3> HIDE DEF c
    <3>3. fat'[0] = fat[0] /\ fat'[1] = fat[1] /\ fat'[2] = fat[2]
      BY <1>3, <2>1, <2>7, <2>8, <3>2, ReservedStay
    <3> QED
      BY <2>3, <2>8, <3>3 DEF TableKept
  <2>15. \A f \in 1 .. Finished' : FileKept(f)'
    <3> SUFFICES ASSUME NEW f \in 1 .. Finished' PROVE FileKept(f)'
      OBVIOUS
    <3>1. Finished' = Finished /\ Finished \in 0 .. Len(Files)
      BY <1>1, <1>3, TheFiles DEF Finished, FatShape
    <3>2. f \in 1 .. Len(Files) /\ FileKept(f)
      BY <2>3, <3>1, TheFiles
    <3>3. \A d \in 2 .. next - 1 : d \in Nat /\ d >= 2 /\ d < c
      BY <1>2
    <3>4. \A d \in 2 .. next - 1 :
            /\ F!Entry(fat', d) = F!Entry(fat, d)
            /\ data'[F!DataStartSector + d - 2] = data[F!DataStartSector + d - 2]
      <4> HIDE DEF c
      <4> QED
        BY <2>10, <2>13, <3>3
    <3>5. /\ contents' = contents /\ next' \in Nat /\ next <= next'
          /\ Len(root) <= Len(root') /\ root' = root
      <4>1. Len(root) \in Nat
        BY <1>1, LenProperties DEF FatShape
      <4> QED
        BY <1>2, <1>3, <4>1
    <3> QED
      BY <1>1, <3>2, <3>4, <3>5, KeptStays
  <2>16. AtHand'
    <3>1. payload' = contents'[file']
      BY <1>1, <1>3, <2>3 DEF AtHand
    <3>2. ASSUME NEW i \in 0 .. index' - 1
          PROVE  /\ F!Entry(fat', next' + i) = IF i + 1 < n THEN next' + i + 1 ELSE F!FatEof
                 /\ data'[F!DataStartSector + next' + i - 2] = Chunk(payload', i)
      <4>1. next' = next /\ payload' = payload /\ i \in 0 .. index
        BY <1>2, <1>3
      <4>2. CASE i = index
        <5>1. next + i = c /\ F!DataStartSector + next + i - 2 = F!DataStartSector + c - 2
          BY <1>2, <4>2, DataBegins
        <5>2. F!DataStartSector + c - 2 \in F!Sectors
          <6> HIDE DEF c
          <6> QED
            BY <2>1, <2>12
        <5>3. F!Entry(fat', next + i) = IF i + 1 < n THEN next + i + 1 ELSE F!FatEof
          BY <1>5, <2>9, <4>2
        <5>4. data'[F!DataStartSector + next + i - 2] = Chunk(payload, i)
          <6> HIDE DEF c
          <6> QED
            BY <2>11, <4>2, <5>1, <5>2
        <5> QED
          BY <4>1, <5>3, <5>4
      <4>3. CASE i # index
        <5>1. /\ i \in 0 .. index - 1 /\ next + i \in Nat /\ next + i >= 2 /\ next + i < c
              /\ F!DataStartSector + (next + i) - 2 = F!DataStartSector + next + i - 2
          BY <1>2, <4>1, <4>3, DataBegins
        <5>2. /\ F!Entry(fat, next + i) = IF i + 1 < n THEN next + i + 1 ELSE F!FatEof
              /\ data[F!DataStartSector + next + i - 2] = Chunk(payload, i)
          BY <1>1, <2>3, <5>1 DEF AtHand, Placed, n
        <5>3. F!Entry(fat', next + i) = F!Entry(fat, next + i)
          BY <2>10, <5>1
        <5>4. data'[F!DataStartSector + (next + i) - 2] = data[F!DataStartSector + (next + i) - 2]
          BY <2>13, <5>1
        <5> QED
          BY <4>1, <5>1, <5>2, <5>3, <5>4
      <4> QED
        BY <4>2, <4>3
    <3> QED
      BY <1>4, <3>1, <3>2 DEF AtHand, Placed, Chunk, n
  <2> QED
    BY <2>14, <2>15, <2>16
<1> QED
  BY <1>6, <1>7 DEF FatInv

(* The entries of a name, the last one first. *)
LEMMA EntriesReversed ==
  ASSUME NEW f \in 1 .. Len(Files)
  PROVE  LET n == EntriesOf(Files[f].long)
             L == F!LfnEntries(Files[f])
         IN  /\ L \in Seq(Rows) /\ Len(L) = n
             /\ \A k \in 1 .. n : L[k] = LongEntry(Files[f], (n - k) + 1)
<1> DEFINE name == Files[f]
           n == EntriesOf(name.long)
           U == F!PaddedUnits(name.long)
           s == [i \in 1 .. n |-> LongEntry(name, i)]
           L == [k \in 1 .. n |-> s[(n - k) + 1]]
<1>1. n \in Nat \ {0} /\ Len(U) = 13 * n
  BY TheFiles, Entries, Padded
<1>2. Len(U) \div 13 = n
  <2> HIDE DEF n, U
  <2>1. (13 * n) \div 13 = n
    BY <1>1
  <2> QED
    BY <1>1, <2>1
<1>3. Len(s) = n
  <2> HIDE DEF n
  <2> QED
    BY <1>1
<1>4. F!LfnEntries(name) = F!Reverse(s)
  BY <1>2 DEF F!LfnEntries, LongEntry
<1>5. F!Reverse(s) = [k \in 1 .. n |-> s[(n - k) + 1]]
  <2> HIDE DEF s, n
  <2> QED
    BY <1>3 DEF F!Reverse
<1>6. F!LfnEntries(name) = L
  BY <1>4, <1>5
<1>7. \A k \in 1 .. n : L[k] = LongEntry(name, (n - k) + 1)
  <2> SUFFICES ASSUME NEW k \in 1 .. n PROVE L[k] = LongEntry(name, (n - k) + 1)
    OBVIOUS
  <2>1. (n - k) + 1 \in 1 .. n
    <3> HIDE DEF n
    <3> QED
      BY <1>1
  <2> QED
    BY <2>1
<1>8. \A i \in Nat : LongEntry(name, i) \in Rows
  BY DEF Rows
<1>9. \A k \in 1 .. n : L[k] \in Rows
  <2> HIDE DEF L, name
  <2>1. \A k \in 1 .. n : (n - k) + 1 \in Nat
    <3> HIDE DEF n
    <3> QED
      BY <1>1
  <2> QED
    BY <1>7, <1>8, <2>1
<1>10. L \in Seq(Rows) /\ Len(L) = n
  <2>1. L = [k \in 1 .. n |-> L[k]]
    OBVIOUS
  <2> HIDE DEF L, n
  <2>2. L \in [1 .. n -> Rows]
    BY <1>9, <2>1
  <2>3. L \in Seq(Rows)
    BY <1>1, <2>2, SeqDef
  <2> QED
    BY <1>1, <2>2, <2>3, LenProperties
<1> HIDE DEF L
<1> QED
  BY <1>6, <1>7, <1>10

LEMMA DescribeFileStep == ASSUME FatInv, F!DescribeFile PROVE FatInv'
<1> DEFINE n == F!ClusterCount
           name == Files[file]
           m == EntriesOf(name.long)
           L == F!LfnEntries(name)
           row == F!DirectoryEntry(name.short, IF n > 0 THEN next ELSE 0, Len(payload))
           l == Len(root)
           p == l + m + 1
<1>1. /\ FatShape /\ fatPc = "clusters" /\ index = n
      /\ root' = root \o L \o <<row>>
      /\ next' = next + n
      /\ UNCHANGED <<contents, eol, payload, index, fat, data>>
      /\ \/ file < Len(Files) /\ fatPc' = "scan" /\ file' = file + 1
         \/ ~ (file < Len(Files)) /\ fatPc' = "layout" /\ file' = file
  BY DEF FatInv, F!DescribeFile
<1>2. /\ n \in Nat /\ next \in Nat /\ next >= 2 /\ Len(payload) \in Nat
      /\ file \in 1 .. Len(Files) /\ Len(Files) \in Nat /\ file \in Nat
  <2>1. Len(payload) \in Nat
    BY <1>1, LenProperties DEF FatShape
  <2>2. n \in Nat
    BY <2>1, ClustersHold DEF F!ClusterCount, Clusters
  <2>3. file \in 1 .. Len(Files) /\ Len(Files) \in Nat
    BY <1>1, TheFiles DEF FatShape
  <2> QED
    BY <1>1, <2>1, <2>2, <2>3 DEF FatShape
<1>3. n' = n
  BY <1>1 DEF F!ClusterCount
<1> HIDE DEF n
<1>4. /\ L \in Seq(Rows) /\ Len(L) = m /\ m \in Nat \ {0}
      /\ \A k \in 1 .. m : L[k] = LongEntry(name, (m - k) + 1)
  BY <1>2, EntriesReversed, TheFiles, Entries
<1>5. row \in Rows
  BY <1>2 DEF Rows
<1> HIDE DEF L, row, m, name
<1>6. /\ root' \in Seq(Rows) /\ Len(root') = p /\ l \in Nat \ {0} /\ p \in Nat
      /\ \A k \in 1 .. l : root'[k] = root[k]
      /\ \A k \in 1 .. m : root'[l + k] = L[k]
      /\ root'[p] = row
  <2>1. root \in Seq(Rows) /\ l \in Nat \ {0}
    BY <1>1, EmptySeq DEF FatShape
  <2>2. /\ root \o L \in Seq(Rows) /\ Len(root \o L) = l + m
        /\ \A k \in 1 .. l + m : (root \o L)[k] = IF k <= l THEN root[k] ELSE L[k - l]
    BY <1>4, <2>1, ConcatProperties
  <2>3. <<row>> \in Seq(Rows) /\ Len(<<row>>) = 1 /\ <<row>>[1] = row
    BY <1>5
  <2> DEFINE M == root \o L
  <2> HIDE DEF M
  <2>4. /\ M \in Seq(Rows) /\ Len(M) = l + m
        /\ \A k \in 1 .. l + m : M[k] = IF k <= l THEN root[k] ELSE L[k - l]
    BY <2>2 DEF M
  <2>5. /\ M \o <<row>> \in Seq(Rows) /\ Len(M \o <<row>>) = (l + m) + 1
        /\ \A k \in 1 .. (l + m) + 1 :
             (M \o <<row>>)[k] = IF k <= l + m THEN M[k] ELSE <<row>>[k - (l + m)]
    BY <2>3, <2>4, ConcatProperties
  <2>6. root' = M \o <<row>>
    BY <1>1 DEF M
  <2> HIDE DEF l
  <2>7. \A k \in 1 .. l : k \in 1 .. l + m /\ k \in 1 .. (l + m) + 1 /\ k <= l /\ k <= l + m
    BY <1>4, <2>1
  <2>8. \A k \in 1 .. m : /\ l + k \in 1 .. l + m /\ l + k \in 1 .. (l + m) + 1
                          /\ ~ (l + k <= l) /\ l + k <= l + m /\ (l + k) - l = k
    BY <1>4, <2>1
  <2>9. p \in 1 .. (l + m) + 1 /\ ~ (p <= l + m) /\ p - (l + m) = 1 /\ p \in Nat
    BY <1>4, <2>1
  <2>10. \A k \in 1 .. l : root'[k] = root[k]
    BY <2>4, <2>5, <2>6, <2>7
  <2>11. \A k \in 1 .. m : root'[l + k] = L[k]
    BY <2>4, <2>5, <2>6, <2>8
  <2>12. root'[p] = row
    <3> HIDE DEF p
    <3> QED
      BY <2>3, <2>5, <2>6, <2>9
  <2> QED
    BY <2>1, <2>5, <2>6, <2>9, <2>10, <2>11, <2>12 DEF l
<1> HIDE DEF l
<1>7. FatShape'
  <2>1. root' \in Seq(Rows) /\ root' # <<>>
    <3>1. Len(root') # 0
      BY <1>4, <1>6
    <3> QED
      BY <1>6, <3>1
  <2>2. next' \in Nat /\ next' >= 2
    <3>1. ASSUME NEW a \in Nat, NEW b \in Nat PROVE a + b \in Nat /\ (a >= 2 => a + b >= 2)
      OBVIOUS
    <3> QED
      BY <1>1, <1>2, <3>1
  <2>3. index' \in 0 .. F!ClusterCount'
    BY <1>1, <1>2, <1>3 DEF n
  <2>4. /\ fatPc' \in {"scan", "layout"} /\ file' \in 1 .. Len(Files)
        /\ fatPc' = "layout" => file' = Len(Files)
    BY <1>1, <1>2
  <2>5. contents' \in Contents /\ eol' \in {"lf", "crlf"} /\ payload' \in Seq(F!Bytes)
        /\ DOMAIN data' = F!Sectors
    BY <1>1 DEF FatShape
  <2> QED
    BY <2>1, <2>2, <2>3, <2>4, <2>5 DEF FatShape
<1>8. ASSUME Fits'
      PROVE  TableKept' /\ (\A f \in 1 .. Finished : FileKept(f))' /\ AtHand'
  <2>1. End' = End
    BY <1>1 DEF End
  <2>2. TableKept /\ (\A f \in 1 .. Finished : FileKept(f)) /\ AtHand
    BY <1>8, <2>1 DEF Fits, FatInv
  <2>3. TableKept' /\ AtHand'
    BY <1>1, <2>2 DEF TableKept, AtHand
  <2>4. Finished' = file /\ Finished = file - 1
    BY <1>1, <1>2 DEF Finished
  <2>5. ASSUME NEW f \in 1 .. file - 1
        PROVE  FileKept(f)'
    <3>1. f \in 1 .. Len(Files) /\ FileKept(f)
      BY <1>2, <2>2, <2>4
    <3>2. /\ contents' = contents /\ next' \in Nat /\ next <= next'
          /\ Len(root) <= Len(root') /\ \A k \in 1 .. Len(root) : root'[k] = root[k]
      <4>1. l <= p
        BY <1>4, <1>6
      <4> QED
        BY <1>1, <1>2, <1>6, <4>1 DEF l
    <3>3. fat' = fat /\ data' = data
      BY <1>1
    <3> QED
      BY <1>1, <3>1, <3>2, <3>3, KeptStays
  <2>6. ASSUME NEW f \in 1 .. Len(Files), f = file
        PROVE  FileKept(f)'
    <3>0. PICK q \in Nat, first \in Nat, k \in Nat : q = p /\ first = next /\ k = n
      BY <1>2, <1>6
    <3>1. payload = contents[f] /\ contents' = contents
      BY <1>1, <2>2, <2>6 DEF AtHand
    <3>2. Clusters(Len(contents[f])) = k
      BY <1>1, <3>0, <3>1 DEF n, F!ClusterCount, Clusters
    <3>3. Described(Files[f], q)'
      <4>1. q - m \in Nat \ {0}
        BY <1>4, <1>6, <3>0
      <4>2. \A i \in 1 .. m : root'[q - i] = LongEntry(name, i)
        <5> SUFFICES ASSUME NEW i \in 1 .. m PROVE root'[q - i] = LongEntry(name, i)
          OBVIOUS
        <5>1. m \in Nat /\ l \in Nat /\ q = l + m + 1
          BY <1>4, <1>6, <3>0
        <5>2. (m - i) + 1 \in 1 .. m /\ q - i = l + ((m - i) + 1) /\ (m - ((m - i) + 1)) + 1 = i
          BY <5>1
        <5> QED
          BY <1>4, <1>6, <5>2
      <4>3. root'[q].short = name.short
        BY <1>6, <3>0 DEF row, F!DirectoryEntry
      <4> QED
        BY <2>6, <4>1, <4>2, <4>3 DEF Described, m, name
    <3>4. root'[q] = F!DirectoryEntry(Files[f].short, IF k > 0 THEN first ELSE 0,
                       Len(contents[f]))
      BY <1>6, <2>6, <3>0, <3>1 DEF row, name
    <3>5. Chained(first, k)'
      <4>1. \A i \in 0 .. k - 1 :
              F!Entry(fat, first + i) = IF i + 1 < k THEN first + i + 1 ELSE F!FatEof
        BY <1>1, <2>2, <3>0 DEF AtHand, n
      <4> QED
        BY <1>1, <4>1 DEF Chained
    <3>6. Placed(first, contents[f], k)'
      <4>1. \A i \in 0 .. k - 1 :
              data[F!DataStartSector + first + i - 2] = Chunk(contents[f], i)
        BY <1>1, <2>2, <3>0, <3>1 DEF AtHand, Placed
      <4> QED
        BY <1>1, <3>1, <4>1 DEF Placed, Chunk
    <3>7. q <= Len(root') /\ 2 <= first /\ first + k <= next'
      BY <1>1, <1>2, <1>6, <3>0
    <3>8. FileAt(f, q, first)'
      BY <3>1, <3>2, <3>3, <3>4, <3>5, <3>6, <3>7 DEF FileAt
    <3> QED
      BY <3>8 DEF FileKept
  <2>7. \A f \in 1 .. file : f \in 1 .. file - 1 \/ (f \in 1 .. Len(Files) /\ f = file)
    BY <1>2
  <2> QED
    BY <2>3, <2>4, <2>5, <2>6, <2>7
<1> QED
  BY <1>7, <1>8 DEF FatInv

LEMMA FatAlways == MCSpec => []FatInv
<1>1. MCInit => FatInv
  BY FatInit DEF MCInit
<1>2. FatInv /\ [MCNext]_mcVars => FatInv'
  <2> SUFFICES ASSUME FatInv, [MCNext]_mcVars PROVE FatInv'
    OBVIOUS
  <2>1. CASE F!Next
    BY <2>1, ReadFileStep, PlaceClusterStep, DescribeFileStep, LayoutStep DEF F!Next
  <2>2. CASE UNCHANGED fat12
    BY <2>2, FatRests
  <2> QED
    BY <2>1, <2>2 DEF MCNext, mcVars
<1> QED
  BY <1>1, <1>2, PTL DEF MCSpec

(* For files of any number, name and size whose clusters fit the image: a      *)
(* reader finds each under its long name, and its chain of clusters, some of   *)
(* which share bytes of the table, holds what the repository holds, whatever   *)
(* line endings the host checked it out with.                               *)
THEOREM ImageIsRead == MCSpec => [](Fits => ImageReadsBack)
<1>1. FatInv => (Fits => ImageReadsBack)
  BY InvReadsBack DEF ImageReadsBack
<1> QED
  BY <1>1, FatAlways, PTL
==============================================================================
