------------------------------ MODULE Resources ------------------------------
(***************************************************************************)
(* The memory and the processors of the machine.  Experience.ps1 chooses    *)
(* them (Get-OmarchyAutomaticResources) once the host check has passed;     *)
(* Run-VM.ps1, another process, checks the choice against the same contract *)
(* (config\runtime.lock.json) and against the host once more.               *)
(*                                                                         *)
(* Each of them asks Windows for TotalPhysicalMemory on its own, and each of *)
(* those queries may fail: one refuses the host, one falls back on the      *)
(* recommended memory, one refuses to run.  Sizes are in MiB.               *)
(***************************************************************************)
EXTENDS Integers

CONSTANTS
  HostMemories,          \* memories of the PCs of this instance
  ProcessorCounts,       \* logical processors of the PCs of this instance
  minimumHostMemoryMiB,  \* runtime.lock.json: host
  minimumMemoryMiB, recommendedMemoryMiB, minimumCpuCount, maximumCpuCount

ASSUME ResourcesAssumption ==
  /\ HostMemories \subseteq Nat
  /\ ProcessorCounts \subseteq Nat
  /\ minimumHostMemoryMiB \in Nat
  /\ minimumMemoryMiB \in Nat
  /\ recommendedMemoryMiB \in Nat
  /\ minimumCpuCount \in Nat
  /\ maximumCpuCount \in Nat
  /\ minimumMemoryMiB =< recommendedMemoryMiB
  /\ recommendedMemoryMiB =< 32768
  /\ minimumMemoryMiB + 2048 =< minimumHostMemoryMiB
  /\ minimumCpuCount =< maximumCpuCount

VARIABLES
  hostMemoryMiB, processors,  \* the PC
  pc,                         \* next step of the attempt to enter Omarchy
  memoryMiB, cpuCount,        \* the choice
  queries                     \* "failed" once a query of this attempt has failed

host == <<hostMemoryMiB, processors>>
choice == <<memoryMiB, cpuCount>>
vars == <<host, pc, choice, queries>>

-----------------------------------------------------------------------------
Larger(a, b) == IF a > b THEN a ELSE b
Smaller(a, b) == IF a < b THEN a ELSE b

(* Half of the PC's memory in whole GiB, 16 GiB at most, and 3 GiB left to   *)
(* Windows wherever the minimum allows it.                                 *)
Memory(h) ==
  LET halfMemory == (h \div 2048) * 1024
      wanted == Larger(minimumMemoryMiB, Smaller(16384, halfMemory))
  IN IF wanted > h - 3072 THEN Larger(minimumMemoryMiB, h - 3072) ELSE wanted

Processors(p) == Smaller(maximumCpuCount, Larger(minimumCpuCount, p \div 2))

(* Mutant: the host check forgets the memory. *)
AnyHost(h) == TRUE

(* The memory part of Host.Ready in Get-WindowsIntoOmarchyStatus. *)
HostReady(h) == h >= minimumHostMemoryMiB

InContract ==
  /\ minimumMemoryMiB =< memoryMiB /\ memoryMiB =< 32768
  /\ minimumCpuCount =< cpuCount /\ cpuCount =< maximumCpuCount

Init ==
  /\ hostMemoryMiB \in HostMemories
  /\ processors \in ProcessorCounts
  /\ pc = "closed"
  /\ memoryMiB = minimumMemoryMiB
  /\ cpuCount = minimumCpuCount
  /\ queries = "answered"

(* The user tries to enter Omarchy, perhaps not for the first time. *)
Open ==
  /\ pc \in {"closed", "blocked", "refused", "started"}
  /\ pc' = "status"
  /\ queries' = "answered"
  /\ UNCHANGED <<host, choice>>

(* Get-WindowsIntoOmarchyStatus, in Experience.ps1 and again in Run-VM.ps1:  *)
(* a host that cannot be asked is not ready.                               *)
CheckHost(from, ready, notReady) ==
  /\ pc = from
  /\ \/ /\ pc' = IF HostReady(hostMemoryMiB) THEN ready ELSE notReady
        /\ UNCHANGED queries
     \/ /\ pc' = notReady
        /\ queries' = "failed"
  /\ UNCHANGED <<host, choice>>

ExperienceChecks == CheckHost("status", "resources", "blocked")

(* Get-OmarchyAutomaticResources: catch { } keeps the recommended memory. *)
ChooseResources ==
  /\ pc = "resources"
  /\ \/ memoryMiB' = Memory(hostMemoryMiB) /\ UNCHANGED queries
     \/ memoryMiB' = recommendedMemoryMiB /\ queries' = "failed"
  /\ cpuCount' = Processors(processors)
  /\ pc' = "arguments"
  /\ UNCHANGED host

(* Run-VM.ps1: the arguments against the contract, ... *)
CheckArguments ==
  /\ pc = "arguments"
  /\ pc' = IF InContract THEN "runStatus" ELSE "refused"
  /\ UNCHANGED <<host, choice, queries>>

(* ... the host, ... *)
RunChecks == CheckHost("runStatus", "runMemory", "refused")

(* ... and what would be left to Windows. *)
CheckMemory ==
  /\ pc = "runMemory"
  /\ \/ /\ pc' = IF memoryMiB > hostMemoryMiB - 2048 THEN "refused" ELSE "started"
        /\ UNCHANGED queries
     \/ /\ pc' = "refused"
        /\ queries' = "failed"
  /\ UNCHANGED <<host, choice>>

Next ==
  \/ Open
  \/ ExperienceChecks \/ ChooseResources
  \/ CheckArguments \/ RunChecks \/ CheckMemory

Spec == Init /\ [][Next]_vars

-----------------------------------------------------------------------------
(* Every variable has its type: the processors are always within the         *)
(* contract.                                                               *)
TypeOK ==
  /\ hostMemoryMiB \in HostMemories
  /\ processors \in ProcessorCounts
  /\ pc \in {"closed", "status", "blocked", "resources", "arguments", "runStatus",
             "runMemory", "refused", "started"}
  /\ memoryMiB \in Nat
  /\ cpuCount \in minimumCpuCount .. maximumCpuCount
  /\ queries \in {"answered", "failed"}

(* The two processes agree: Run-VM.ps1 refuses no choice Experience.ps1       *)
(* makes for a host it let through, as long as Windows answers them.        *)
ChoiceAccepted == pc = "refused" => queries = "failed"
=============================================================================
