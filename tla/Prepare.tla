------------------------------- MODULE Prepare -------------------------------
(***************************************************************************)
(* The fallback of a source build, which has no factory: Prepare.ps1 gets    *)
(* an app-local QEMU through Build-Runtime.ps1 and the Omarchy ISO, and       *)
(* Run-VM.ps1 starts them if Get-WindowsIntoOmarchyStatus finds them ready.   *)
(*                                                                         *)
(* QEMU comes as an installer that runs elevated, in a process of its own     *)
(* which outlives the worker that waits for it.  The verdict on the ISO is    *)
(* cached under its length and write time in verified-downloads.json.        *)
(***************************************************************************)
EXTENDS Naturals

CONSTANTS
  Workers,    \* PowerShell processes that run Experience.ps1
  Setups,     \* processes of the QEMU installer
  None,
  MaxFaults,  \* bound: failed or corrupted transfers, refused prompts
  MaxKills,   \* bound: workers killed
  MaxLosses,  \* bound: power losses, and installers that fail half way
  MaxDecays   \* bound: the ISO overwritten on the disk

ASSUME PrepareAssumption ==
  /\ None \notin Setups
  /\ {MaxFaults, MaxKills, MaxLosses, MaxDecays} \subseteq Nat

Files == {"installer", "iso"}
Contents == {"absent", "bad", "good"}

(* What the installer writes, in an order of its own: the two programs        *)
(* Get-QemuInstallation looks for, and all else they need.                   *)
Pieces == {"programs", "support"}

VARIABLES
  runtime,  \* what is in the app-local directory
  setup,    \* what each installer process has yet to write, None if not running
  file,     \* each download at its final path
  partial,  \* and at its .partial path
  record,   \* verdict recorded for the ISO there is, by length and write time
  pc,       \* next step of each worker
  at,       \* the download it is at
  job,      \* the installer process it waits for
  faults, kills, losses, decays

bounds == <<faults, kills, losses, decays>>
vars == <<runtime, setup, file, partial, record, pc, at, job, bounds>>

Goto(m, label) == pc' = [pc EXCEPT ![m] = label] /\ UNCHANGED at
Fetch(m, f) == pc' = [pc EXCEPT ![m] = "file"] /\ at' = [at EXCEPT ![m] = f]
Fault == faults < MaxFaults /\ faults' = faults + 1

(* Downloads left by an earlier version do not match the digests of this one. *)
Init ==
  /\ runtime = {}
  /\ setup = [k \in Setups |-> None]
  /\ file \in [Files -> Contents]
  /\ partial \in [Files -> {"absent", "bad"}]
  /\ record = "none"
  /\ pc = [m \in Workers |-> "idle"]
  /\ at = [m \in Workers |-> "iso"]
  /\ job = [m \in Workers |-> None]
  /\ faults = 0 /\ kills = 0 /\ losses = 0 /\ decays = 0

-----------------------------------------------------------------------------
(* Get-WindowsIntoOmarchyStatus. *)

(* Get-QemuInstallation: the two programs are there. *)
QemuFound == "programs" \in runtime

(* The programs run, and know every device; the firmware is there. *)
QemuReady == runtime = Pieces

(* Test-PinnedFile. *)
Pinned(f) == file[f] = "good"

(* Test-PinnedFileCached: the verdict, from the record if it has one. *)
IsoReady == IF record = "none" THEN Pinned("iso") ELSE record = "valid"

(* The record after that: no file, no record. *)
Recorded ==
  IF file["iso"] = "absent" THEN record ELSE IF IsoReady THEN "valid" ELSE "invalid"

(* Mutant: the record is found by the ISO's path alone. *)
SameRecord(f) == record

(* A file that moves in or out has its own length and write time. *)
RecordAfter(f) == IF f = "iso" THEN "none" ELSE record

-----------------------------------------------------------------------------
(* Experience.ps1 reads the status and, for want of a factory, prepares. *)
Start(m) ==
  /\ pc[m] = "idle"
  /\ Goto(m, "qemu")
  /\ record' = Recorded
  /\ UNCHANGED <<runtime, setup, file, partial, job, bounds>>

(* Prepare.ps1: Build-Runtime.ps1 runs only if no QEMU is found. *)
FindQemu(m) ==
  /\ pc[m] = "qemu"
  /\ IF QemuFound THEN Fetch(m, "iso") ELSE Goto(m, "payload")
  /\ UNCHANGED <<runtime, setup, file, partial, record, job, bounds>>

(* Install-AppLocalRuntime: Test-QemuRuntimePayload. *)
CheckPayload(m) ==
  /\ pc[m] = "payload"
  /\ Goto(m, IF QemuReady THEN "found" ELSE "move")
  /\ UNCHANGED <<runtime, setup, file, partial, record, job, bounds>>

(* What is there goes to Quarantine; a directory in use may refuse to move. *)
MoveRuntime(m) ==
  /\ pc[m] = "move"
  /\ \/ Fetch(m, "installer") /\ runtime' = {}
     \/ /\ runtime # {}
        /\ \E k \in Setups : setup[k] # None
        /\ Goto(m, "failed") /\ UNCHANGED runtime
  /\ UNCHANGED <<setup, file, partial, record, job, bounds>>

-----------------------------------------------------------------------------
(* Get-VerifiedQemuInstaller and Get-VerifiedDownload.                        *)

AfterFile(m) == IF at[m] = "installer" THEN "install" ELSE "doctor"

CheckFile(m) ==
  /\ pc[m] = "file"
  /\ Goto(m, IF Pinned(at[m]) THEN AfterFile(m)
             ELSE IF file[at[m]] = "bad" THEN "quarantine" ELSE "clear")
  /\ UNCHANGED <<runtime, setup, file, partial, record, job, bounds>>

(* Mutant: the file stays where it is. *)
KeptInPlace(f) == file

(* Move-Item to Quarantine. *)
Quarantined(f) == [file EXCEPT ![f] = "absent"]

QuarantineFile(m) ==
  /\ pc[m] = "quarantine"
  /\ file' = Quarantined(at[m])
  /\ record' = RecordAfter(at[m])
  /\ Goto(m, IF file[at[m]] = "absent" THEN "failed" ELSE "clear")
  /\ UNCHANGED <<runtime, setup, partial, job, bounds>>

(* A partial of before is removed, or quarantined if it is the installer's.  *)
ClearPartial(m) ==
  /\ pc[m] = "clear"
  /\ partial' = [partial EXCEPT ![at[m]] = "absent"]
  /\ Goto(m, "download")
  /\ UNCHANGED <<runtime, setup, file, record, job, bounds>>

(* Start-BitsTransfer or Invoke-WebRequest. *)
Download(m) ==
  /\ pc[m] = "download"
  /\ \/ partial' = [partial EXCEPT ![at[m]] = "good"] /\ Goto(m, "verify") /\ UNCHANGED faults
     \/ partial' = [partial EXCEPT ![at[m]] = "bad"] /\ Goto(m, "verify") /\ Fault
     \/ /\ partial' \in {partial, [partial EXCEPT ![at[m]] = "bad"]}
        /\ Goto(m, "failed") /\ Fault
  /\ UNCHANGED <<runtime, setup, file, record, job, kills, losses, decays>>

(* Mutant: the download is there. *)
PartialThere(f) == partial[f] # "absent"

PartialPinned(f) == partial[f] = "good"

(* A download that does not match its digest is quarantined. *)
VerifyPartial(m) ==
  /\ pc[m] = "verify"
  /\ IF PartialPinned(at[m])
     THEN Goto(m, "publish") /\ UNCHANGED partial
     ELSE Goto(m, "failed") /\ partial' = [partial EXCEPT ![at[m]] = "absent"]
  /\ UNCHANGED <<runtime, setup, file, record, job, bounds>>

(* Move-Item neither overwrites a file nor moves one that is not there. *)
PublishFile(m) ==
  /\ pc[m] = "publish"
  /\ IF file[at[m]] = "absent" /\ partial[at[m]] # "absent"
     THEN /\ file' = [file EXCEPT ![at[m]] = partial[at[m]]]
          /\ partial' = [partial EXCEPT ![at[m]] = "absent"]
          /\ record' = RecordAfter(at[m])
          /\ Goto(m, AfterFile(m))
     ELSE Goto(m, "failed") /\ UNCHANGED <<file, partial, record>>
  /\ UNCHANGED <<runtime, setup, job, bounds>>

-----------------------------------------------------------------------------
(* The installer. *)

(* Start-Process -Verb RunAs: the prompt may be refused. *)
RunInstaller(m) ==
  /\ pc[m] = "install"
  /\ \/ \E k \in Setups :
          /\ setup[k] = None
          /\ file["installer"] # "absent"
          /\ setup' = [setup EXCEPT ![k] = Pieces]
          /\ job' = [job EXCEPT ![m] = k]
          /\ Goto(m, "installing")
          /\ UNCHANGED faults
     \/ /\ Fault \/ (file["installer"] = "absent" /\ UNCHANGED faults)
        /\ Goto(m, "failed")
        /\ UNCHANGED <<setup, job>>
  /\ UNCHANGED <<runtime, file, partial, record, kills, losses, decays>>

SetupWrites(k) ==
  /\ setup[k] # None
  /\ \E p \in setup[k] :
       /\ runtime' = runtime \union {p}
       /\ setup' = [setup EXCEPT ![k] = @ \ {p}]
  /\ UNCHANGED <<file, partial, record, pc, at, job, bounds>>

(* It stops half way: a full disk, or its own progress window closed. *)
SetupFails(k) ==
  /\ losses < MaxLosses
  /\ losses' = losses + 1
  /\ setup[k] # None
  /\ setup' = [setup EXCEPT ![k] = None]
  /\ pc' = [m \in Workers |-> IF job[m] = k THEN "failed" ELSE pc[m]]
  /\ job' = [m \in Workers |-> IF job[m] = k THEN None ELSE job[m]]
  /\ UNCHANGED <<runtime, file, partial, record, at, faults, kills, decays>>

(* It ends, with its worker waiting or not. *)
SetupEnds(k) ==
  /\ setup[k] = {}
  /\ setup' = [setup EXCEPT ![k] = None]
  /\ pc' = [m \in Workers |-> IF job[m] = k THEN "payload?" ELSE pc[m]]
  /\ job' = [m \in Workers |-> IF job[m] = k THEN None ELSE job[m]]
  /\ UNCHANGED <<runtime, file, partial, record, at, bounds>>

(* Test-QemuRuntimePayload again, then qemu-runtime.json. *)
CheckInstalled(m) ==
  /\ pc[m] = "payload?"
  /\ Goto(m, IF QemuReady THEN "found" ELSE "failed")
  /\ UNCHANGED <<runtime, setup, file, partial, record, job, bounds>>

(* Prepare.ps1: Get-QemuInstallation again. *)
FindInstalled(m) ==
  /\ pc[m] = "found"
  /\ IF QemuFound THEN Fetch(m, "iso") ELSE Goto(m, "failed")
  /\ UNCHANGED <<runtime, setup, file, partial, record, job, bounds>>

-----------------------------------------------------------------------------
(* Doctor.ps1 -NoExit reports; whatever it finds, Prepare.ps1 ends well. *)
Doctor(m) ==
  /\ pc[m] = "doctor"
  /\ record' = Recorded
  /\ Goto(m, "launch")
  /\ UNCHANGED <<runtime, setup, file, partial, job, bounds>>

(* Run-VM.ps1: the status must be ready. *)
Launch(m) ==
  /\ pc[m] = "launch"
  /\ record' = Recorded
  /\ Goto(m, IF QemuReady /\ file["iso"] # "absent" /\ IsoReady
             THEN "running" ELSE "failed")
  /\ UNCHANGED <<runtime, setup, file, partial, job, bounds>>

(* QEMU exits, or the attempt has failed. *)
End(m) ==
  /\ pc[m] \in {"running", "failed"}
  /\ Goto(m, "idle")
  /\ UNCHANGED <<runtime, setup, file, partial, record, job, bounds>>

-----------------------------------------------------------------------------
(* The environment. *)

(* The worker is killed; its installer goes on. *)
Kill(m) ==
  /\ kills < MaxKills
  /\ kills' = kills + 1
  /\ pc[m] # "idle"
  /\ Goto(m, "idle")
  /\ job' = [job EXCEPT ![m] = None]
  /\ UNCHANGED <<runtime, setup, file, partial, record, faults, losses, decays>>

PowerLoss ==
  /\ losses < MaxLosses
  /\ losses' = losses + 1
  /\ setup' = [k \in Setups |-> None]
  /\ pc' = [m \in Workers |-> "idle"]
  /\ job' = [m \in Workers |-> None]
  /\ UNCHANGED <<runtime, file, partial, record, at, faults, kills, decays>>

(* Something writes to the ISO. *)
Decay ==
  /\ decays < MaxDecays
  /\ decays' = decays + 1
  /\ file["iso"] = "good"
  /\ file' = [file EXCEPT !["iso"] = "bad"]
  /\ record' = RecordAfter("iso")
  /\ UNCHANGED <<runtime, setup, partial, pc, at, job, faults, kills, losses>>

WorkerStep(m) ==
  \/ FindQemu(m) \/ CheckPayload(m) \/ MoveRuntime(m)
  \/ CheckFile(m) \/ QuarantineFile(m) \/ ClearPartial(m) \/ Download(m)
  \/ VerifyPartial(m) \/ PublishFile(m)
  \/ RunInstaller(m) \/ CheckInstalled(m) \/ FindInstalled(m)
  \/ Doctor(m) \/ Launch(m) \/ End(m)

SetupStep(k) == SetupWrites(k) \/ SetupEnds(k)

Next ==
  \/ \E m \in Workers : Start(m) \/ WorkerStep(m) \/ Kill(m)
  \/ \E k \in Setups : SetupStep(k) \/ SetupFails(k)
  \/ PowerLoss \/ Decay

Spec == Init /\ [][Next]_vars

(* Transfers, installers and sessions end, and the user tries again. *)
FairSpec ==
  /\ Spec
  /\ \A m \in Workers : WF_vars(WorkerStep(m)) /\ WF_vars(Start(m))
  /\ \A k \in Setups : WF_vars(SetupStep(k))

-----------------------------------------------------------------------------
(* Properties. *)

Labels ==
  {"idle", "qemu", "payload", "move", "file", "quarantine", "clear", "download", "verify",
   "publish", "install", "installing", "payload?", "found", "doctor", "launch", "running",
   "failed"}

(* Type invariant; a verdict is one on a file that is there. *)
TypeOK ==
  /\ runtime \subseteq Pieces
  /\ setup \in [Setups -> (SUBSET Pieces) \union {None}]
  /\ file \in [Files -> Contents]
  /\ partial \in [Files -> Contents]
  /\ record \in {"none", "valid", "invalid"}
  /\ file["iso"] = "absent" => record = "none"
  /\ pc \in [Workers -> Labels]
  /\ at \in [Workers -> Files]
  /\ job \in [Workers -> Setups \union {None}]
  /\ {faults, kills, losses, decays} \subseteq Nat

(* The cached verdict on the ISO is the one a full hash would give, whatever  *)
(* has been quarantined, downloaded or overwritten since it was recorded.    *)
RecordIsTrue == record # "none" => (record = "valid") = (file["iso"] = "good")

(* "Invalid artifacts are never executed": the installer that is started,      *)
(* elevated and without another look, is the pinned one.                     *)
VerifiedInstallerRuns ==
  [][\A k \in Setups :
       setup[k] = None /\ setup'[k] # None => file["installer"] = "good"]_vars

(* Programs without what they need, and nobody at work to complete them. *)
Torn == QemuFound /\ ~QemuReady /\ \A k \in Setups : setup[k] = None

(* A user who tries again gets into Omarchy again and again, unless in the     *)
(* end the runtime stays torn, as a failed or interrupted installer leaves it. *)
OpensUnlessTorn == []<>(\E m \in Workers : pc[m] = "running") \/ <>[]Torn

(* "Setup state is idempotent": whatever was interrupted, a user who tries     *)
(* again gets into Omarchy.                                                *)
SetupResumes == []<>(\E m \in Workers : pc[m] = "running")
=============================================================================
