------------------------------- MODULE Machine -------------------------------
(***************************************************************************)
(* The private machine of Windows Into Omarchy: the writable qcow2 overlay  *)
(* VM\<buildId>\omarchy.qcow2, its receipt machine.json, its firmware       *)
(* variables, the disposable overlays in Temp and the archives in Backups.  *)
(*                                                                         *)
(* Sessions are the hidden PowerShell workers that touch it:                *)
(*   - Experience.ps1 (Launch and Disposable): make the overlay if it is    *)
(*     missing, then run Run-VM.ps1, which starts QEMU under a mutex;       *)
(*   - Archive-ActiveMachine.ps1, with Reset.ps1 for the fallback machine.  *)
(* Nothing stops two windows, so several sessions run at once.  A session   *)
(* can be killed between any two steps, leaving its QEMU alive; a statement *)
(* may throw (disk full, file locked); and the whole PC can lose power.     *)
(***************************************************************************)
EXTENDS FiniteSets, Naturals

CONSTANTS
  Sessions,        \* concurrent PowerShell workers
  Builds,          \* factory build identities
  Fallback,        \* stands for "no factory": the ISO machine in VM\omarchy.qcow2
  Deployed,        \* what may be active at first in this instance
  Images,          \* identities of qcow2 files
  None,            \* no image, or no process
  Abandoned,       \* the mutex when its owner died and another handle is open
  Kinds,           \* the operations the user asks for in this instance
  MaxBackups,      \* bound: archives kept
  MaxFaults,       \* bound: failures of a tool, or of a statement of a script
  MaxKills,        \* bound: sessions killed
  MaxPowerLosses,  \* bound: power losses
  MaxActivations   \* bound: factory activations after the first

Places == Builds \union {Fallback}
AllKinds == {"Persistent", "Disposable", "Archive"}

ASSUME MachineAssumption ==
  /\ Fallback \notin Builds
  /\ None \notin Images \union Sessions
  /\ Abandoned \notin Sessions \union {None}
  /\ Deployed \subseteq Places
  /\ Kinds \subseteq AllKinds
  /\ {MaxBackups, MaxFaults, MaxKills, MaxPowerLosses, MaxActivations} \subseteq Nat

VARIABLES
  (* What is on the disk. *)
  active,     \* what Get-OmarchyActiveFactory returns
  disk,       \* image at VM\<place>\omarchy.qcow2
  partial,    \* image at VM\<build>\omarchy.qcow2.partial
  receipt,    \* VM\<build>\machine.json: "absent", "torn" or "whole"
  nvram,      \* firmware-vars.fd: the image it was first made for
  image,      \* what each qcow2 file holds
  backups,    \* images archived beneath Backups
  temp,       \* disposable overlay of each session: the image it is based on
  leaked,     \* bases of the disposable overlays no session will remove
  journal,    \* the last record in Experience\progress.json
  (* Processes. *)
  mutex,      \* Local\WindowsIntoOmarchy-VM-v1
  pc,         \* next step of each session
  kind,       \* operation of each session
  place,      \* the factory each session has read
  target,     \* the disk image each session works on
  orphans,    \* QEMUs whose session was killed
  (* History. *)
  owned,      \* images some guest has written to
  disturbed,  \* sessions whose disposable overlay lost its base
  parted,     \* places where a failure kept a machine from its receipt, or
              \* left the firmware variables of a disk that was archived
  faults, kills, losses, activations

files == <<disk, partial, receipt, nvram, image, backups, temp, leaked>>
procs == <<mutex, pc, kind, place, target, orphans>>
history == <<owned, disturbed, parted>>
bounds == <<faults, kills, losses, activations>>
vars == <<active, files, journal, procs, history, bounds>>

-----------------------------------------------------------------------------
(* Helpers. *)

(* Images the owner can still reach. *)
Kept == {i \in Images : i \in backups \/ \E p \in Places : disk[p] = i}

Unused == {i \in Images : image[i] = "free"}

(* qemu-img has the partial overlay of b open for writing. *)
PartialOpen(b) == \E t \in Sessions : pc[t] = "creating" /\ place[t] = b

(* Set-Content has machine.json of b open. *)
ReceiptOpen(b) == \E t \in Sessions : pc[t] = "receiptOpen" /\ place[t] = b

(* Mutant: $runDisk stays the persistent disk. *)
RunDiskPersistent(s) == target[s]

(* The image a session's QEMU has as its writable disk: $runDisk. *)
RunDisk(s) == IF temp[s] # None THEN None ELSE target[s]

(* Some QEMU has image i open, as its disk or below a disposable overlay. *)
InUse(i) ==
  \/ \E t \in Sessions : pc[t] = "running" /\ target[t] = i
  \/ \E o \in orphans : o.disk = i

OpenForWriting(i) ==
  \/ \E t \in Sessions : pc[t] = "running" /\ RunDisk(t) = i
  \/ [kind |-> "Persistent", disk |-> i] \in orphans

(* Sessions that hold a handle to the mutex without owning it. *)
Waiting == {t \in Sessions : pc[t] = "waitOne"}

(* The mutex once owner s lets go of it without ReleaseMutex. *)
AfterAbandon(s) ==
  IF mutex = s THEN IF Waiting \ {s} = {} THEN None ELSE Abandoned ELSE mutex

Goto(s, label) == pc' = [pc EXCEPT ![s] = label]

(* The process of s ends, and its variables with it. *)
Exit(s) ==
  /\ Goto(s, "idle")
  /\ kind' = [kind EXCEPT ![s] = "Persistent"]
  /\ place' = [place EXCEPT ![s] = Fallback]
  /\ target' = [target EXCEPT ![s] = None]

(* A tool fails, or a statement throws: bounded. *)
Fault == faults < MaxFaults /\ faults' = faults + 1

-----------------------------------------------------------------------------
Init ==
  /\ active \in Deployed
  /\ disk = [p \in Places |-> None]
  /\ partial = [b \in Builds |-> None]
  /\ receipt = [b \in Builds |-> "absent"]
  /\ nvram = [p \in Places |-> None]
  /\ image = [i \in Images |-> "free"]
  /\ backups = {}
  /\ temp = [s \in Sessions |-> None]
  /\ leaked = {}
  /\ journal = "None"
  /\ mutex = None
  /\ pc = [s \in Sessions |-> "idle"]
  /\ kind = [s \in Sessions |-> "Persistent"]
  /\ place = [s \in Sessions |-> Fallback]
  /\ target = [s \in Sessions |-> None]
  /\ orphans = {}
  /\ owned = {}
  /\ disturbed = {}
  /\ parted = {}
  /\ faults = 0 /\ kills = 0 /\ losses = 0 /\ activations = 0

(* The user starts an operation; Experience.ps1 reads the active factory. *)
Start(s, k) ==
  /\ pc[s] = "idle"
  /\ k = "Archive" => Cardinality(backups) + Cardinality({t \in Sessions :
                        pc[t] # "idle" /\ kind[t] = "Archive"}) < MaxBackups
  /\ Goto(s, IF k = "Archive" THEN "openMutex" ELSE "initialize")
  /\ kind' = [kind EXCEPT ![s] = k]
  /\ place' = [place EXCEPT ![s] = active]
  /\ target' = [target EXCEPT ![s] = None]
  /\ UNCHANGED <<active, files, journal, mutex, orphans, history, bounds>>

-----------------------------------------------------------------------------
(* Initialize-OmarchyMachineFromFactory. *)

(* An overlay is there: qemu-img info, then qemu-img check. *)
InspectOverlay(s) ==
  /\ pc[s] = "initialize"
  /\ place[s] \in Builds
  /\ disk[place[s]] # None
  /\ LET d == disk[place[s]] IN
       \/ /\ image[d] \notin {"torn", "damaged"}
          /\ Goto(s, "launch")
       \/ /\ image[d] \in {"torn", "damaged"} \/ InUse(d)
          /\ Goto(s, "failed")
  /\ UNCHANGED <<active, files, journal, mutex, kind, place, target, orphans,
                 history, bounds>>

(* No overlay: a stale partial overlay is removed. *)
RemoveStalePartial(s) ==
  /\ pc[s] = "initialize"
  /\ place[s] \in Builds
  /\ disk[place[s]] = None
  /\ journal' = "CreatingMachine"
  /\ LET b == place[s] IN
       IF PartialOpen(b)
       THEN Goto(s, "failed") /\ UNCHANGED <<partial, image>>
       ELSE /\ Goto(s, "create")
            /\ partial' = [partial EXCEPT ![b] = None]
            /\ image' = [i \in Images |-> IF i = partial[b] THEN "free" ELSE image[i]]
  /\ UNCHANGED <<active, disk, receipt, nvram, backups, temp, leaked, mutex,
                 kind, place, target, orphans, history, bounds>>

(* qemu-img create opens the partial overlay, over whatever is there now. *)
CreatePartial(s) ==
  /\ pc[s] = "create"
  /\ LET b == place[s] IN
       IF PartialOpen(b)
       THEN Goto(s, "failed") /\ UNCHANGED <<partial, image>>
       ELSE \E i \in Unused :
              /\ Goto(s, "creating")
              /\ image' = [j \in Images |->
                   IF j = i THEN "torn"
                   ELSE IF j = partial[b] THEN "free" ELSE image[j]]
              /\ partial' = [partial EXCEPT ![b] = i]
  /\ UNCHANGED <<active, disk, receipt, nvram, backups, temp, leaked, journal,
                 mutex, kind, place, target, orphans, history, bounds>>

EndCreate(s, next) ==
  /\ pc[s] = "creating"
  /\ \/ /\ image' = [image EXCEPT ![partial[place[s]]] = "whole"]
        /\ Goto(s, next)
        /\ UNCHANGED faults
     \/ /\ Fault
        /\ Goto(s, "failed")
        /\ UNCHANGED image
  /\ UNCHANGED <<active, disk, partial, receipt, nvram, backups, temp, leaked,
                 journal, mutex, kind, place, target, orphans, history, kills,
                 losses, activations>>

(* Mutant: the new overlay is moved without qemu-img check. *)
FinishPartialUnchecked(s) == EndCreate(s, "move")

(* qemu-img create ends, with a whole overlay or with an error. *)
FinishPartial(s) == EndCreate(s, "check")

(* qemu-img check of whatever lies at the partial path. *)
CheckPartial(s) ==
  /\ pc[s] = "check"
  /\ LET i == partial[place[s]] IN
       IF i = None \/ PartialOpen(place[s]) \/ (i # None /\ image[i] = "torn")
       THEN Goto(s, "failed") /\ UNCHANGED image
       ELSE /\ image' = [image EXCEPT ![i] = "checked"]
            /\ Goto(s, "move")
  /\ UNCHANGED <<active, disk, partial, receipt, nvram, backups, temp, leaked,
                 journal, mutex, kind, place, target, orphans, history, bounds>>

(* Mutant: Move-Item -Force. *)
CanMoveForced(b) == partial[b] # None /\ ~PartialOpen(b)

(* Move-Item without -Force: fails on a missing or open source and on an    *)
(* existing destination.                                                   *)
CanMove(b) == partial[b] # None /\ ~PartialOpen(b) /\ disk[b] = None

MoveOverlay(s, next) ==
  /\ pc[s] = "move"
  /\ LET b == place[s] IN
       IF ~CanMove(b)
       THEN Goto(s, "failed") /\ UNCHANGED <<disk, partial>>
       ELSE /\ disk' = [disk EXCEPT ![b] = partial[b]]
            /\ partial' = [partial EXCEPT ![b] = None]
            /\ Goto(s, next)
  /\ UNCHANGED <<active, receipt, nvram, image, backups, temp, leaked, journal,
                 mutex, kind, place, target, orphans, history, bounds>>

(* Mutant: no receipt is written. *)
MovePartialOnly(s) == MoveOverlay(s, "launch")

(* The checked overlay becomes the machine, and its receipt is next. *)
MovePartial(s) == MoveOverlay(s, "receipt")

(* Set-Content opens machine.json, truncating it, ... *)
OpenReceipt(s) ==
  /\ pc[s] = "receipt"
  /\ IF ReceiptOpen(place[s])
     THEN Goto(s, "failed") /\ UNCHANGED receipt
     ELSE /\ receipt' = [receipt EXCEPT ![place[s]] = "torn"]
          /\ Goto(s, "receiptOpen")
  /\ UNCHANGED <<active, disk, partial, nvram, image, backups, temp, leaked,
                 journal, mutex, kind, place, target, orphans, history, bounds>>

(* ... and closes it with the build and the backing file in it. *)
CloseReceipt(s) ==
  /\ pc[s] = "receiptOpen"
  /\ receipt' = [receipt EXCEPT ![place[s]] = "whole"]
  /\ Goto(s, "launch")
  /\ UNCHANGED <<active, disk, partial, nvram, image, backups, temp, leaked,
                 journal, mutex, kind, place, target, orphans, history, bounds>>

(* Source builds without a factory: Prepare.ps1 leaves the machine alone. *)
PrepareFallback(s) ==
  /\ pc[s] = "initialize"
  /\ place[s] = Fallback
  /\ Goto(s, "launch")
  /\ UNCHANGED <<active, files, journal, mutex, kind, place, target, orphans,
                 history, bounds>>

(* The journal says Running before Run-VM.ps1 is even started. *)
AnnounceRunning(s) ==
  /\ pc[s] = "launch"
  /\ journal' = "Running"
  /\ Goto(s, "openMutex")
  /\ UNCHANGED <<active, files, mutex, kind, place, target, orphans, history, bounds>>

(* Any other statement of Experience.ps1 throws, and its catch gives up: a    *)
(* record, a deletion, a move, or the receipt of the overlay that has just   *)
(* been moved into place, before or after machine.json is truncated.         *)
ExperienceThrows(s) ==
  /\ pc[s] \in {"initialize", "create", "check", "move", "receipt", "receiptOpen", "launch"}
  /\ Fault
  /\ Goto(s, "failed")
  /\ parted' = IF pc[s] \in {"receipt", "receiptOpen"} THEN parted \union {place[s]} ELSE parted
  /\ UNCHANGED <<active, files, journal, mutex, kind, place, target, orphans,
                 owned, disturbed, kills, losses, activations>>

-----------------------------------------------------------------------------
(* The mutex, in Run-VM.ps1 and in Archive-ActiveMachine.ps1. *)

OpenMutex(s) ==
  /\ pc[s] = "openMutex"
  /\ Goto(s, "waitOne")
  /\ UNCHANGED <<active, files, journal, mutex, kind, place, target, orphans,
                 history, bounds>>

(* Mutant: Run-VM.ps1 ignores the result of WaitOne(0). *)
MayEnterToRun(s) == mutex = None \/ kind[s] # "Archive"

(* WaitOne(0) succeeds. *)
MayEnter(s) == mutex = None

Refused(s) == IF kind[s] = "Archive" THEN "archiveFailed" ELSE "failed"

(* WaitOne(0): owned, refused at once, or AbandonedMutexException, which     *)
(* leaves $ownsMutex false although the thread now owns the mutex: the       *)
(* process ends and abandons it again.                                      *)
WaitOne(s) ==
  /\ pc[s] = "waitOne"
  /\ \/ /\ MayEnter(s)
        /\ mutex' = s
        /\ Goto(s, IF kind[s] = "Archive" THEN "archive" ELSE "verifyDisk")
     \/ /\ mutex \in Sessions
        /\ Goto(s, Refused(s))
        /\ UNCHANGED mutex
     \/ /\ mutex = Abandoned
        /\ mutex' = IF Waiting = {s} THEN None ELSE Abandoned
        /\ Goto(s, Refused(s))
  /\ UNCHANGED <<active, files, journal, kind, place, target, orphans, history, bounds>>

-----------------------------------------------------------------------------
(* Run-VM.ps1, owning the mutex. *)

Verified(s) == IF kind[s] = "Disposable" THEN "ephemeral" ELSE "firmware"

(* The active factory is read again and its disk must be there. *)
VerifyDisk(s) ==
  /\ pc[s] = "verifyDisk"
  /\ place' = [place EXCEPT ![s] = active]
  /\ target' = [target EXCEPT ![s] = disk[active]]
  /\ Goto(s, IF active = Fallback
             THEN IF disk[active] = None THEN "createInPlace" ELSE Verified(s)
             ELSE IF disk[active] = None THEN "runFailed" ELSE "verifyReceipt")
  /\ UNCHANGED <<active, files, journal, mutex, kind, orphans, history, bounds>>

(* The fallback machine is created at its final path. *)
CreateInPlace(s) ==
  /\ pc[s] = "createInPlace"
  /\ \E i \in Unused :
       /\ disk' = [disk EXCEPT ![Fallback] = i]
       /\ image' = [image EXCEPT ![i] = "torn"]
       /\ target' = [target EXCEPT ![s] = i]
  /\ Goto(s, "creatingInPlace")
  /\ UNCHANGED <<active, partial, receipt, nvram, backups, temp, leaked, journal,
                 mutex, kind, place, orphans, history, bounds>>

(* A failed qemu-img create may or may not leave the file behind.           *)
FinishInPlace(s) ==
  /\ pc[s] = "creatingInPlace"
  /\ \/ /\ image' = [image EXCEPT ![target[s]] = "whole"]
        /\ Goto(s, Verified(s))
        /\ UNCHANGED <<disk, faults>>
     \/ /\ Fault
        /\ Goto(s, "runFailed")
        /\ \/ UNCHANGED <<disk, image>>
           \/ /\ disk' = [disk EXCEPT ![Fallback] = None]
              /\ image' = [image EXCEPT ![target[s]] = "free"]
  /\ UNCHANGED <<active, partial, receipt, nvram, backups, temp, leaked,
                 journal, mutex, kind, place, target, orphans, history, kills,
                 losses, activations>>

(* The receipt names the active build; qemu-img info reads the chain. *)
VerifyReceipt(s) ==
  /\ pc[s] = "verifyReceipt"
  /\ Goto(s, IF receipt[place[s]] = "whole" /\ image[target[s]] # "torn"
             THEN Verified(s)
             ELSE "runFailed")
  /\ UNCHANGED <<active, files, journal, mutex, kind, place, target, orphans,
                 history, bounds>>

(* Disposable mode: a child overlay over the persistent disk, in Temp. *)
CreateEphemeral(s) ==
  /\ pc[s] = "ephemeral"
  /\ temp' = [temp EXCEPT ![s] = target[s]]
  /\ disturbed' = disturbed \ {s}
  /\ \/ Goto(s, "firmware") /\ UNCHANGED faults
     \/ Goto(s, "runFailed") /\ Fault
  /\ UNCHANGED <<active, disk, partial, receipt, nvram, image, backups, leaked,
                 journal, mutex, kind, place, target, orphans, owned, parted,
                 kills, losses, activations>>

(* firmware-vars.fd is copied once; then QEMU starts. *)
StartQemu(s) ==
  /\ pc[s] = "firmware"
  /\ nvram' = [nvram EXCEPT ![place[s]] = IF @ = None THEN target[s] ELSE @]
  /\ \/ /\ image[target[s]] # "torn"
        /\ Goto(s, "running")
        /\ UNCHANGED faults
     \/ /\ image[target[s]] = "torn" \/ InUse(target[s])
        /\ Goto(s, "runFailed")
        /\ UNCHANGED faults
     \/ /\ Fault
        /\ Goto(s, "runFailed")
  /\ UNCHANGED <<active, disk, partial, receipt, image, backups, temp, leaked,
                 journal, mutex, kind, place, target, orphans, history, kills,
                 losses, activations>>

(* The guest writes to an image: every disposable overlay above it breaks. *)
WriteTo(i) ==
  /\ owned' = owned \union {i}
  /\ disturbed' = disturbed \union {t \in Sessions : temp[t] = i}
  /\ UNCHANGED parted

GuestWrites(s) ==
  /\ pc[s] = "running"
  /\ RunDisk(s) # None
  /\ WriteTo(RunDisk(s))
  /\ UNCHANGED <<active, files, journal, procs, bounds>>

(* QEMU exits, with or without an error code. *)
QemuExits(s) ==
  /\ pc[s] = "running"
  /\ \/ Goto(s, "runEnded") /\ UNCHANGED faults
     \/ Goto(s, "runFailed") /\ Fault
  /\ UNCHANGED <<active, files, journal, mutex, kind, place, target, orphans,
                 history, kills, losses, activations>>

(* Any other statement under the mutex throws: a query to Windows, the copy    *)
(* of the firmware variables, a record of the log.                          *)
RunThrows(s) ==
  /\ pc[s] \in {"verifyDisk", "createInPlace", "verifyReceipt", "ephemeral", "firmware"}
  /\ Fault
  /\ Goto(s, "runFailed")
  /\ UNCHANGED <<active, files, journal, mutex, kind, place, target, orphans,
                 history, kills, losses, activations>>

(* Mutant: the disposable overlay is removed only after a clean exit. *)
DiscardedOnSuccess(s) == IF pc[s] = "runEnded" THEN None ELSE temp[s]

(* The disposable overlay after the finally block. *)
Discarded(s) == None

(* Mutant: the mutex is released only after a clean exit. *)
ReleasedOnSuccess(s) == IF pc[s] = "runEnded" THEN None ELSE mutex

(* The mutex after the finally block. *)
Released(s) == None

(* finally: the disposable overlay goes, the mutex is released. *)
Finally(s) ==
  /\ pc[s] \in {"runEnded", "runFailed"}
  /\ temp' = [temp EXCEPT ![s] = Discarded(s)]
  /\ disturbed' = disturbed \ {s}
  /\ mutex' = Released(s)
  /\ Goto(s, IF pc[s] = "runEnded" THEN "ready" ELSE "failed")
  /\ UNCHANGED <<active, disk, partial, receipt, nvram, image, backups, leaked,
                 journal, kind, place, target, orphans, owned, parted, bounds>>

(* The disposable overlay cannot be removed: it stays in Temp, and Run-VM.ps1  *)
(* ends without ReleaseMutex.                                               *)
FinallyThrows(s) ==
  /\ pc[s] \in {"runEnded", "runFailed"}
  /\ temp[s] # None
  /\ Fault
  /\ leaked' = leaked \union {temp[s]}
  /\ temp' = [temp EXCEPT ![s] = None]
  /\ disturbed' = disturbed \ {s}
  /\ mutex' = AfterAbandon(s)
  /\ Goto(s, "failed")
  /\ UNCHANGED <<active, disk, partial, receipt, nvram, image, backups, journal,
                 kind, place, target, orphans, owned, parted, kills, losses,
                 activations>>

(* Experience.ps1 writes its last record and ends. *)
Report(s) ==
  /\ pc[s] \in {"ready", "failed"}
  /\ journal' = IF pc[s] = "ready" THEN "Ready" ELSE "Failed"
  /\ Exit(s)
  /\ UNCHANGED <<active, files, mutex, orphans, history, bounds>>

-----------------------------------------------------------------------------
(* Archive-ActiveMachine.ps1, owning the mutex. *)

(* Mutant: the archive does not test for the disk. *)
ArchiveAssumesDisk == TRUE

(* The machine to archive is there. *)
ArchiveFindsDisk == disk[active] # None

(* The disk moves to a new directory beneath Backups; a file that is open    *)
(* may refuse to move.                                                     *)
ArchiveDisk(s) ==
  /\ pc[s] = "archive"
  /\ place' = [place EXCEPT ![s] = active]
  /\ target' = [target EXCEPT ![s] = disk[active]]
  /\ \/ /\ ~ArchiveFindsDisk
        /\ journal' = IF active = Fallback THEN journal ELSE "Fresh"
        /\ Goto(s, "archiveDone")
        /\ UNCHANGED <<disk, backups, parted>>
     \/ /\ ArchiveFindsDisk
        /\ disk' = [disk EXCEPT ![active] = None]
        /\ backups' = backups \union {disk[active]}
        /\ parted' = parted \ {active}
        /\ Goto(s, IF active = Fallback THEN "archiveVars" ELSE "archiveReceipt")
        /\ UNCHANGED journal
     \/ /\ ArchiveFindsDisk
        /\ InUse(disk[active])
        /\ Goto(s, "archiveFailed")
        /\ UNCHANGED <<disk, backups, parted, journal>>
  /\ UNCHANGED <<active, partial, receipt, nvram, image, temp, leaked, mutex,
                 kind, orphans, owned, disturbed, bounds>>

(* machine.json follows, unless it is open or already gone. *)
ArchiveReceipt(s) ==
  /\ pc[s] = "archiveReceipt"
  /\ IF ReceiptOpen(place[s])
     THEN Goto(s, "archiveFailed") /\ UNCHANGED <<receipt, journal>>
     ELSE /\ receipt' = [receipt EXCEPT ![place[s]] = "absent"]
          /\ journal' = "Fresh"
          /\ Goto(s, "archiveDone")
  /\ UNCHANGED <<active, disk, partial, nvram, image, backups, temp, leaked,
                 mutex, kind, place, target, orphans, history, bounds>>

(* Mutant: Reset.ps1 leaves firmware-vars.fd behind. *)
NoVars(s) == nvram

(* firmware-vars.fd is archived with the fallback machine. *)
VarsArchived(s) == [nvram EXCEPT ![Fallback] = None]

(* Reset.ps1, the fallback machine: the firmware variables follow too. *)
ArchiveVars(s) ==
  /\ pc[s] = "archiveVars"
  /\ nvram' = VarsArchived(s)
  /\ Goto(s, "archiveDone")
  /\ UNCHANGED <<active, disk, partial, receipt, image, backups, temp, leaked,
                 journal, mutex, kind, place, target, orphans, history, bounds>>

(* Another statement throws.  If it is the move of the firmware variables,    *)
(* they stay behind for the next fallback machine.                          *)
ArchiveThrows(s) ==
  /\ pc[s] \in {"archive", "archiveReceipt", "archiveVars"}
  /\ Fault
  /\ Goto(s, "archiveFailed")
  /\ parted' = IF pc[s] = "archiveVars" THEN parted \union {Fallback} ELSE parted
  /\ UNCHANGED <<active, files, journal, mutex, kind, place, target, orphans,
                 owned, disturbed, kills, losses, activations>>

(* catch: "The machine was not changed". *)
ArchiveFails(s) ==
  /\ pc[s] = "archiveFailed"
  /\ journal' = "NotChanged"
  /\ Goto(s, "archiveDone")
  /\ UNCHANGED <<active, files, mutex, kind, place, target, orphans, history, bounds>>

(* finally. *)
ArchiveEnds(s) ==
  /\ pc[s] = "archiveDone"
  /\ mutex' = IF mutex = s THEN None ELSE mutex
  /\ Exit(s)
  /\ UNCHANGED <<active, files, journal, orphans, history, bounds>>

-----------------------------------------------------------------------------
(* The environment. *)

(* Materialize-Factory.ps1 activates another build. *)
ActivateFactory(p) ==
  /\ activations < MaxActivations
  /\ p # active
  /\ active' = p
  /\ activations' = activations + 1
  /\ UNCHANGED <<files, journal, procs, history, faults, kills, losses>>

(* The PowerShell processes of a session are killed.  QEMU survives them;   *)
(* the disposable overlay stays in Temp; the mutex is abandoned.            *)
Kill(s) ==
  /\ kills < MaxKills
  /\ kills' = kills + 1
  /\ pc[s] # "idle"
  /\ orphans' = IF pc[s] = "running"
                THEN orphans \union {[kind |-> kind[s], disk |-> target[s]]}
                ELSE orphans
  /\ leaked' = leaked \union ({temp[s]} \ {None})
  /\ temp' = [temp EXCEPT ![s] = None]
  /\ disturbed' = disturbed \ {s}
  /\ mutex' = AfterAbandon(s)
  /\ Exit(s)
  /\ UNCHANGED <<active, disk, partial, receipt, nvram, image, backups, journal,
                 owned, parted, faults, losses, activations>>

OrphanWrites(o) ==
  /\ o \in orphans
  /\ o.kind = "Persistent"
  /\ WriteTo(o.disk)
  /\ UNCHANGED <<active, files, journal, procs, bounds>>

OrphanExits(o) ==
  /\ o \in orphans
  /\ orphans' = orphans \ {o}
  /\ UNCHANGED <<active, files, journal, mutex, pc, kind, place, target, history, bounds>>

(* Every process dies; a disk that was being written may be left damaged.   *)
PowerLoss ==
  /\ losses < MaxPowerLosses
  /\ losses' = losses + 1
  /\ \E hurt \in SUBSET {i \in Images : OpenForWriting(i)} :
       image' = [i \in Images |-> IF i \in hurt THEN "damaged" ELSE image[i]]
  /\ leaked' = leaked \union {i \in Images : \E s \in Sessions : temp[s] = i}
  /\ temp' = [s \in Sessions |-> None]
  /\ disturbed' = {}
  /\ mutex' = None
  /\ pc' = [s \in Sessions |-> "idle"]
  /\ kind' = [s \in Sessions |-> "Persistent"]
  /\ place' = [s \in Sessions |-> Fallback]
  /\ target' = [s \in Sessions |-> None]
  /\ orphans' = {}
  /\ UNCHANGED <<active, disk, partial, receipt, nvram, backups, journal,
                 owned, parted, faults, kills, activations>>

-----------------------------------------------------------------------------
SessionStep(s) ==
  \/ InspectOverlay(s) \/ RemoveStalePartial(s) \/ PrepareFallback(s)
  \/ CreatePartial(s) \/ FinishPartial(s) \/ CheckPartial(s) \/ MovePartial(s)
  \/ OpenReceipt(s) \/ CloseReceipt(s) \/ AnnounceRunning(s)
  \/ OpenMutex(s) \/ WaitOne(s)
  \/ VerifyDisk(s) \/ CreateInPlace(s) \/ FinishInPlace(s) \/ VerifyReceipt(s)
  \/ CreateEphemeral(s) \/ StartQemu(s) \/ QemuExits(s) \/ Finally(s) \/ Report(s)
  \/ ArchiveDisk(s) \/ ArchiveReceipt(s) \/ ArchiveVars(s)
  \/ ArchiveFails(s) \/ ArchiveEnds(s)

Throw(s) ==
  ExperienceThrows(s) \/ RunThrows(s) \/ FinallyThrows(s) \/ ArchiveThrows(s)

Environment ==
  \/ \E p \in Builds : ActivateFactory(p)
  \/ \E o \in orphans : OrphanWrites(o) \/ OrphanExits(o)
  \/ PowerLoss

Next ==
  \/ \E s \in Sessions, k \in Kinds : Start(s, k)
  \/ \E s \in Sessions : SessionStep(s) \/ Throw(s) \/ GuestWrites(s) \/ Kill(s)
  \/ Environment

Spec == Init /\ [][Next]_vars

(* Workers run on; the guest's owner shuts it down in the end; and the user  *)
(* who sees Ready or Failed tries to enter Omarchy again.                   *)
FairSpec ==
  /\ Spec
  /\ \A s \in Sessions : WF_vars(SessionStep(s)) /\ SF_vars(Start(s, "Persistent"))

-----------------------------------------------------------------------------
(* Properties. *)

Labels ==
  {"idle", "initialize", "create", "creating", "check", "move", "receipt",
   "receiptOpen", "launch", "openMutex", "waitOne", "verifyDisk",
   "createInPlace", "creatingInPlace", "verifyReceipt", "ephemeral", "firmware",
   "running", "runEnded", "runFailed", "ready", "failed", "archive",
   "archiveReceipt", "archiveVars", "archiveFailed", "archiveDone"}

(* Every variable has its type. *)
TypeOK ==
  /\ active \in Places
  /\ disk \in [Places -> Images \union {None}]
  /\ partial \in [Builds -> Images \union {None}]
  /\ receipt \in [Builds -> {"absent", "torn", "whole"}]
  /\ nvram \in [Places -> Images \union {None}]
  /\ image \in [Images -> {"free", "torn", "whole", "checked", "damaged"}]
  /\ backups \subseteq Images
  /\ temp \in [Sessions -> Images \union {None}]
  /\ leaked \subseteq Images
  /\ journal \in {"None", "CreatingMachine", "Running", "Ready", "Failed", "Fresh",
                  "NotChanged"}
  /\ mutex \in Sessions \union {None, Abandoned}
  /\ pc \in [Sessions -> Labels]
  /\ kind \in [Sessions -> AllKinds]
  /\ place \in [Sessions -> Places]
  /\ target \in [Sessions -> Images \union {None}]
  /\ orphans \subseteq [kind : AllKinds, disk : Images]
  /\ owned \subseteq Images
  /\ disturbed \subseteq Sessions
  /\ parted \subseteq Places
  /\ {faults, kills, losses, activations} \subseteq Nat

(* Steps taken under the mutex by the code's own account. *)
Critical ==
  {"verifyDisk", "createInPlace", "creatingInPlace", "verifyReceipt", "ephemeral",
   "firmware", "running", "runEnded", "runFailed", "archive", "archiveReceipt",
   "archiveVars"}

(* No two sessions run or archive the machine at once: Run-VM.ps1 and        *)
(* Archive-ActiveMachine.ps1 exclude each other and themselves.             *)
MutualExclusion ==
  \A s, t \in Sessions : pc[s] \in Critical /\ pc[t] \in Critical => s = t

(* Whatever the owner wrote is at a VM path or in Backups, whichever         *)
(* sessions race, die or lose power: no overlay is overwritten or deleted.  *)
OwnerDataKept == owned \subseteq Kept

(* No step takes a complete machine away from the owner, used or not.       *)
MachinesNeverLost == [][{i \in Kept : image[i] # "torn"} \subseteq Kept']_vars

(* While a session's QEMU runs, its disk stays at its path: Archive cannot   *)
(* take it and Initialize cannot replace it.                                *)
RunningDiskStays ==
  [][\A s \in Sessions : pc[s] = "running" /\ pc'[s] = "running"
        => disk'[place[s]] = target[s]]_vars

(* The base of a disposable overlay does not change beneath it; qcow2 gives  *)
(* no meaning to an overlay whose backing file was written to.  (A killed     *)
(* worker's QEMU does write on: the mutex does not cover it.)               *)
DisposableBaseStable == kills = 0 => disturbed = {}

(* An overlay at the VM path is one that qemu-img check accepted.           *)
OnlyCheckedOverlays ==
  \A b \in Builds : disk[b] # None => image[disk[b]] \in {"checked", "damaged"}

(* A live disposable overlay belongs to the session that owns the mutex: it  *)
(* is discarded, after a failure too, before another session may enter.     *)
EphemeralUnderMutex == \A s \in Sessions : temp[s] # None => mutex = s

(* "Operations are idempotent": whenever nobody is working on it, a factory  *)
(* machine is complete, overlay and receipt, or absent, whatever else failed *)
(* before: only the failed write of its own receipt (Experience.ps1:60, after *)
(* the move at :51) leaves it without one, and until it is archived.         *)
MachineCompleteWhenIdle ==
  (\A s \in Sessions : pc[s] = "idle") =>
    \A b \in Builds : disk[b] # None => receipt[b] = "whole" \/ b \in parted

(* The fallback machine boots with the firmware variables made for it, not   *)
(* with those of the machine that Reset.ps1 archived before it, unless it    *)
(* failed to move them (Reset.ps1:33).  (The archive of a factory machine    *)
(* leaves them behind.)                                                     *)
FreshFirmware ==
  \A s \in Sessions :
    pc[s] = "running" /\ place[s] = Fallback =>
      nvram[Fallback] = target[s] \/ Fallback \in parted

(* The machine is a Vault: crashes, races and faults included, complete disks *)
(* only appear (by Move-Item, or when an in-place creation ends) and stay; one *)
(* session enters at a time, on a complete disk; a disposable session never    *)
(* writes to it; a worker's death only lets its QEMU stray.                    *)
V == INSTANCE Vault WITH
  Disks <- Images, Modes <- AllKinds,
  machines <- {i \in Kept : image[i] # "torn"},
  written <- owned,
  open <- {[kind |-> kind[s], disk |-> target[s]] : s \in {t \in Sessions : pc[t] = "running"}},
  strays <- orphans

ImplementsVault == V!Spec

(* "Reopening the app ... continues at the last verified boundary": a user   *)
(* who keeps trying to enter a factory machine gets in again and again.     *)
(* (The fallback disk is another matter: a failed qemu-img create leaves a   *)
(* torn file at its final path.)                                           *)
AlwaysOpensAgain == []<>((\E s \in Sessions : pc[s] = "running") \/ active = Fallback)

(* The same without kills, for what the code does keep: a user who keeps     *)
(* trying gets in again and again, whatever fails, except that a machine    *)
(* whose receipt could not be written stays shut until it is archived.       *)
OpensUnlessParted ==
  \/ []<>((\E s \in Sessions : pc[s] = "running") \/ active = Fallback)
  \/ <>[](active \in parted)
=============================================================================
