---------------------------- MODULE MachineProofs ----------------------------
(***************************************************************************)
(* Proofs about the private machine, for any number of sessions, builds and *)
(* images and any number of crashes: the mutex excludes, no owner's disk is *)
(* ever lost, and the machine implements its Vault. Without crashes, or for *)
(* one session: disposable overlays keep their base, firmware is fresh,     *)
(* overlays are checked before they are run, and machines are complete.     *)
(***************************************************************************)
EXTENDS Machine, TLAPS

(* A session inside the mutex owns it. *)
MutexOwner == \A s \in Sessions : pc[s] \in Critical => mutex = s

(* Only factory builds have a partial overlay and a receipt. *)
BuildLabels == {"create", "creating", "check", "move", "receipt", "receiptOpen"}
PlaceIsBuild == \A s \in Sessions : pc[s] \in BuildLabels => place[s] \in Builds

(* The fallback disk being created in place is nobody's machine yet. *)
InPlace ==
  \A s \in Sessions :
    /\ pc[s] = "createInPlace" => place[s] = Fallback /\ disk[Fallback] = None
    /\ pc[s] = "creatingInPlace" =>
         /\ place[s] = Fallback
         /\ target[s] \in Images
         /\ disk[Fallback] = target[s]
         /\ image[target[s]] = "torn"

(* What QEMU has open, or is about to open, is the machine at its path. *)
Opening == {"verifyReceipt", "ephemeral", "firmware", "running"}
TargetInPlace ==
  \A s \in Sessions :
    /\ pc[s] \in Opening => target[s] \in Images /\ disk[place[s]] = target[s]
    /\ pc[s] = "running" => image[target[s]] # "torn"
OrphansKept == \A o \in orphans : o.disk \in Kept /\ image[o.disk] # "torn"

(* A disposable overlay lives between its creation and the finally block. *)
TempOwned ==
  \A s \in Sessions :
    temp[s] # None => pc[s] \in {"firmware", "running", "runEnded", "runFailed"}

(* Every file has its own image: no two disks, archives or partial overlays *)
(* share one, and none is free for reuse.                                  *)
DisksApart ==
  /\ \A p \in Places : disk[p] \notin backups
  /\ \A p, q \in Places : disk[p] = disk[q] /\ disk[p] # None => p = q
PartialsApart ==
  /\ \A b \in Builds : partial[b] \notin Kept
  /\ \A b, c \in Builds : partial[b] = partial[c] /\ partial[b] # None => b = c
NothingFree ==
  /\ \A i \in Kept : image[i] # "free"
  /\ \A b \in Builds : partial[b] # None => image[partial[b]] # "free"

(* The owner's data is kept, in files that are whole. *)
OwnedKept == \A i \in owned : i \in Kept /\ image[i] \notin {"torn", "free"}

IInv ==
  /\ TypeOK
  /\ MutexOwner
  /\ PlaceIsBuild
  /\ InPlace
  /\ TargetInPlace
  /\ OrphansKept
  /\ TempOwned
  /\ DisksApart
  /\ PartialsApart
  /\ NothingFree
  /\ OwnedKept

-----------------------------------------------------------------------------
(* Initially there are no files and no processes: the invariant holds. *)
LEMMA InitInvariant == Init => IInv
BY MachineAssumption
   DEF Init, IInv, TypeOK, MutexOwner, PlaceIsBuild, InPlace, TargetInPlace,
       OrphansKept, TempOwned, DisksApart, PartialsApart, NothingFree, OwnedKept,
       Kept, Opening, Critical, BuildLabels, Labels, AllKinds, Places

(* Making the overlay (Initialize-OmarchyMachineFromFactory) keeps the invariant. *)
LEMMA InitializeStep ==
  ASSUME IInv, NEW s \in Sessions,
         \/ InspectOverlay(s) \/ RemoveStalePartial(s)
         \/ PrepareFallback(s) \/ CreatePartial(s) \/ FinishPartial(s)
         \/ CheckPartial(s) \/ MovePartial(s) \/ OpenReceipt(s)
         \/ CloseReceipt(s) \/ AnnounceRunning(s)
  PROVE  IInv'
<1> USE MachineAssumption
    DEF IInv, TypeOK, MutexOwner, PlaceIsBuild, InPlace, TargetInPlace, OrphansKept,
        TempOwned, DisksApart, PartialsApart, NothingFree, OwnedKept, Kept, Opening,
        Critical, BuildLabels, Labels, AllKinds, Places, Goto, files, procs,
        history, bounds
<1>1. CASE InspectOverlay(s)
  BY <1>1 DEF InspectOverlay, InUse
<1>2. CASE RemoveStalePartial(s)
  <2>1. TypeOK' /\ MutexOwner' /\ PlaceIsBuild' /\ TempOwned'
    BY <1>2 DEF RemoveStalePartial, PartialOpen
  <2>2. InPlace'
    BY <1>2 DEF RemoveStalePartial, PartialOpen
  <2>3. TargetInPlace' /\ OrphansKept' /\ DisksApart'
    BY <1>2 DEF RemoveStalePartial, PartialOpen
  <2>4. PartialsApart'
    BY <1>2 DEF RemoveStalePartial, PartialOpen
  <2>5. NothingFree'
    <3>1. /\ disk' = disk /\ backups' = backups
          /\ \A i \in Images : image'[i] = "free" =>
               image[i] = "free" \/ i = partial[place[s]]
      BY <1>2 DEF RemoveStalePartial
    <3>2. \A b \in Builds : partial'[b] # None =>
            /\ partial'[b] = partial[b]
            /\ b = place[s] => image' = image
      BY <1>2 DEF RemoveStalePartial
    <3> QED
      BY <1>2, <3>1, <3>2 DEF RemoveStalePartial
  <2>6. OwnedKept'
    BY <1>2 DEF RemoveStalePartial, PartialOpen
  <2> QED
    BY <2>1, <2>2, <2>3, <2>4, <2>5, <2>6
<1>3. CASE PrepareFallback(s)
  BY <1>3 DEF PrepareFallback
<1>4. CASE CreatePartial(s)
  <2>1. TypeOK' /\ MutexOwner' /\ PlaceIsBuild' /\ InPlace' /\ TempOwned'
    BY <1>4 DEF CreatePartial, Unused
  <2>2. TargetInPlace' /\ OrphansKept' /\ DisksApart'
    BY <1>4 DEF CreatePartial, Unused
  <2>3. PartialsApart'
    BY <1>4 DEF CreatePartial, Unused
  <2>4. NothingFree'
    BY <1>4 DEF CreatePartial, Unused
  <2>5. OwnedKept'
    BY <1>4 DEF CreatePartial, Unused
  <2> QED
    BY <2>1, <2>2, <2>3, <2>4, <2>5
<1>5. CASE FinishPartial(s)
  BY <1>5 DEF FinishPartial, EndCreate, Fault
<1>6. CASE CheckPartial(s)
  BY <1>6 DEF CheckPartial, PartialOpen
<1>7. CASE MovePartial(s)
  <2>1. TypeOK'
    <3>1. /\ disk' \in [Places -> Images \union {None}]
          /\ partial' \in [Builds -> Images \union {None}]
          /\ pc' \in [Sessions -> Labels]
      BY <1>7 DEF MovePartial, MoveOverlay, CanMove
    <3> QED
      BY <1>7, <3>1 DEF MovePartial, MoveOverlay
  <2>5. PlaceIsBuild' /\ TempOwned'
    BY <1>7 DEF MovePartial, MoveOverlay
  <2>9. MutexOwner'
    BY <1>7 DEF MovePartial, MoveOverlay
  <2>6. InPlace'
    BY <1>7 DEF MovePartial, MoveOverlay, CanMove
  <2>2. DisksApart'
    BY <1>7 DEF MovePartial, MoveOverlay, CanMove
  <2>3. TargetInPlace' /\ OrphansKept'
    BY <1>7 DEF MovePartial, MoveOverlay, CanMove
  <2>4. PartialsApart'
    BY <1>7 DEF MovePartial, MoveOverlay, CanMove
  <2>7. NothingFree'
    BY <1>7 DEF MovePartial, MoveOverlay, CanMove
  <2>8. OwnedKept'
    BY <1>7 DEF MovePartial, MoveOverlay, CanMove
  <2> QED
    BY <2>1, <2>2, <2>3, <2>4, <2>5, <2>6, <2>7, <2>8, <2>9
<1>8. CASE OpenReceipt(s)
  BY <1>8 DEF OpenReceipt, ReceiptOpen
<1>9. CASE CloseReceipt(s)
  BY <1>9 DEF CloseReceipt
<1>10. CASE AnnounceRunning(s)
  BY <1>10 DEF AnnounceRunning
<1> QED
  BY <1>1, <1>2, <1>3, <1>4, <1>5, <1>6, <1>7, <1>8, <1>9, <1>10

(* Taking the mutex and running the machine (Run-VM.ps1) keep the invariant. *)
LEMMA RunStep ==
  ASSUME IInv, NEW s \in Sessions,
         \/ OpenMutex(s) \/ WaitOne(s) \/ VerifyDisk(s)
         \/ CreateInPlace(s) \/ FinishInPlace(s) \/ VerifyReceipt(s)
         \/ CreateEphemeral(s) \/ StartQemu(s) \/ GuestWrites(s)
         \/ QemuExits(s) \/ Finally(s) \/ Report(s)
  PROVE  IInv'
<1> USE MachineAssumption
    DEF IInv, TypeOK, MutexOwner, PlaceIsBuild, InPlace, TargetInPlace, OrphansKept,
        TempOwned, DisksApart, PartialsApart, NothingFree, OwnedKept, Kept, Opening,
        Critical, BuildLabels, Labels, AllKinds, Places, Goto, files, procs,
        history, bounds
<1>1. CASE OpenMutex(s)
  BY <1>1 DEF OpenMutex
<1>2. CASE WaitOne(s)
  BY <1>2 DEF WaitOne, MayEnter, Refused, Waiting
<1>3. CASE VerifyDisk(s)
  BY <1>3 DEF VerifyDisk, Verified
<1>4. CASE CreateInPlace(s)
  BY <1>4 DEF CreateInPlace, Unused
<1>5. CASE FinishInPlace(s)
  <2>1. TypeOK' /\ MutexOwner' /\ PlaceIsBuild' /\ TempOwned'
    BY <1>5 DEF FinishInPlace, Fault, Verified
  <2>2. InPlace'
    BY <1>5 DEF FinishInPlace, Fault, Verified
  <2>3. TargetInPlace' /\ OrphansKept'
    BY <1>5 DEF FinishInPlace, Fault, Verified
  <2>4. DisksApart' /\ PartialsApart'
    BY <1>5 DEF FinishInPlace, Fault, Verified
  <2>5. NothingFree' /\ OwnedKept'
    BY <1>5 DEF FinishInPlace, Fault, Verified
  <2> QED
    BY <2>1, <2>2, <2>3, <2>4, <2>5
<1>6. CASE VerifyReceipt(s)
  BY <1>6 DEF VerifyReceipt, Verified
<1>7. CASE CreateEphemeral(s)
  BY <1>7 DEF CreateEphemeral, Fault
<1>8. CASE StartQemu(s)
  BY <1>8 DEF StartQemu, Fault, InUse
<1>9. CASE GuestWrites(s)
  BY <1>9 DEF GuestWrites, WriteTo, RunDisk
<1>10. CASE QemuExits(s)
  BY <1>10 DEF QemuExits, Fault
<1>11. CASE Finally(s)
  BY <1>11 DEF Finally, Discarded, Released
<1>12. CASE Report(s)
  BY <1>12 DEF Report, Exit
<1> QED
  BY <1>1, <1>2, <1>3, <1>4, <1>5, <1>6, <1>7, <1>8, <1>9, <1>10, <1>11, <1>12

(* Archiving the machine (Archive-ActiveMachine.ps1, Reset.ps1) keeps the invariant. *)
LEMMA ArchiveStep ==
  ASSUME IInv, NEW s \in Sessions,
         \/ ArchiveDisk(s) \/ ArchiveReceipt(s) \/ ArchiveVars(s)
         \/ ArchiveFails(s) \/ ArchiveEnds(s)
  PROVE  IInv'
<1> USE MachineAssumption
    DEF IInv, TypeOK, MutexOwner, PlaceIsBuild, InPlace, TargetInPlace, OrphansKept,
        TempOwned, DisksApart, PartialsApart, NothingFree, OwnedKept, Kept, Opening,
        Critical, BuildLabels, Labels, AllKinds, Places, Goto, files, procs,
        history, bounds
<1>1. CASE ArchiveDisk(s)
  BY <1>1 DEF ArchiveDisk, ArchiveFindsDisk, InUse
<1>2. CASE ArchiveReceipt(s)
  BY <1>2 DEF ArchiveReceipt, ReceiptOpen
<1>3. CASE ArchiveVars(s)
  BY <1>3 DEF ArchiveVars, VarsArchived
<1>4. CASE ArchiveFails(s)
  BY <1>4 DEF ArchiveFails
<1>5. CASE ArchiveEnds(s)
  BY <1>5 DEF ArchiveEnds, Exit
<1> QED
  BY <1>1, <1>2, <1>3, <1>4, <1>5

(* So do starting an operation, killing a session and what happens around them. *)
LEMMA EnvironmentStep ==
  ASSUME IInv,
         \/ \E s \in Sessions, k \in Kinds : Start(s, k)
         \/ \E s \in Sessions : Kill(s)
         \/ Environment
         \/ UNCHANGED vars
  PROVE  IInv'
<1> USE MachineAssumption
    DEF IInv, TypeOK, MutexOwner, PlaceIsBuild, InPlace, TargetInPlace, OrphansKept,
        TempOwned, DisksApart, PartialsApart, NothingFree, OwnedKept, Kept, Opening,
        Critical, BuildLabels, Labels, AllKinds, Places, Goto, files, procs,
        history, bounds
<1>1. CASE \E s \in Sessions, k \in Kinds : Start(s, k)
  BY <1>1 DEF Start
<1>2. CASE \E s \in Sessions : Kill(s)
  BY <1>2 DEF Kill, Exit, AfterAbandon, Waiting
<1>3. CASE \E p \in Builds : ActivateFactory(p)
  BY <1>3 DEF ActivateFactory
<1>4. CASE \E o \in orphans : OrphanWrites(o) \/ OrphanExits(o)
  BY <1>4 DEF OrphanWrites, OrphanExits, WriteTo
<1>5. CASE PowerLoss
  BY <1>5 DEF PowerLoss
<1>6. CASE UNCHANGED vars
  BY <1>6 DEF vars
<1> QED
  BY <1>1, <1>2, <1>3, <1>4, <1>5, <1>6 DEF Environment

(* A statement that throws ends its script early and touches no disk. *)
LEMMA ThrowStep ==
  ASSUME IInv, NEW s \in Sessions, Throw(s)
  PROVE  IInv'
<1> USE MachineAssumption
    DEF IInv, TypeOK, MutexOwner, PlaceIsBuild, InPlace, TargetInPlace, OrphansKept,
        TempOwned, DisksApart, PartialsApart, NothingFree, OwnedKept, Kept, Opening,
        Critical, BuildLabels, Labels, AllKinds, Places, Goto, files, procs,
        history, bounds, Fault
<1>1. CASE ExperienceThrows(s)
  BY <1>1 DEF ExperienceThrows
<1>2. CASE RunThrows(s)
  BY <1>2 DEF RunThrows
<1>3. CASE FinallyThrows(s)
  BY <1>3 DEF FinallyThrows, AfterAbandon, Waiting
<1>4. CASE ArchiveThrows(s)
  BY <1>4 DEF ArchiveThrows
<1> QED
  BY <1>1, <1>2, <1>3, <1>4 DEF Throw

LEMMA NextInvariant == IInv /\ [Next]_vars => IInv'
BY InitializeStep, RunStep, ArchiveStep, ThrowStep, EnvironmentStep DEF Next, SessionStep

LEMMA InductiveInvariant == Spec => []IInv
BY InitInvariant, NextInvariant, PTL DEF Spec

-----------------------------------------------------------------------------
(* Every variable keeps its type. *)
THEOREM TypeCorrect == Spec => []TypeOK
<1>1. IInv => TypeOK
  BY DEF IInv
<1> QED
  BY <1>1, InductiveInvariant, PTL

(* At most one session is inside the mutex of Run-VM.ps1 and                 *)
(* Archive-ActiveMachine.ps1, whoever is killed.                            *)
THEOREM Exclusion == Spec => []MutualExclusion
<1>1. IInv => MutualExclusion
  BY DEF IInv, MutexOwner, MutualExclusion
<1> QED
  BY <1>1, InductiveInvariant, PTL

(* Everything a guest wrote to is at a VM path or in Backups. *)
THEOREM OwnerDataSafe == Spec => []OwnerDataKept
<1>1. IInv => OwnerDataKept
  BY DEF IInv, OwnedKept, OwnerDataKept
<1> QED
  BY <1>1, InductiveInvariant, PTL

(* A disposable overlay exists only under its session's mutex. *)
THEOREM EphemeralOwned == Spec => []EphemeralUnderMutex
<1>1. IInv => EphemeralUnderMutex
  BY DEF IInv, TempOwned, MutexOwner, Critical, EphemeralUnderMutex
<1> QED
  BY <1>1, InductiveInvariant, PTL

(* Only four steps move a disk, and none of them drops a complete one. *)
LEMMA StepKeepsMachines ==
  ASSUME IInv, [Next]_vars
  PROVE  {i \in Kept : image[i] # "torn"} \subseteq Kept'
<1> DEFINE Whole == {i \in Kept : image[i] # "torn"}
<1> USE MachineAssumption DEF IInv, TypeOK, Kept, Places, files
<1>1. ASSUME disk' = disk, backups' = backups
      PROVE  Whole \subseteq Kept'
  BY <1>1
<1>2. ASSUME NEW s \in Sessions, MovePartial(s)
      PROVE  Whole \subseteq Kept'
  BY <1>2 DEF MovePartial, MoveOverlay, CanMove, PlaceIsBuild, BuildLabels
<1>3. ASSUME NEW s \in Sessions, CreateInPlace(s)
      PROVE  Whole \subseteq Kept'
  BY <1>3 DEF CreateInPlace, InPlace
<1>4. ASSUME NEW s \in Sessions, FinishInPlace(s)
      PROVE  Whole \subseteq Kept'
  BY <1>4 DEF FinishInPlace, InPlace
<1>5. ASSUME NEW s \in Sessions, ArchiveDisk(s)
      PROVE  Whole \subseteq Kept'
  BY <1>5 DEF ArchiveDisk, ArchiveFindsDisk
<1>6. ASSUME NEW s \in Sessions, SessionStep(s)
      PROVE  Whole \subseteq Kept'
  <2>1. CASE \/ InspectOverlay(s) \/ RemoveStalePartial(s) \/ PrepareFallback(s)
             \/ CreatePartial(s) \/ FinishPartial(s) \/ CheckPartial(s)
             \/ OpenReceipt(s) \/ CloseReceipt(s) \/ AnnounceRunning(s)
    BY <2>1, <1>1 DEF InspectOverlay, RemoveStalePartial, PrepareFallback,
       CreatePartial, FinishPartial, EndCreate, CheckPartial, OpenReceipt,
       CloseReceipt, AnnounceRunning
  <2>2. CASE \/ OpenMutex(s) \/ WaitOne(s) \/ VerifyDisk(s) \/ VerifyReceipt(s)
             \/ CreateEphemeral(s) \/ StartQemu(s) \/ QemuExits(s) \/ Finally(s)
             \/ Report(s) \/ ArchiveReceipt(s) \/ ArchiveVars(s)
             \/ ArchiveFails(s) \/ ArchiveEnds(s)
    BY <2>2, <1>1 DEF OpenMutex, WaitOne, VerifyDisk, VerifyReceipt,
       CreateEphemeral, StartQemu, QemuExits, Finally, Report, ArchiveReceipt,
       ArchiveVars, ArchiveFails, ArchiveEnds
  <2> QED
    BY <1>2, <1>3, <1>4, <1>5, <1>6, <2>1, <2>2 DEF SessionStep
<1>7. CASE \E s \in Sessions, k \in Kinds : Start(s, k)
  BY <1>1, <1>7 DEF Start
<1>8. CASE \E s \in Sessions : Throw(s) \/ GuestWrites(s) \/ Kill(s)
  BY <1>1, <1>8 DEF Throw, ExperienceThrows, RunThrows, FinallyThrows, ArchiveThrows,
     GuestWrites, Kill
<1>9. CASE Environment
  BY <1>1, <1>9 DEF Environment, ActivateFactory, OrphanWrites, OrphanExits, PowerLoss
<1>10. CASE UNCHANGED vars
  BY <1>1, <1>10 DEF vars
<1> QED
  BY <1>6, <1>7, <1>8, <1>9, <1>10 DEF Next

(* No step of any session, no kill and no power loss takes a complete       *)
(* machine away from its owner.                                             *)
THEOREM NeverLost == Spec => MachinesNeverLost
<1>1. IInv /\ [Next]_vars => [{i \in Kept : image[i] # "torn"} \subseteq Kept']_vars
  BY StepKeepsMachines
<1> QED
  BY <1>1, InductiveInvariant, PTL DEF Spec, MachinesNeverLost

(* A session whose QEMU runs on keeps its build and its disk. *)
LEMMA RunningStaysPut ==
  ASSUME IInv, NEW s \in Sessions, NEW t \in Sessions,
         pc[s] = "running", pc'[s] = "running", SessionStep(t)
  PROVE  place'[s] = place[s] /\ target'[s] = target[s]
<1> USE DEF IInv, TypeOK, Goto, Exit
<1>1. CASE \/ InspectOverlay(t) \/ RemoveStalePartial(t) \/ PrepareFallback(t)
           \/ CreatePartial(t) \/ FinishPartial(t) \/ CheckPartial(t)
           \/ MovePartial(t) \/ OpenReceipt(t) \/ CloseReceipt(t)
           \/ AnnounceRunning(t)
  BY <1>1 DEF InspectOverlay, RemoveStalePartial, PrepareFallback, CreatePartial,
              FinishPartial, EndCreate, CheckPartial, MovePartial, MoveOverlay,
              OpenReceipt, CloseReceipt, AnnounceRunning
<1>2. CASE \/ OpenMutex(t) \/ WaitOne(t) \/ VerifyReceipt(t) \/ CreateEphemeral(t)
           \/ FinishInPlace(t) \/ StartQemu(t) \/ QemuExits(t) \/ Finally(t)
           \/ ArchiveReceipt(t) \/ ArchiveVars(t) \/ ArchiveFails(t)
  BY <1>2 DEF OpenMutex, WaitOne, VerifyReceipt, CreateEphemeral, FinishInPlace,
              StartQemu, QemuExits, Finally, ArchiveReceipt, ArchiveVars,
              ArchiveFails
<1>3. CASE VerifyDisk(t) \/ CreateInPlace(t) \/ ArchiveDisk(t)
  BY <1>3 DEF VerifyDisk, CreateInPlace, ArchiveDisk
<1>4. CASE Report(t) \/ ArchiveEnds(t)
  BY <1>4 DEF Report, ArchiveEnds
<1> QED
  BY <1>1, <1>2, <1>3, <1>4 DEF SessionStep

(* The disk of a running machine stays where it is. *)
THEOREM RunningDiskSafe == Spec => RunningDiskStays
<1>1. IInv /\ IInv' /\ [Next]_vars =>
        [\A s \in Sessions : pc[s] = "running" /\ pc'[s] = "running"
          => disk'[place[s]] = target[s]]_vars
  <2> SUFFICES ASSUME IInv, IInv', Next, NEW s \in Sessions,
                      pc[s] = "running", pc'[s] = "running"
               PROVE  disk'[place[s]] = target[s]
    OBVIOUS
  <2>1. disk'[place'[s]] = target'[s]
    BY DEF IInv, TargetInPlace, Opening
  <2>2. place'[s] = place[s] /\ target'[s] = target[s]
    <3> USE DEF IInv, TypeOK, Labels, Goto, Exit, files, procs
    <3>1. CASE \E t \in Sessions, k \in Kinds : Start(t, k)
      BY <3>1 DEF Start
    <3>2. CASE \E t \in Sessions : SessionStep(t)
      BY <3>2, RunningStaysPut
    <3>3. CASE \E t \in Sessions : Throw(t) \/ GuestWrites(t) \/ Kill(t)
      BY <3>3 DEF Throw, ExperienceThrows, RunThrows, FinallyThrows, ArchiveThrows,
         GuestWrites, Kill
    <3>4. CASE Environment
      BY <3>4 DEF Environment, ActivateFactory, OrphanWrites, OrphanExits, PowerLoss
    <3> QED
      BY <3>1, <3>2, <3>3, <3>4 DEF Next
  <2> QED
    BY <2>1, <2>2
<1> QED
  BY <1>1, InductiveInvariant, PTL DEF Spec, RunningDiskStays
-----------------------------------------------------------------------------
(* The undisturbed machine. *)

(* Only a killed session leaves a QEMU behind, and only that writes beneath   *)
(* a disposable overlay.                                                    *)
StableInv == kills = 0 => orphans = {} /\ disturbed = {}

(* Without kills and power losses the fallback's firmware variables go with   *)
(* its disk, unless Reset.ps1 failed between the two.                        *)
Unharmed == kills = 0 /\ losses = 0
Together == Unharmed /\ Fallback \notin parted
FirmwareInv ==
  Together =>
    /\ nvram[Fallback] # None =>
         \/ nvram[Fallback] = disk[Fallback]
         \/ \E s \in Sessions : pc[s] = "archiveVars"
    /\ \A s \in Sessions :
         /\ pc[s] = "creatingInPlace" => nvram[Fallback] = None
         /\ pc[s] = "running" => nvram[place[s]] # None

(* One session: what it moves into place is what it has checked ... *)
OneSession == \A s, t \in Sessions : s = t
CheckedInv ==
  /\ OnlyCheckedOverlays
  /\ \A s \in Sessions :
       pc[s] = "move" /\ partial[place[s]] # None => image[partial[place[s]]] = "checked"

(* ... and a machine without its receipt is about to get it, or failed to. *)
CompleteInv ==
  Unharmed =>
    /\ \A b \in Builds :
         disk[b] # None =>
           \/ receipt[b] = "whole" \/ b \in parted
           \/ \E s \in Sessions : pc[s] \in {"receipt", "receiptOpen"} /\ place[s] = b
    /\ \A s \in Sessions : pc[s] = "archiveReceipt" => disk[place[s]] = None

(* The base of a disposable overlay is its owner's to write to, and it owns   *)
(* the mutex; so nobody does.                                               *)
LEMMA StableStep == IInv /\ StableInv /\ [Next]_vars => StableInv'
<1> SUFFICES ASSUME IInv, StableInv, [Next]_vars PROVE StableInv'
  OBVIOUS
<1> USE DEF StableInv
<1>1. ASSUME NEW s \in Sessions, SessionStep(s)
      PROVE  orphans' = orphans /\ kills' = kills /\ disturbed' \subseteq disturbed
  BY <1>1 DEF InspectOverlay, RemoveStalePartial, PrepareFallback, CreatePartial,
     FinishPartial, EndCreate, CheckPartial, MovePartial, MoveOverlay,
     OpenReceipt, CloseReceipt, AnnounceRunning, OpenMutex, WaitOne, VerifyDisk,
     CreateInPlace, FinishInPlace, VerifyReceipt, CreateEphemeral, StartQemu,
     QemuExits, Finally, Report, ArchiveDisk, ArchiveReceipt, ArchiveVars,
     ArchiveFails, ArchiveEnds, SessionStep, Exit, Goto, Fault, procs, history,
     bounds
<1>2. ASSUME NEW s \in Sessions, GuestWrites(s)
      PROVE  StableInv'
  <2>1. /\ pc[s] = "running" /\ temp[s] = None /\ target[s] # None
        /\ orphans' = orphans /\ kills' = kills
        /\ disturbed' = disturbed \union {t \in Sessions : temp[t] = target[s]}
    BY <1>2 DEF GuestWrites, WriteTo, RunDisk, procs, bounds
  <2>2. \A t \in Sessions : temp[t] # None => t = s
    BY <2>1 DEF IInv, TempOwned, MutexOwner, Critical
  <2> QED
    BY <2>1, <2>2
<1>3. ASSUME NEW s \in Sessions, Kill(s)
      PROVE  kills' # 0
  BY <1>3 DEF Kill, IInv, TypeOK
<1>7. ASSUME NEW s \in Sessions, Throw(s)
      PROVE  orphans' = orphans /\ kills' = kills /\ disturbed' \subseteq disturbed
  BY <1>7 DEF Throw, ExperienceThrows, RunThrows, FinallyThrows, ArchiveThrows, history
<1>4. CASE Environment
  BY <1>4 DEF Environment, ActivateFactory, OrphanWrites, OrphanExits, PowerLoss,
     WriteTo, procs, history, bounds
<1>5. CASE \E s \in Sessions, k \in Kinds : Start(s, k)
  BY <1>5 DEF Start, history, bounds
<1>6. CASE UNCHANGED vars
  BY <1>6 DEF vars, procs, history, bounds
<1> QED
  BY <1>1, <1>2, <1>3, <1>4, <1>5, <1>6, <1>7 DEF Next

(* The steps that neither move a disk nor the firmware variables leave them   *)
(* together.                                                                *)
LEMMA FirmwareFrame ==
  ASSUME IInv, FirmwareInv, UNCHANGED <<nvram, kills, losses>>,
         disk'[Fallback] = disk[Fallback],
         \A s \in Sessions :
           /\ pc[s] = "archiveVars" => pc'[s] = "archiveVars"
           /\ pc'[s] = "creatingInPlace" => pc[s] = "creatingInPlace"
           /\ pc'[s] = "running" => pc[s] = "running" /\ place'[s] = place[s],
         Fallback \in parted => Fallback \in parted'
  PROVE  FirmwareInv'
BY DEF FirmwareInv, Together, Unharmed

(* They stay together in every other step too: the mutex lets nobody start    *)
(* between the archive of the disk and that of the variables.                *)
LEMMA FirmwareStep == IInv /\ FirmwareInv /\ [Next]_vars => FirmwareInv'
<1> SUFFICES ASSUME IInv, FirmwareInv, [Next]_vars PROVE FirmwareInv'
  OBVIOUS
<1> USE MachineAssumption DEF IInv, TypeOK, Places
<1> DEFINE still(r) ==
             /\ pc[r] = "archiveVars" => pc'[r] = "archiveVars"
             /\ pc'[r] = "creatingInPlace" => pc[r] = "creatingInPlace"
             /\ pc'[r] = "running" => pc[r] = "running" /\ place'[r] = place[r]
<1>1. ASSUME NEW s \in Sessions,
             \/ InspectOverlay(s) \/ RemoveStalePartial(s) \/ PrepareFallback(s)
             \/ CreatePartial(s) \/ FinishPartial(s) \/ CheckPartial(s)
             \/ OpenReceipt(s) \/ CloseReceipt(s) \/ AnnounceRunning(s)
      PROVE  FirmwareInv'
  <2>1. UNCHANGED <<parted, nvram, kills, losses, disk>> /\ \A r \in Sessions : still(r)
    BY <1>1 DEF InspectOverlay, RemoveStalePartial, PrepareFallback,
       CreatePartial, FinishPartial, EndCreate, CheckPartial, OpenReceipt,
       CloseReceipt, AnnounceRunning, Goto, Exit, Fault, files, procs, history, bounds
  <2> QED
    BY <2>1, FirmwareFrame
<1>2. ASSUME NEW s \in Sessions,
             \/ OpenMutex(s) \/ WaitOne(s) \/ VerifyDisk(s) \/ VerifyReceipt(s)
             \/ CreateEphemeral(s) \/ QemuExits(s) \/ Finally(s) \/ Report(s)
      PROVE  FirmwareInv'
  <2>1. UNCHANGED <<parted, nvram, kills, losses, disk>> /\ \A r \in Sessions : still(r)
    BY <1>2 DEF OpenMutex, WaitOne, VerifyDisk, VerifyReceipt, CreateEphemeral,
       QemuExits, Finally, Report, Goto, Exit, Fault, files, procs, history, bounds,
       Verified, Refused
  <2> QED
    BY <2>1, FirmwareFrame
<1>3. ASSUME NEW s \in Sessions,
             \/ ArchiveReceipt(s) \/ ArchiveFails(s) \/ ArchiveEnds(s)
             \/ GuestWrites(s)
      PROVE  FirmwareInv'
  <2>1. UNCHANGED <<parted, nvram, kills, losses, disk>> /\ \A r \in Sessions : still(r)
    BY <1>3 DEF ArchiveReceipt, ArchiveFails, ArchiveEnds, GuestWrites, WriteTo,
       Goto, Exit, Fault, files, procs, history, bounds
  <2> QED
    BY <2>1, FirmwareFrame
<1>4. ASSUME NEW s \in Sessions, MovePartial(s)
      PROVE  FirmwareInv'
  <2>1. place[s] # Fallback
    BY <1>4 DEF MovePartial, MoveOverlay, PlaceIsBuild, BuildLabels
  <2>2. /\ UNCHANGED <<parted, nvram, kills, losses>> /\ disk'[Fallback] = disk[Fallback]
        /\ \A r \in Sessions : still(r)
    BY <1>4, <2>1 DEF MovePartial, MoveOverlay, CanMove, Goto, history, bounds
  <2> QED
    BY <2>2, FirmwareFrame
<1>5. ASSUME NEW s \in Sessions, CreateInPlace(s)
      PROVE  FirmwareInv'
  <2>1. \A r \in Sessions : pc[r] # "archiveVars" /\ pc'[r] # "running"
    BY <1>5 DEF CreateInPlace, MutexOwner, Critical, Goto
  <2>2. disk[Fallback] = None
    BY <1>5 DEF CreateInPlace, InPlace
  <2>3. Together => nvram[Fallback] = None
    BY <2>1, <2>2 DEF FirmwareInv
  <2>4. UNCHANGED <<parted, nvram, kills, losses>>
    BY <1>5 DEF CreateInPlace, history, bounds
  <2> QED
    BY <2>1, <2>3, <2>4 DEF FirmwareInv, Together, Unharmed
<1>6. ASSUME NEW s \in Sessions, FinishInPlace(s)
      PROVE  FirmwareInv'
  <2>1. /\ UNCHANGED <<parted, nvram, kills, losses>> /\ pc[s] = "creatingInPlace"
        /\ \A r \in Sessions : pc'[r] # "running"
    BY <1>6 DEF FinishInPlace, MutexOwner, Critical, Goto, Verified, history
  <2>2. Together => nvram[Fallback] = None
    BY <2>1 DEF FirmwareInv
  <2> QED
    BY <2>1, <2>2 DEF FirmwareInv, Together, Unharmed
<1>7. ASSUME NEW s \in Sessions, StartQemu(s)
      PROVE  FirmwareInv'
  <2>1. /\ pc[s] = "firmware" /\ \A r \in Sessions : r # s => pc[r] \notin Critical
        /\ target[s] \in Images /\ disk[place[s]] = target[s]
    BY <1>7 DEF StartQemu, MutexOwner, TargetInPlace, Opening, Critical
  <2>2. /\ nvram' = [nvram EXCEPT ![place[s]] = IF @ = None THEN target[s] ELSE @]
        /\ UNCHANGED <<parted, disk, place, kills, losses>>
        /\ pc' = [pc EXCEPT ![s] = pc'[s]] /\ pc'[s] \in {"running", "runFailed"}
    BY <1>7 DEF StartQemu, Goto, history
  <2>3. nvram'[place[s]] # None
    BY <2>1, <2>2
  <2>4. Together => nvram[Fallback] \in {None, disk[Fallback]}
    BY <2>1 DEF FirmwareInv, Critical
  <2>5. Together => nvram'[Fallback] \in {None, disk[Fallback]}
    BY <2>1, <2>2, <2>4
  <2>6. \A r \in Sessions : pc'[r] # "creatingInPlace" /\ (pc'[r] = "running" => r = s)
    BY <2>1, <2>2 DEF Critical
  <2> QED
    BY <2>2, <2>3, <2>5, <2>6 DEF FirmwareInv, Together, Unharmed
<1>8. ASSUME NEW s \in Sessions, ArchiveDisk(s)
      PROVE  FirmwareInv'
  <2>1. /\ pc[s] = "archive" /\ \A r \in Sessions : r # s => pc[r] \notin Critical
    BY <1>8 DEF ArchiveDisk, MutexOwner, Critical
  <2>2. UNCHANGED <<nvram, kills, losses>> /\ pc' = [pc EXCEPT ![s] = pc'[s]]
    BY <1>8 DEF ArchiveDisk, Goto, history, bounds
  <2>3. /\ pc'[s] \notin {"running", "creatingInPlace"}
        /\ \/ disk'[Fallback] = disk[Fallback] /\ (Fallback \in parted' <=> Fallback \in parted)
           \/ pc'[s] = "archiveVars"
    BY <1>8 DEF ArchiveDisk, ArchiveFindsDisk, Goto
  <2>4. Together => nvram[Fallback] \in {None, disk[Fallback]}
    BY <2>1 DEF FirmwareInv, Critical
  <2>5. \A r \in Sessions : pc'[r] # "creatingInPlace" /\ pc'[r] # "running"
    BY <2>1, <2>2, <2>3 DEF Critical
  <2> QED
    BY <2>2, <2>3, <2>4, <2>5 DEF FirmwareInv, Together, Unharmed
<1>9. ASSUME NEW s \in Sessions, ArchiveVars(s)
      PROVE  FirmwareInv'
  <2>1. \A r \in Sessions : pc'[r] # "running" /\ nvram'[Fallback] = None
    BY <1>9 DEF ArchiveVars, VarsArchived, MutexOwner, Critical, Goto
  <2> QED
    BY <2>1 DEF FirmwareInv
<1>10. CASE \E s \in Sessions, k \in Kinds : Start(s, k)
  <2>1. UNCHANGED <<parted, nvram, kills, losses, disk>> /\ \A r \in Sessions : still(r)
    BY <1>10 DEF Start, Goto, files, history, bounds
  <2> QED
    BY <2>1, FirmwareFrame
<1>11. CASE (\E s \in Sessions : Kill(s)) \/ PowerLoss
  BY <1>11 DEF Kill, PowerLoss, FirmwareInv, Together, Unharmed
<1>12. CASE \/ \E p \in Builds : ActivateFactory(p)
            \/ \E o \in orphans : OrphanWrites(o) \/ OrphanExits(o)
            \/ UNCHANGED vars
  <2>1. UNCHANGED <<parted, nvram, kills, losses, disk, pc, place>>
    BY <1>12 DEF ActivateFactory, OrphanWrites, OrphanExits, WriteTo, vars, files, procs,
       history, bounds
  <2> QED
    BY <2>1, FirmwareFrame
<1>13. ASSUME NEW s \in Sessions, Throw(s)
      PROVE  FirmwareInv'
  <2>1. /\ UNCHANGED <<nvram, kills, losses, disk>>
        /\ Fallback \in parted => Fallback \in parted'
        /\ pc' = [pc EXCEPT ![s] = pc'[s]] /\ place' = place
        /\ pc'[s] \notin {"running", "creatingInPlace"}
        /\ pc[s] = "archiveVars" => Fallback \in parted'
    BY <1>13 DEF Throw, ExperienceThrows, RunThrows, FinallyThrows, ArchiveThrows,
       Goto, files, history
  <2> QED
    BY <2>1, FirmwareFrame DEF FirmwareInv, Together
<1> QED
  BY <1>1, <1>2, <1>3, <1>4, <1>5, <1>6, <1>7, <1>8, <1>9, <1>10, <1>11, <1>12, <1>13
     DEF Next, SessionStep, Environment

(* One session checks what it moves: nobody else is there to replace it in    *)
(* between, and what a killed one left is removed first.                     *)
LEMMA CheckedStep ==
  ASSUME OneSession
  PROVE  IInv /\ CheckedInv /\ [Next]_vars => CheckedInv'
<1> SUFFICES ASSUME IInv, CheckedInv, [Next]_vars PROVE CheckedInv'
  OBVIOUS
<1> USE MachineAssumption DEF IInv, TypeOK, Places, CheckedInv, OnlyCheckedOverlays
<1>1. ASSUME NEW s \in Sessions,
             \/ InspectOverlay(s) \/ PrepareFallback(s) \/ OpenReceipt(s)
             \/ CloseReceipt(s) \/ AnnounceRunning(s) \/ OpenMutex(s)
             \/ WaitOne(s) \/ VerifyDisk(s) \/ VerifyReceipt(s)
             \/ CreateEphemeral(s) \/ StartQemu(s) \/ GuestWrites(s)
             \/ QemuExits(s) \/ Finally(s) \/ Report(s) \/ ArchiveReceipt(s)
             \/ ArchiveVars(s) \/ ArchiveFails(s) \/ ArchiveEnds(s)
             \/ (\E k \in Kinds : Start(s, k)) \/ Throw(s) \/ Kill(s)
      PROVE  CheckedInv'
  <2>1. UNCHANGED <<disk, image>> /\ pc'[s] # "move"
    <3>1. CASE \/ InspectOverlay(s) \/ PrepareFallback(s) \/ OpenReceipt(s)
              \/ CloseReceipt(s) \/ AnnounceRunning(s)
      BY <3>1 DEF InspectOverlay, PrepareFallback, OpenReceipt, CloseReceipt,
         AnnounceRunning, Goto, Exit, files, procs, Verified, Refused
    <3>2. CASE \/ OpenMutex(s) \/ WaitOne(s) \/ VerifyDisk(s) \/ VerifyReceipt(s)
              \/ CreateEphemeral(s)
      BY <3>2 DEF OpenMutex, WaitOne, VerifyDisk, VerifyReceipt, CreateEphemeral,
         Goto, Exit, files, procs, Verified, Refused
    <3>3. CASE \/ StartQemu(s) \/ GuestWrites(s) \/ QemuExits(s) \/ Finally(s)
              \/ Report(s)
      BY <3>3 DEF StartQemu, GuestWrites, QemuExits, Finally, Report, Goto, Exit,
         files, procs, Verified, Refused
    <3>4. CASE \/ ArchiveReceipt(s) \/ ArchiveVars(s) \/ ArchiveFails(s)
              \/ ArchiveEnds(s)
      BY <3>4 DEF ArchiveReceipt, ArchiveVars, ArchiveFails, ArchiveEnds, Goto,
         Exit, files, procs, Verified, Refused
    <3>5. CASE \E k \in Kinds : Start(s, k)
      BY <3>5 DEF Start, Goto, files
    <3>6. CASE Kill(s)
      BY <3>6 DEF Kill, Exit, Goto
    <3>7. CASE Throw(s)
      BY <3>7 DEF Throw, ExperienceThrows, RunThrows, FinallyThrows, ArchiveThrows,
         Goto, files
    <3> QED
      BY <1>1, <3>1, <3>2, <3>3, <3>4, <3>5, <3>6, <3>7
  <2> QED
    BY <2>1 DEF OneSession
<1>2. ASSUME NEW s \in Sessions,
             RemoveStalePartial(s) \/ CreatePartial(s) \/ FinishPartial(s)
      PROVE  CheckedInv'
  <2>1. /\ disk' = disk /\ pc'[s] # "move"
        /\ \A i \in Images : i \in Kept => image'[i] = image[i]
    <3>1. CASE RemoveStalePartial(s)
      BY <3>1 DEF RemoveStalePartial, PartialsApart, Goto
    <3>2. CASE CreatePartial(s)
      BY <3>2 DEF CreatePartial, PartialsApart, NothingFree, Unused, PlaceIsBuild,
         BuildLabels, Goto
    <3>3. CASE FinishPartial(s)
      BY <3>3 DEF FinishPartial, EndCreate, PartialsApart, PlaceIsBuild, BuildLabels, Goto
    <3> QED
      BY <1>2, <3>1, <3>2, <3>3
  <2>2. \A b \in Builds : disk[b] # None => disk[b] \in Kept /\ disk[b] \in Images
    BY DEF Kept
  <2> QED
    BY <2>1, <2>2 DEF OneSession
<1>3. ASSUME NEW s \in Sessions, CheckPartial(s)
      PROVE  CheckedInv'
  <2>1. /\ disk' = disk /\ partial' = partial /\ place' = place
        /\ \A i \in Images : i \in Kept => image'[i] = image[i]
        /\ pc'[s] = "move" => image'[partial[place[s]]] = "checked"
    BY <1>3 DEF CheckPartial, PartialsApart, PlaceIsBuild, BuildLabels, Goto
  <2>2. \A b \in Builds : disk[b] # None => disk[b] \in Kept /\ disk[b] \in Images
    BY DEF Kept
  <2> QED
    BY <2>1, <2>2 DEF OneSession
<1>4. ASSUME NEW s \in Sessions, MovePartial(s)
      PROVE  CheckedInv'
  BY <1>4 DEF MovePartial, MoveOverlay, CanMove, PlaceIsBuild, BuildLabels, Goto,
     OneSession
<1>5. ASSUME NEW s \in Sessions, CreateInPlace(s)
      PROVE  CheckedInv'
  <2>1. /\ \A b \in Builds : disk'[b] = disk[b]
        /\ \A i \in Images : i \in Kept => image'[i] = image[i]
        /\ pc'[s] # "move"
    BY <1>5 DEF CreateInPlace, Unused, NothingFree, Goto
  <2>2. \A b \in Builds : disk[b] # None => disk[b] \in Kept /\ disk[b] \in Images
    BY DEF Kept
  <2> QED
    BY <2>1, <2>2 DEF OneSession
<1>6. ASSUME NEW s \in Sessions, FinishInPlace(s)
      PROVE  CheckedInv'
  <2>1. /\ \A b \in Builds : disk'[b] = disk[b]
        /\ \A i \in Images : i # disk[Fallback] => image'[i] = image[i]
        /\ pc'[s] # "move"
    BY <1>6 DEF FinishInPlace, InPlace, Verified, Goto
  <2>2. \A b \in Builds : disk[b] # None => disk[b] # disk[Fallback] /\ disk[b] \in Images
    BY DEF DisksApart
  <2> QED
    BY <2>1, <2>2 DEF OneSession
<1>7. ASSUME NEW s \in Sessions, ArchiveDisk(s)
      PROVE  CheckedInv'
  BY <1>7 DEF ArchiveDisk, Goto, OneSession
<1>8. CASE PowerLoss
  BY <1>8 DEF PowerLoss
<1>9. CASE \/ \E p \in Builds : ActivateFactory(p)
           \/ \E o \in orphans : OrphanWrites(o) \/ OrphanExits(o)
           \/ UNCHANGED vars
  BY <1>9 DEF ActivateFactory, OrphanWrites, OrphanExits, vars, files, procs
<1> QED
  BY <1>1, <1>2, <1>3, <1>4, <1>5, <1>6, <1>7, <1>8, <1>9
     DEF Next, SessionStep, Environment

(* And it writes the receipt of what it has moved, or takes it away with it. *)
LEMMA CompleteStep ==
  ASSUME OneSession
  PROVE  IInv /\ CompleteInv /\ [Next]_vars => CompleteInv'
<1> SUFFICES ASSUME IInv, CompleteInv, [Next]_vars PROVE CompleteInv'
  OBVIOUS
<1> USE MachineAssumption DEF IInv, TypeOK, Places, CompleteInv, Unharmed
<1>1. ASSUME NEW s \in Sessions,
             \/ InspectOverlay(s) \/ RemoveStalePartial(s) \/ PrepareFallback(s)
             \/ CreatePartial(s) \/ FinishPartial(s) \/ CheckPartial(s)
             \/ AnnounceRunning(s) \/ OpenMutex(s) \/ WaitOne(s) \/ VerifyDisk(s)
             \/ VerifyReceipt(s) \/ CreateEphemeral(s) \/ StartQemu(s)
             \/ GuestWrites(s) \/ QemuExits(s) \/ Finally(s) \/ Report(s)
             \/ ArchiveVars(s) \/ ArchiveFails(s) \/ ArchiveEnds(s)
             \/ \E k \in Kinds : Start(s, k)
      PROVE  CompleteInv'
  <2>1. /\ UNCHANGED <<parted, disk, receipt, kills, losses>>
        /\ pc[s] \notin {"receipt", "receiptOpen"} /\ pc'[s] # "archiveReceipt"
    <3>1. CASE \/ InspectOverlay(s) \/ RemoveStalePartial(s) \/ PrepareFallback(s)
              \/ CreatePartial(s) \/ FinishPartial(s)
      BY <3>1 DEF InspectOverlay, RemoveStalePartial, PrepareFallback,
         CreatePartial, FinishPartial, EndCreate, Goto, Exit, Fault, files, procs,
         history, bounds, Verified, Refused
    <3>2. CASE \/ CheckPartial(s) \/ AnnounceRunning(s) \/ OpenMutex(s)
              \/ WaitOne(s) \/ VerifyDisk(s)
      BY <3>2 DEF CheckPartial, AnnounceRunning, OpenMutex, WaitOne, VerifyDisk,
         Goto, Exit, Fault, files, procs, history, bounds, Verified, Refused
    <3>3. CASE VerifyReceipt(s) \/ CreateEphemeral(s) \/ StartQemu(s) \/ QemuExits(s)
      BY <3>3 DEF VerifyReceipt, CreateEphemeral, StartQemu, QemuExits, Goto, Fault,
         files, procs, history, bounds, Verified
    <3>6. CASE GuestWrites(s)
      BY <3>6 DEF GuestWrites, WriteTo, files, procs, bounds
    <3>4. CASE \/ Finally(s) \/ Report(s) \/ ArchiveVars(s) \/ ArchiveFails(s)
              \/ ArchiveEnds(s)
      BY <3>4 DEF Finally, Report, ArchiveVars, ArchiveFails, ArchiveEnds, Goto,
         Exit, Fault, files, procs, history, bounds, Verified, Refused
    <3>5. CASE \E k \in Kinds : Start(s, k)
      BY <3>5 DEF Start, Goto, Exit, Fault, files, procs, history, bounds
    <3> QED
      BY <1>1, <3>1, <3>2, <3>3, <3>4, <3>5, <3>6
  <2> QED
    BY <2>1 DEF OneSession
<1>2. ASSUME NEW s \in Sessions, MovePartial(s)
      PROVE  CompleteInv'
  BY <1>2 DEF MovePartial, MoveOverlay, CanMove, PlaceIsBuild, BuildLabels, Goto,
     OneSession, history, bounds
<1>3. ASSUME NEW s \in Sessions, OpenReceipt(s) \/ CloseReceipt(s)
      PROVE  CompleteInv'
  BY <1>3 DEF OpenReceipt, CloseReceipt, ReceiptOpen, PlaceIsBuild, BuildLabels, Goto,
     OneSession, history, bounds
<1>4. ASSUME NEW s \in Sessions, CreateInPlace(s) \/ FinishInPlace(s)
      PROVE  CompleteInv'
  <2>1. /\ \A b \in Builds : disk'[b] = disk[b]
        /\ UNCHANGED <<parted, receipt, kills, losses>>
        /\ pc[s] \notin {"receipt", "receiptOpen"} /\ pc'[s] # "archiveReceipt"
    BY <1>4 DEF CreateInPlace, FinishInPlace, Verified, Goto, history, bounds
  <2> QED
    BY <2>1 DEF OneSession
<1>5. ASSUME NEW s \in Sessions, ArchiveDisk(s)
      PROVE  CompleteInv'
  <2>1. /\ \A p \in Places : disk'[p] \in {disk[p], None}
        /\ \A p \in Places : p \in parted => p \in parted' \/ disk'[p] = None
        /\ UNCHANGED <<receipt, kills, losses>>
        /\ pc[s] \notin {"receipt", "receiptOpen"}
        /\ pc'[s] = "archiveReceipt" => disk'[place'[s]] = None
    BY <1>5 DEF ArchiveDisk, ArchiveFindsDisk, Goto, bounds
  <2> QED
    BY <2>1 DEF OneSession
<1>6. ASSUME NEW s \in Sessions, ArchiveReceipt(s)
      PROVE  CompleteInv'
  BY <1>6 DEF ArchiveReceipt, ReceiptOpen, Goto, OneSession, history, bounds
<1>7. CASE (\E s \in Sessions : Kill(s)) \/ PowerLoss
  BY <1>7 DEF Kill, PowerLoss
<1>8. CASE \/ \E p \in Builds : ActivateFactory(p)
           \/ \E o \in orphans : OrphanWrites(o) \/ OrphanExits(o)
           \/ UNCHANGED vars
  BY <1>8 DEF ActivateFactory, OrphanWrites, OrphanExits, WriteTo, vars, files, procs,
       history, bounds
<1>9. ASSUME NEW s \in Sessions, Throw(s)
      PROVE  CompleteInv'
  <2>1. /\ UNCHANGED <<disk, receipt, kills, losses>> /\ parted \subseteq parted'
        /\ pc[s] \in {"receipt", "receiptOpen"} => place[s] \in parted'
        /\ pc' = [pc EXCEPT ![s] = pc'[s]] /\ place' = place
        /\ pc'[s] # "archiveReceipt"
    BY <1>9 DEF Throw, ExperienceThrows, RunThrows, FinallyThrows, ArchiveThrows,
       Goto, files, history
  <2> QED
    BY <2>1 DEF OneSession
<1> QED
  BY <1>1, <1>2, <1>3, <1>4, <1>5, <1>6, <1>7, <1>8, <1>9
     DEF Next, SessionStep, Environment

(* As long as nobody is killed, no guest writes beneath another session's     *)
(* disposable overlay, in whichever order sessions start and end.            *)
THEOREM DisposableSafe == Spec => []DisposableBaseStable
<1>1. Init => StableInv
  BY DEF Init, StableInv
<1>2. StableInv => DisposableBaseStable
  BY DEF StableInv, DisposableBaseStable
<1> QED
  BY <1>1, <1>2, StableStep, InductiveInvariant, PTL DEF Spec

(* However many sessions there are, the fallback machine boots with the       *)
(* firmware variables made for it; a kill or a failure between the two moves  *)
(* of Reset.ps1 is what parts them.                                         *)
THEOREM FirmwareSafe == Spec => [](kills = 0 /\ losses = 0 => FreshFirmware)
<1>1. Init => FirmwareInv
  BY DEF Init, FirmwareInv, Places
<1>2. ASSUME IInv, FirmwareInv, kills = 0, losses = 0 PROVE FreshFirmware
  <2> SUFFICES ASSUME NEW s \in Sessions, pc[s] = "running", place[s] = Fallback
               PROVE  nvram[Fallback] = target[s] \/ Fallback \in parted
    BY DEF FreshFirmware
  <2>1. \A t \in Sessions : pc[t] # "archiveVars"
    BY <1>2 DEF IInv, MutexOwner, Critical
  <2>2. disk[Fallback] = target[s]
    BY <1>2 DEF IInv, TargetInPlace, Opening
  <2> QED
    BY <1>2, <2>1, <2>2 DEF FirmwareInv, Together, Unharmed
<1>3. IInv /\ FirmwareInv => (kills = 0 /\ losses = 0 => FreshFirmware)
  BY <1>2
<1> QED
  BY <1>1, <1>3, FirmwareStep, InductiveInvariant, PTL DEF Spec

(* One session, however often it is killed or loses power and starts again,   *)
(* only ever puts at the VM path what qemu-img check accepted.              *)
THEOREM OverlaysChecked ==
  ASSUME OneSession
  PROVE  Spec => []OnlyCheckedOverlays
<1>1. Init => CheckedInv
  BY DEF Init, CheckedInv, OnlyCheckedOverlays, Places
<1>2. CheckedInv => OnlyCheckedOverlays
  BY DEF CheckedInv
<1> QED
  BY <1>1, <1>2, CheckedStep, InductiveInvariant, PTL DEF Spec

(* "Operations are idempotent": when one session that was not killed rests,   *)
(* every factory machine has its receipt, whatever failed but the write of     *)
(* that receipt itself; MCMachineReopenCrash shows why a kill is excluded.    *)
THEOREM MachineComplete ==
  ASSUME OneSession
  PROVE  Spec => [](kills = 0 /\ losses = 0 => MachineCompleteWhenIdle)
<1>1. Init => CompleteInv
  BY DEF Init, CompleteInv, Places
<1>2. CompleteInv => (kills = 0 /\ losses = 0 => MachineCompleteWhenIdle)
  BY DEF CompleteInv, Unharmed, MachineCompleteWhenIdle
<1> QED
  BY <1>1, <1>2, CompleteStep, InductiveInvariant, PTL DEF Spec

-----------------------------------------------------------------------------
(* The refinement. The private machine is a Vault (see V in Machine): every   *)
(* step of it is a step of the Vault or none, because IInv holds.            *)

(* What V substitutes for the Vault's variables, named for the steps below. *)
Whole == {i \in Kept : image[i] # "torn"}
Open == {[kind |-> kind[s], disk |-> target[s]] : s \in {t \in Sessions : pc[t] = "running"}}

-----------------------------------------------------------------------------
(* The Vault's actions, in the machine's terms. *)

LEMMA Stutters ==
  ASSUME Whole' = Whole, owned' = owned, Open' = Open, orphans' = orphans
  PROVE  UNCHANGED V!vars
BY DEF V!vars, Whole, Open

LEMMA Makes ==
  ASSUME NEW d \in Images, Whole' = Whole \cup {d},
         owned' = owned, Open' = Open, orphans' = orphans
  PROVE  V!Next
<1>1. V!Make(d)
  BY DEF V!Make, Whole, Open
<1> QED
  BY <1>1 DEF V!Next

LEMMA Enters ==
  ASSUME NEW m \in AllKinds, NEW d \in Images, Open = {}, d \in Whole,
         Open' = {[kind |-> m, disk |-> d]},
         Whole' = Whole, owned' = owned, orphans' = orphans
  PROVE  V!Next
<1>1. V!Enter(m, d)
  BY DEF V!Enter, Whole, Open
<1> QED
  BY <1>1 DEF V!Next

LEMMA Writes ==
  ASSUME NEW o \in Open \cup orphans, o.kind = "Persistent",
         owned' = owned \cup {o.disk},
         Whole' = Whole, Open' = Open, orphans' = orphans
  PROVE  V!Next
<1>1. V!Write(o)
  BY DEF V!Write, Whole, Open
<1> QED
  BY <1>1 DEF V!Next, Open

LEMMA Leaves ==
  ASSUME Open' = {}, Whole' = Whole, owned' = owned,
         orphans' = orphans \/ orphans' = orphans \cup Open \/ orphans' = {}
  PROVE  V!Next
<1>1. V!Leave \/ V!Stray \/ V!PowerLoss
  BY DEF V!Leave, V!Stray, V!PowerLoss, Whole, Open
<1> QED
  BY <1>1 DEF V!Next

LEMMA StrayLeaves ==
  ASSUME NEW o \in orphans, orphans' = orphans \ {o},
         Whole' = Whole, owned' = owned, Open' = Open
  PROVE  V!Next
<1>1. V!StrayEnds(o)
  BY DEF V!StrayEnds, Whole, Open
<1> QED
  BY <1>1 DEF V!Next

-----------------------------------------------------------------------------
(* Two sessions do not run at once: each would own the mutex. *)
LEMMA OneRuns ==
  ASSUME IInv, NEW s \in Sessions, pc[s] \in Critical,
         NEW t \in Sessions, pc[t] = "running"
  PROVE  t = s
BY DEF IInv, MutexOwner, Critical

(* Sessions that go on as they are leave Open alone. *)
LEMMA SameOpen ==
  ASSUME \A t \in Sessions : /\ pc'[t] = "running" <=> pc[t] = "running"
                             /\ pc[t] = "running" => kind'[t] = kind[t] /\ target'[t] = target[t]
  PROVE  Open' = Open
BY DEF Open

(* The complete disks stay when no disk moves and no complete file changes.   *)
LEMMA SameWhole ==
  ASSUME disk' = disk, backups' = backups,
         \A i \in Kept : (image'[i] = "torn") <=> (image[i] = "torn")
  PROVE  Whole' = Whole
BY DEF Whole, Kept

(* Steps of a session that the Vault does not see. *)
LEMMA HiddenStep ==
  ASSUME IInv, NEW s \in Sessions,
         \/ InspectOverlay(s) \/ RemoveStalePartial(s) \/ PrepareFallback(s)
         \/ CreatePartial(s) \/ FinishPartial(s) \/ CheckPartial(s)
         \/ OpenReceipt(s) \/ CloseReceipt(s) \/ AnnounceRunning(s)
         \/ OpenMutex(s) \/ WaitOne(s) \/ VerifyDisk(s) \/ VerifyReceipt(s)
         \/ CreateEphemeral(s) \/ Finally(s) \/ Report(s)
         \/ ArchiveReceipt(s) \/ ArchiveVars(s) \/ ArchiveFails(s) \/ ArchiveEnds(s)
  PROVE  UNCHANGED V!vars
<1> USE DEF IInv, TypeOK, Goto, Exit, Labels
<1>1. owned' = owned /\ orphans' = orphans /\ disk' = disk /\ backups' = backups
  BY DEF InspectOverlay, RemoveStalePartial, PrepareFallback, CreatePartial,
         FinishPartial, EndCreate, CheckPartial, OpenReceipt, CloseReceipt,
         AnnounceRunning, OpenMutex, WaitOne, VerifyDisk, VerifyReceipt,
         CreateEphemeral, Finally, Report, ArchiveReceipt, ArchiveVars,
         ArchiveFails, ArchiveEnds, files, history, procs
<1>2. pc[s] # "running" /\ pc'[s] # "running"
  BY DEF InspectOverlay, RemoveStalePartial, PrepareFallback, CreatePartial,
         FinishPartial, EndCreate, CheckPartial, OpenReceipt, CloseReceipt,
         AnnounceRunning, OpenMutex, WaitOne, VerifyDisk, Verified, VerifyReceipt,
         CreateEphemeral, Finally, Report, ArchiveReceipt, ArchiveVars,
         ArchiveFails, ArchiveEnds, Refused
<1>3. \A t \in Sessions \ {s} : pc'[t] = pc[t] /\ kind'[t] = kind[t] /\ target'[t] = target[t]
  BY DEF InspectOverlay, RemoveStalePartial, PrepareFallback, CreatePartial,
         FinishPartial, EndCreate, CheckPartial, OpenReceipt, CloseReceipt,
         AnnounceRunning, OpenMutex, WaitOne, VerifyDisk, VerifyReceipt,
         CreateEphemeral, Finally, Report, ArchiveReceipt, ArchiveVars,
         ArchiveFails, ArchiveEnds
<1>4. \A i \in Kept : (image'[i] = "torn") <=> (image[i] = "torn")
  <2> USE DEF NothingFree, PartialsApart, PlaceIsBuild, BuildLabels, Kept
  <2>1. CASE RemoveStalePartial(s)
    BY <2>1 DEF RemoveStalePartial
  <2>2. CASE CreatePartial(s)
    BY <2>2 DEF CreatePartial, Unused
  <2>3. CASE FinishPartial(s) \/ CheckPartial(s)
    BY <2>3, MachineAssumption DEF FinishPartial, EndCreate, CheckPartial
  <2>4. CASE \/ InspectOverlay(s) \/ PrepareFallback(s) \/ OpenReceipt(s)
             \/ CloseReceipt(s) \/ AnnounceRunning(s) \/ OpenMutex(s) \/ WaitOne(s)
             \/ VerifyDisk(s) \/ VerifyReceipt(s) \/ CreateEphemeral(s) \/ Finally(s)
             \/ Report(s) \/ ArchiveReceipt(s) \/ ArchiveVars(s) \/ ArchiveFails(s)
             \/ ArchiveEnds(s)
    BY <2>4 DEF InspectOverlay, PrepareFallback, OpenReceipt, CloseReceipt,
       AnnounceRunning, OpenMutex, WaitOne, VerifyDisk, VerifyReceipt,
       CreateEphemeral, Finally, Report, ArchiveReceipt, ArchiveVars, ArchiveFails,
       ArchiveEnds, files
  <2> QED
    BY <2>1, <2>2, <2>3, <2>4
<1>5. Open' = Open
  BY <1>2, <1>3, SameOpen
<1>6. Whole' = Whole
  BY <1>1, <1>4, SameWhole
<1> QED
  BY <1>1, <1>5, <1>6, Stutters

(* A failure is not seen either: no disk moves, and nobody who runs throws. *)
LEMMA ThrowHidden ==
  ASSUME IInv, NEW s \in Sessions, Throw(s)
  PROVE  UNCHANGED V!vars
<1> USE DEF IInv, TypeOK, Goto, Throw, ExperienceThrows, RunThrows, FinallyThrows,
        ArchiveThrows
<1>1. /\ owned' = owned /\ orphans' = orphans
      /\ disk' = disk /\ backups' = backups /\ image' = image
  BY DEF files, history
<1>2. /\ pc[s] # "running" /\ pc'[s] # "running"
      /\ \A t \in Sessions \ {s} : pc'[t] = pc[t] /\ kind'[t] = kind[t] /\ target'[t] = target[t]
  OBVIOUS
<1>3. Open' = Open
  BY <1>2, SameOpen
<1> QED
  BY <1>1, <1>3, SameWhole, Stutters

(* Steps that move a disk without completing one, and QEMU's failed start. *)
LEMMA MovingStep ==
  ASSUME IInv, NEW s \in Sessions, CreateInPlace(s) \/ ArchiveDisk(s)
  PROVE  UNCHANGED V!vars
<1> USE DEF IInv, TypeOK, Goto, Labels
<1>1. owned' = owned /\ orphans' = orphans
  BY DEF CreateInPlace, ArchiveDisk, history
<1>2. Open' = Open
  <2>1. pc[s] # "running" /\ pc'[s] # "running"
    BY DEF CreateInPlace, ArchiveDisk
  <2>2. \A t \in Sessions \ {s} : pc'[t] = pc[t] /\ kind'[t] = kind[t] /\ target'[t] = target[t]
    BY DEF CreateInPlace, ArchiveDisk
  <2> QED
    BY <2>1, <2>2, SameOpen
<1>3. CASE CreateInPlace(s)
  <2>1. PICK d \in Unused : /\ disk' = [disk EXCEPT ![Fallback] = d]
                            /\ image' = [image EXCEPT ![d] = "torn"]
    BY <1>3 DEF CreateInPlace
  <2>2. disk[Fallback] = None /\ Fallback \in Places /\ d \in Images /\ image[d] = "free"
    BY <1>3, <2>1 DEF CreateInPlace, InPlace, Places, Unused
  <2>3. d \notin Kept /\ image'[d] = "torn" /\ backups' = backups
    BY <1>3, <2>1, <2>2 DEF CreateInPlace, NothingFree
  <2>4. \A i \in Images \ {d} : (i \in Kept <=> i \in Kept') /\ image'[i] = image[i]
    BY <2>1, <2>2, <2>3, MachineAssumption DEF Kept
  <2>5. Whole' = Whole
    BY <2>2, <2>3, <2>4 DEF Whole, Kept
  <2> QED
    BY <1>1, <1>2, <2>5, Stutters
<1>4. CASE ArchiveDisk(s)
  <2>1. image' = image
    BY <1>4 DEF ArchiveDisk
  <2>2. Kept' = Kept
    BY <1>4, MachineAssumption DEF ArchiveDisk, ArchiveFindsDisk, Kept, Places, DisksApart
  <2>3. Whole' = Whole
    BY <2>1, <2>2 DEF Whole
  <2> QED
    BY <1>1, <1>2, <2>3, Stutters
<1> QED
  BY <1>3, <1>4

(* A checked overlay reaches its path, or an in-place creation ends. *)
LEMMA MakingStep ==
  ASSUME IInv, NEW s \in Sessions, MovePartial(s) \/ FinishInPlace(s)
  PROVE  [V!Next]_(V!vars)
<1> USE DEF IInv, TypeOK, Goto, Labels
<1>1. owned' = owned /\ orphans' = orphans /\ backups' = backups
  BY DEF MovePartial, MoveOverlay, FinishInPlace, history
<1>2. Open' = Open
  <2>1. pc[s] # "running" /\ pc'[s] # "running"
    BY DEF MovePartial, MoveOverlay, FinishInPlace, Verified
  <2>2. \A t \in Sessions \ {s} : pc'[t] = pc[t] /\ kind'[t] = kind[t] /\ target'[t] = target[t]
    BY DEF MovePartial, MoveOverlay, FinishInPlace
  <2> QED
    BY <2>1, <2>2, SameOpen
<1>3. CASE MovePartial(s)
  <2> DEFINE b == place[s]  d == partial[b]
  <2>1. b \in Builds /\ image' = image
    BY <1>3 DEF MovePartial, MoveOverlay, PlaceIsBuild, BuildLabels
  <2>2. CASE ~CanMove(b)
    <3>1. disk' = disk
      BY <1>3, <2>2 DEF MovePartial, MoveOverlay
    <3>2. Whole' = Whole
      BY <1>1, <2>1, <3>1, SameWhole
    <3> QED
      BY <1>1, <1>2, <3>2, Stutters
  <2>3. CASE CanMove(b)
    <3>1. d \in Images /\ disk[b] = None /\ disk' = [disk EXCEPT ![b] = d]
      BY <1>3, <2>1, <2>3 DEF MovePartial, MoveOverlay, CanMove
    <3>2. Kept' = Kept \cup {d}
      BY <1>1, <2>1, <3>1, MachineAssumption DEF Kept, Places
    <3>3. CASE image[d] = "torn"
      <4>1. Whole' = Whole
        BY <2>1, <3>2, <3>3 DEF Whole
      <4> QED
        BY <1>1, <1>2, <4>1, Stutters
    <3>4. CASE image[d] # "torn"
      <4>1. Whole' = Whole \cup {d}
        BY <2>1, <3>2, <3>4 DEF Whole
      <4> QED
        BY <1>1, <1>2, <3>1, <4>1, Makes
    <3> QED
      BY <3>3, <3>4
  <2> QED
    BY <2>2, <2>3
<1>4. CASE FinishInPlace(s)
  <2> DEFINE d == target[s]
  <2>1. /\ d \in Images /\ disk[Fallback] = d /\ image[d] = "torn" /\ Fallback \in Places
        /\ \A p \in Places : disk[p] = d => p = Fallback
        /\ d \notin backups
    BY <1>4, MachineAssumption DEF FinishInPlace, InPlace, DisksApart, Places
  <2>2. CASE image' = [image EXCEPT ![d] = "whole"] /\ disk' = disk
    <3>1. Whole' = Whole \cup {d}
      BY <1>1, <2>1, <2>2 DEF Whole, Kept
    <3> QED
      BY <1>1, <1>2, <2>1, <3>1, Makes
  <2>3. CASE image' = image /\ disk' = disk
    <3>1. Whole' = Whole
      BY <1>1, <2>3, SameWhole
    <3> QED
      BY <1>1, <1>2, <3>1, Stutters
  <2>4. CASE image' = [image EXCEPT ![d] = "free"] /\ disk' = [disk EXCEPT ![Fallback] = None]
    <3>1. Kept' = Kept \ {d}
      BY <1>1, <2>1, <2>4, MachineAssumption DEF Kept
    <3>2. Whole' = Whole
      BY <2>1, <2>4, <3>1 DEF Whole, Kept
    <3> QED
      BY <1>1, <1>2, <3>2, Stutters
  <2> QED
    BY <1>4, <2>2, <2>3, <2>4 DEF FinishInPlace
<1> QED
  BY <1>3, <1>4

-----------------------------------------------------------------------------
(* QEMU starts, ends, writes, or is left alone. *)
LEMMA EnteringStep ==
  ASSUME IInv, NEW s \in Sessions, StartQemu(s)
  PROVE  [V!Next]_(V!vars)
<1> USE DEF IInv, TypeOK, Goto, Labels
<1>1. /\ owned' = owned /\ orphans' = orphans
      /\ disk' = disk /\ backups' = backups /\ image' = image
      /\ pc[s] = "firmware" /\ kind' = kind /\ target' = target
      /\ pc' \in {[pc EXCEPT ![s] = "running"], [pc EXCEPT ![s] = "runFailed"]}
  BY DEF StartQemu, history
<1>2. Whole' = Whole
  BY <1>1, SameWhole
<1>3. CASE pc' = [pc EXCEPT ![s] = "runFailed"]
  <2>1. Open' = Open
    BY <1>1, <1>3, SameOpen
  <2> QED
    BY <1>1, <1>2, <2>1, Stutters
<1>4. CASE pc' = [pc EXCEPT ![s] = "running"]
  <2>1. target[s] \in Whole
    <3>1. target[s] \in Images /\ disk[place[s]] = target[s] /\ place[s] \in Places
      BY <1>1 DEF TargetInPlace, Opening
    <3>2. image[target[s]] # "torn"
      BY <1>1, <1>4 DEF StartQemu
    <3> QED
      BY <3>1, <3>2 DEF Whole, Kept
  <2>2. {t \in Sessions : pc[t] = "running"} = {}
    BY <1>1, OneRuns DEF Critical
  <2>3. {t \in Sessions : pc'[t] = "running"} = {s}
    BY <1>4, <2>2
  <2>4. Open = {} /\ Open' = {[kind |-> kind[s], disk |-> target[s]]}
    BY <1>1, <2>2, <2>3 DEF Open
  <2> QED
    BY <1>1, <1>2, <2>1, <2>4, Enters DEF Whole, Kept
<1> QED
  BY <1>1, <1>3, <1>4

(* The worker of a running session, or its QEMU, is gone: nobody runs. *)
LEMMA NobodyRuns ==
  ASSUME IInv, NEW s \in Sessions, pc[s] = "running",
         \A t \in Sessions \ {s} : pc'[t] = pc[t], pc'[s] # "running"
  PROVE  Open = {[kind |-> kind[s], disk |-> target[s]]} /\ Open' = {}
<1>1. {t \in Sessions : pc[t] = "running"} = {s}
  BY OneRuns DEF Critical
<1>2. {t \in Sessions : pc'[t] = "running"} = {}
  BY <1>1
<1> QED
  BY <1>1, <1>2 DEF Open

(* What Run-VM.ps1 starts is not an archive, and a disposable machine has its    *)
(* overlay before QEMU is started: with IInv this is inductive.               *)
RunLabels == {"verifyDisk", "createInPlace", "creatingInPlace", "verifyReceipt",
              "ephemeral", "firmware", "running"}
ModeOfRun ==
  \A s \in Sessions :
    /\ pc[s] \in RunLabels => kind[s] # "Archive"
    /\ pc[s] \in {"firmware", "running"} /\ kind[s] = "Disposable" => temp[s] # None

LEMMA ModeStep ==
  ASSUME IInv, ModeOfRun, [Next]_vars
  PROVE  ModeOfRun'
<1> USE MachineAssumption
    DEF IInv, TypeOK, ModeOfRun, RunLabels, Goto, Exit, files, procs, Labels
<1>1. ASSUME NEW s \in Sessions,
             \/ InspectOverlay(s) \/ RemoveStalePartial(s) \/ PrepareFallback(s)
             \/ CreatePartial(s) \/ FinishPartial(s) \/ CheckPartial(s)
             \/ MovePartial(s) \/ OpenReceipt(s) \/ CloseReceipt(s) \/ AnnounceRunning(s)
      PROVE  ModeOfRun'
  BY <1>1 DEF InspectOverlay, RemoveStalePartial, PrepareFallback, CreatePartial,
     FinishPartial, EndCreate, CheckPartial, MovePartial, MoveOverlay, OpenReceipt,
     CloseReceipt, AnnounceRunning
<1>2. ASSUME NEW s \in Sessions,
             \/ OpenMutex(s) \/ WaitOne(s) \/ VerifyDisk(s) \/ CreateInPlace(s)
             \/ FinishInPlace(s) \/ VerifyReceipt(s) \/ StartQemu(s) \/ QemuExits(s)
      PROVE  ModeOfRun'
  BY <1>2 DEF OpenMutex, WaitOne, Refused, VerifyDisk, Verified, CreateInPlace,
     FinishInPlace, VerifyReceipt, StartQemu, QemuExits
<1>3. ASSUME NEW s \in Sessions, CreateEphemeral(s)
      PROVE  ModeOfRun'
  BY <1>3 DEF CreateEphemeral, TargetInPlace, Opening
<1>4. ASSUME NEW s \in Sessions,
             \/ Finally(s) \/ Report(s) \/ ArchiveDisk(s) \/ ArchiveReceipt(s)
             \/ ArchiveVars(s) \/ ArchiveFails(s) \/ ArchiveEnds(s)
      PROVE  ModeOfRun'
  BY <1>4 DEF Finally, Report, ArchiveDisk, ArchiveReceipt, ArchiveVars,
     ArchiveFails, ArchiveEnds
<1>5. ASSUME NEW s \in Sessions, (\E k \in Kinds : Start(s, k)) \/ Throw(s) \/ GuestWrites(s) \/ Kill(s)
      PROVE  ModeOfRun'
  <2>1. ASSUME NEW k \in Kinds, Start(s, k) PROVE ModeOfRun'
    BY <2>1 DEF Start
  <2>2. CASE GuestWrites(s)
    BY <2>2 DEF GuestWrites
  <2>3. CASE Kill(s)
    BY <2>3 DEF Kill
  <2>4. CASE Throw(s)
    BY <2>4 DEF Throw, ExperienceThrows, RunThrows, FinallyThrows, ArchiveThrows
  <2> QED
    BY <1>5, <2>1, <2>2, <2>3, <2>4
<1>6. CASE Environment
  BY <1>6 DEF Environment, ActivateFactory, OrphanWrites, OrphanExits, PowerLoss
<1>7. CASE UNCHANGED vars
  BY <1>7 DEF vars
<1> QED
  BY <1>1, <1>2, <1>3, <1>4, <1>5, <1>6, <1>7 DEF Next, SessionStep

LEMMA WritingStep ==
  ASSUME IInv, ModeOfRun, NEW s \in Sessions, GuestWrites(s)
  PROVE  V!Next
<1> USE DEF IInv, TypeOK, files, procs
<1> DEFINE o == [kind |-> kind[s], disk |-> target[s]]
<1>1. pc[s] = "running" /\ temp[s] = None /\ owned' = owned \cup {target[s]}
  BY DEF GuestWrites, RunDisk, WriteTo
<1>2. kind[s] = "Persistent"
  BY <1>1 DEF ModeOfRun, RunLabels, AllKinds
<1>3. o \in Open /\ o.kind = "Persistent" /\ o.disk = target[s]
  BY <1>1, <1>2 DEF Open
<1>4. /\ orphans' = orphans /\ disk' = disk /\ backups' = backups /\ image' = image
      /\ pc' = pc /\ kind' = kind /\ target' = target
  BY DEF GuestWrites
<1>5. Whole' = Whole /\ Open' = Open
  BY <1>4, SameWhole, SameOpen
<1> HIDE DEF o
<1> QED
  BY <1>1, <1>3, <1>4, <1>5, Writes

LEMMA EndingStep ==
  ASSUME IInv, NEW s \in Sessions, QemuExits(s) \/ Kill(s)
  PROVE  [V!Next]_(V!vars)
<1> USE DEF IInv, TypeOK, Goto, Exit, Labels
<1>1. owned' = owned /\ disk' = disk /\ backups' = backups /\ image' = image
  BY DEF QemuExits, Kill, files, history
<1>2. Whole' = Whole
  BY <1>1, SameWhole
<1>3. /\ pc'[s] # "running"
      /\ \A t \in Sessions \ {s} : pc'[t] = pc[t] /\ kind'[t] = kind[t] /\ target'[t] = target[t]
  BY DEF QemuExits, Kill
<1>4. CASE pc[s] = "running"
  <2>1. Open = {[kind |-> kind[s], disk |-> target[s]]} /\ Open' = {}
    BY <1>3, <1>4, NobodyRuns
  <2>2. orphans' = orphans \/ orphans' = orphans \cup Open
    BY <1>4, <2>1 DEF QemuExits, Kill
  <2> QED
    BY <1>1, <1>2, <2>1, <2>2, Leaves
<1>5. CASE pc[s] # "running"
  <2>1. Open' = Open
    BY <1>3, <1>5, SameOpen
  <2>2. orphans' = orphans
    BY <1>5 DEF QemuExits, Kill
  <2> QED
    BY <1>1, <1>2, <2>1, <2>2, Stutters
<1> QED
  BY <1>4, <1>5

LEMMA OutsideStep ==
  ASSUME IInv, Environment \/ (\E s \in Sessions, k \in Kinds : Start(s, k)) \/ UNCHANGED vars
  PROVE  [V!Next]_(V!vars)
<1> USE DEF IInv, TypeOK, Goto, Labels, files, procs, history
<1>1. ASSUME disk' = disk, backups' = backups, image' = image, orphans' = orphans,
             owned' = owned, pc' = pc, kind' = kind, target' = target
      PROVE  UNCHANGED V!vars
  BY <1>1, SameWhole, SameOpen, Stutters
<1>2. CASE UNCHANGED vars \/ \E p \in Builds : ActivateFactory(p)
  BY <1>1, <1>2 DEF vars, ActivateFactory
<1>3. ASSUME NEW s \in Sessions, NEW k \in Kinds, Start(s, k)
      PROVE  UNCHANGED V!vars
  <2>1. /\ disk' = disk /\ backups' = backups /\ image' = image
        /\ owned' = owned /\ orphans' = orphans
    BY <1>3 DEF Start
  <2>2. /\ pc[s] # "running" /\ pc'[s] # "running"
        /\ \A t \in Sessions \ {s} : pc'[t] = pc[t] /\ kind'[t] = kind[t] /\ target'[t] = target[t]
    BY <1>3 DEF Start
  <2> QED
    BY <2>1, <2>2, SameWhole, SameOpen, Stutters
<1>4. ASSUME NEW o \in orphans, OrphanWrites(o) \/ OrphanExits(o)
      PROVE  V!Next
  <2>1. /\ disk' = disk /\ backups' = backups /\ image' = image
        /\ pc' = pc /\ kind' = kind /\ target' = target
    BY <1>4 DEF OrphanWrites, OrphanExits
  <2>2. Whole' = Whole /\ Open' = Open
    BY <2>1, SameWhole, SameOpen
  <2>3. CASE OrphanWrites(o)
    BY <2>2, <2>3, Writes DEF OrphanWrites, WriteTo
  <2>4. CASE OrphanExits(o)
    BY <2>2, <2>4, StrayLeaves DEF OrphanExits
  <2> QED
    BY <1>4, <2>3, <2>4
<1>5. CASE PowerLoss
  <2>1. /\ disk' = disk /\ backups' = backups /\ owned' = owned /\ orphans' = {}
        /\ \A t \in Sessions : pc'[t] = "idle"
    BY <1>5 DEF PowerLoss
  <2>2. \A i \in Kept : (image'[i] = "torn") <=> (image[i] = "torn")
    <3>1. PICK hurt \in SUBSET {i \in Images : OpenForWriting(i)} :
            image' = [i \in Images |-> IF i \in hurt THEN "damaged" ELSE image[i]]
      BY <1>5 DEF PowerLoss
    <3>2. \A i \in Images : OpenForWriting(i) => image[i] # "torn"
      BY MachineAssumption DEF OpenForWriting, RunDisk, TargetInPlace, OrphansKept
    <3> QED
      BY <3>1, <3>2 DEF Kept
  <2>3. Whole' = Whole
    BY <2>1, <2>2, SameWhole
  <2>4. Open' = {}
    BY <2>1 DEF Open
  <2> QED
    BY <2>1, <2>3, <2>4, Leaves
<1> QED
  BY <1>2, <1>3, <1>4, <1>5 DEF Environment

-----------------------------------------------------------------------------
(* Every behaviour of the private machine, with any number of sessions, builds  *)
(* and crashes, is one of the Vault: complete disks only appear and stay, one  *)
(* session enters at a time, and only persistent sessions write to them.      *)
THEOREM Refinement == Spec => ImplementsVault
<1>1. Init => V!Init /\ ModeOfRun
  <2> SUFFICES ASSUME Init PROVE V!Init /\ ModeOfRun
    OBVIOUS
  <2>1. \A s \in Sessions : pc[s] = "idle"
    BY DEF Init
  <2>2. \A i \in Images : image[i] = "free" /\ i \notin Kept
    BY MachineAssumption DEF Init, Kept
  <2>3. {i \in Kept : image[i] # "torn"} = {}
    BY <2>2 DEF Kept
  <2>4. {t \in Sessions : pc[t] = "running"} = {}
    BY <2>1
  <2> QED
    BY <2>1, <2>3, <2>4 DEF Init, V!Init, ModeOfRun, RunLabels
<1>2. IInv /\ ModeOfRun /\ [Next]_vars => ModeOfRun'
  BY ModeStep
<1>3. IInv /\ ModeOfRun /\ [Next]_vars => [V!Next]_(V!vars)
  BY HiddenStep, ThrowHidden, MovingStep, MakingStep, EnteringStep, WritingStep, EndingStep,
     OutsideStep DEF Next, SessionStep
<1> QED
  BY <1>1, <1>2, <1>3, InductiveInvariant, PTL DEF Spec, ImplementsVault, V!Spec
=============================================================================
