---------------------------- MODULE PrepareProofs ----------------------------
(***************************************************************************)
(* Proofs about the fallback, for any number of workers and of installer     *)
(* processes: the cached verdict on the ISO is the one a full hash would     *)
(* give; and for one worker: what it starts elevated is the pinned installer. *)
(***************************************************************************)
EXTENDS Prepare, TLAPS

IInv == TypeOK /\ RecordIsTrue

(* What Test-PinnedFileCached returns is what Test-PinnedFile would, so that  *)
(* what it records is true as well.                                          *)
LEMMA CachedVerdict ==
  ASSUME IInv
  PROVE  /\ IsoReady = Pinned("iso")
         /\ Recorded \in {"none", "valid", "invalid"}
         /\ file["iso"] = "absent" => Recorded = "none"
         /\ Recorded # "none" => (Recorded = "valid") = (file["iso"] = "good")
BY DEF IInv, TypeOK, RecordIsTrue, IsoReady, Pinned, Recorded

(* Nothing is on the disk and nothing is recorded: the invariant holds. *)
LEMMA InitInvariant == Init => IInv
BY PrepareAssumption DEF Init, IInv, TypeOK, RecordIsTrue, Labels, Files, Contents, Pieces

(* The steps that leave the ISO and its record alone. *)
LEMMA QuietStep ==
  ASSUME IInv, NEW m \in Workers,
         \/ FindQemu(m) \/ CheckPayload(m) \/ MoveRuntime(m) \/ CheckFile(m)
         \/ ClearPartial(m) \/ Download(m) \/ VerifyPartial(m) \/ RunInstaller(m)
         \/ CheckInstalled(m) \/ FindInstalled(m) \/ End(m) \/ Kill(m)
  PROVE  IInv'
<1> USE PrepareAssumption DEF IInv, TypeOK, RecordIsTrue, Labels, Files, Contents, Pieces,
        Goto, Fetch, Fault, bounds
<1>1. CASE FindQemu(m) BY <1>1 DEF FindQemu
<1>2. CASE CheckPayload(m) BY <1>2 DEF CheckPayload
<1>3. CASE MoveRuntime(m) BY <1>3 DEF MoveRuntime
<1>4. CASE CheckFile(m) BY <1>4 DEF CheckFile, AfterFile
<1>5. CASE ClearPartial(m) BY <1>5 DEF ClearPartial
<1>6. CASE Download(m) BY <1>6 DEF Download
<1>7. CASE VerifyPartial(m) BY <1>7 DEF VerifyPartial
<1>8. CASE RunInstaller(m) BY <1>8 DEF RunInstaller
<1>9. CASE CheckInstalled(m) BY <1>9 DEF CheckInstalled
<1>10. CASE FindInstalled(m) BY <1>10 DEF FindInstalled
<1>11. CASE End(m) BY <1>11 DEF End
<1>12. CASE Kill(m) BY <1>12 DEF Kill
<1> QED BY <1>1, <1>2, <1>3, <1>4, <1>5, <1>6, <1>7, <1>8, <1>9, <1>10, <1>11, <1>12

(* The steps that ask for the verdict, and record it. *)
LEMMA RecordingStep ==
  ASSUME IInv, NEW m \in Workers, Start(m) \/ Doctor(m) \/ Launch(m)
  PROVE  IInv'
<1>1. /\ record' = Recorded
      /\ UNCHANGED <<runtime, setup, file, partial, at, job, bounds>>
      /\ pc' \in [Workers -> Labels]
  BY DEF Start, Doctor, Launch, Goto, IInv, TypeOK, Labels
<1>2. TypeOK'
  BY <1>1, CachedVerdict DEF IInv, TypeOK, bounds
<1>3. RecordIsTrue'
  BY <1>1, CachedVerdict DEF RecordIsTrue
<1> QED BY <1>2, <1>3 DEF IInv

(* The steps that put another file at the ISO's path, or write to it: they    *)
(* leave no record of what was there.                                        *)
LEMMA ReplacingStep ==
  ASSUME IInv,
         (\E m \in Workers : QuarantineFile(m) \/ PublishFile(m)) \/ Decay
  PROVE  IInv'
<1> USE PrepareAssumption DEF IInv, TypeOK, RecordIsTrue, Labels, Files, Contents, Pieces,
        Goto, bounds, RecordAfter
<1>1. ASSUME NEW m \in Workers, QuarantineFile(m) PROVE IInv'
  BY <1>1 DEF QuarantineFile, Quarantined
<1>2. ASSUME NEW m \in Workers, PublishFile(m) PROVE IInv'
  BY <1>2 DEF PublishFile, AfterFile
<1>3. CASE Decay BY <1>3 DEF Decay
<1> QED BY <1>1, <1>2, <1>3

(* The installer's processes and a power loss do not touch the downloads. *)
LEMMA OutsideStep ==
  ASSUME IInv,
         (\E k \in Setups : SetupWrites(k) \/ SetupEnds(k) \/ SetupFails(k)) \/ PowerLoss
  PROVE  IInv'
<1> USE PrepareAssumption DEF IInv, TypeOK, RecordIsTrue, Labels, Files, Contents, Pieces,
        bounds
<1>1. ASSUME NEW k \in Setups, SetupWrites(k) PROVE IInv'
  BY <1>1 DEF SetupWrites
<1>2. ASSUME NEW k \in Setups, SetupEnds(k) PROVE IInv'
  BY <1>2 DEF SetupEnds
<1>3. ASSUME NEW k \in Setups, SetupFails(k) PROVE IInv'
  BY <1>3 DEF SetupFails
<1>4. CASE PowerLoss BY <1>4 DEF PowerLoss
<1> QED BY <1>1, <1>2, <1>3, <1>4

(* Every step preserves the invariant. *)
LEMMA StepInvariant == IInv /\ [Next]_vars => IInv'
<1>1. IInv /\ Next => IInv'
  BY QuietStep, RecordingStep, ReplacingStep, OutsideStep DEF Next, WorkerStep, SetupStep
<1>2. IInv /\ UNCHANGED vars => IInv'
  BY DEF IInv, TypeOK, RecordIsTrue, vars, bounds
<1> QED BY <1>1, <1>2

(* The invariant holds in every reachable state. *)
LEMMA Inductive == Spec => []IInv
BY InitInvariant, StepInvariant, PTL DEF Spec

(* The variables keep their types, and no verdict outlives its file. *)
THEOREM TypeCorrect == Spec => []TypeOK
<1>1. IInv => TypeOK BY DEF IInv
<1> QED BY <1>1, Inductive, PTL

(* However many workers prepare, launch, are killed or lose power, and         *)
(* whatever is written to the ISO, Test-PinnedFileCached (Common.ps1:134-171)  *)
(* never vouches for an ISO that Test-PinnedFile would refuse, nor refuses a   *)
(* good one.                                                                *)
THEOREM CacheIsTrue == Spec => []RecordIsTrue
<1>1. IInv => RecordIsTrue BY DEF IInv
<1> QED BY <1>1, Inductive, PTL

-----------------------------------------------------------------------------
(* One worker: what it publishes is what it has verified, and the installer   *)
(* it starts is what it has published or found to be good.  Nobody else puts  *)
(* an installer at either path; the ISO's have their own.                    *)
OneWorker == \A m, n \in Workers : m = n

InstallerInv ==
  \A m \in Workers :
    /\ pc[m] = "publish" => partial[at[m]] = "good"
    /\ pc[m] = "install" => file["installer"] = "good"

(* Every step of the worker keeps that up. *)
LEMMA InstallerWorkerStep ==
  ASSUME OneWorker, IInv, InstallerInv, NEW m \in Workers,
         Start(m) \/ WorkerStep(m) \/ Kill(m)
  PROVE  InstallerInv'
<1> USE DEF OneWorker, IInv, TypeOK, InstallerInv, Files, Goto, Fetch
<1>1. CASE \/ Start(m) \/ FindQemu(m) \/ CheckPayload(m) \/ MoveRuntime(m)
           \/ QuarantineFile(m) \/ ClearPartial(m) \/ Download(m) \/ RunInstaller(m)
           \/ CheckInstalled(m) \/ FindInstalled(m) \/ Doctor(m) \/ Launch(m)
           \/ End(m) \/ Kill(m)
  <2>1. pc'[m] \notin {"publish", "install"}
    BY <1>1 DEF Start, FindQemu, CheckPayload, MoveRuntime, QuarantineFile,
       ClearPartial, Download, RunInstaller, CheckInstalled, FindInstalled, Doctor,
       Launch, End, Kill
  <2> QED
    BY <2>1
<1>2. CASE CheckFile(m)
  BY <1>2 DEF CheckFile, AfterFile, Pinned
<1>3. CASE VerifyPartial(m)
  BY <1>3 DEF VerifyPartial, PartialPinned
<1>4. CASE PublishFile(m)
  BY <1>4 DEF PublishFile, AfterFile
<1> QED
  BY <1>1, <1>2, <1>3, <1>4 DEF WorkerStep

(* And nothing around it breaks it. *)
LEMMA InstallerStep ==
  ASSUME OneWorker
  PROVE  IInv /\ InstallerInv /\ [Next]_vars => InstallerInv'
<1> SUFFICES ASSUME IInv, InstallerInv, [Next]_vars PROVE InstallerInv'
  OBVIOUS
<1> USE DEF InstallerInv, IInv, TypeOK
<1>1. ASSUME NEW k \in Setups, SetupStep(k) \/ SetupFails(k)
      PROVE  InstallerInv'
  <2>1. /\ UNCHANGED <<file, partial, at>>
        /\ \A m \in Workers : pc'[m] \in {"publish", "install"} => pc'[m] = pc[m]
    BY <1>1 DEF SetupStep, SetupWrites, SetupEnds, SetupFails
  <2> QED
    BY <2>1
<1>2. CASE PowerLoss
  BY <1>2 DEF PowerLoss
<1>3. CASE Decay
  BY <1>3 DEF Decay, Files
<1>4. CASE UNCHANGED vars
  BY <1>4 DEF vars
<1> QED
  BY <1>1, <1>2, <1>3, <1>4, InstallerWorkerStep DEF Next

(* "Invalid artifacts are never executed": the installer that one worker       *)
(* starts elevated, however often it is killed, loses power, fails to download *)
(* or finds what an earlier installer left, is the pinned one.               *)
THEOREM InstallerVerified ==
  ASSUME OneWorker
  PROVE  Spec => VerifiedInstallerRuns
<1>1. Init => InstallerInv
  BY DEF Init, InstallerInv
<1>2. ASSUME IInv, InstallerInv, [Next]_vars
      PROVE  [\A k \in Setups :
                setup[k] = None /\ setup'[k] # None => file["installer"] = "good"]_vars
  <2> SUFFICES ASSUME NEW k \in Setups, setup[k] = None, setup'[k] # None, Next
               PROVE  file["installer"] = "good"
    BY <1>2
  <2> USE DEF IInv, TypeOK
  <2>1. ASSUME NEW m \in Workers, WorkerStep(m)
        PROVE  pc[m] = "install"
    BY <1>2, <2>1 DEF WorkerStep, FindQemu, CheckPayload, MoveRuntime, CheckFile,
       QuarantineFile, ClearPartial, Download, VerifyPartial, PublishFile,
       RunInstaller, CheckInstalled, FindInstalled, Doctor, Launch, End
  <2>2. \A m \in Workers : ~Start(m) /\ ~Kill(m)
    BY <1>2 DEF Start, Kill
  <2>3. \A j \in Setups : ~SetupStep(j) /\ ~SetupFails(j)
    BY <1>2 DEF SetupStep, SetupWrites, SetupEnds, SetupFails
  <2>4. ~PowerLoss /\ ~Decay
    BY <1>2 DEF PowerLoss, Decay
  <2> QED
    BY <1>2, <2>1, <2>2, <2>3, <2>4 DEF Next, InstallerInv
<1> QED
  BY <1>1, <1>2, InstallerStep, Inductive, PTL DEF Spec, VerifiedInstallerRuns
=============================================================================
