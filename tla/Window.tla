-------------------------------- MODULE Window --------------------------------
(***************************************************************************)
(* The native window of Windows Into Omarchy, the hidden PowerShell workers *)
(* it starts and what they share: the journal Experience\progress.json, the *)
(* one-time RunOnce continuation and the Windows hypervisor feature.        *)
(*                                                                         *)
(* A window polls the journal with a timer, whatever its message boxes show *)
(* at the time, and renders the last record when it is newer than the last  *)
(* one it rendered.  Time is abstracted to that comparison: news[w].        *)
(* A worker (Experience.ps1, Enable-Acceleration.ps1 or                     *)
(* Archive-ActiveMachine.ps1) writes records and exits a while after its    *)
(* last one.  What the workers do to the machine and to the factory is in   *)
(* modules Machine and Materializer; here they succeed or fail.             *)
(***************************************************************************)
EXTENDS Naturals, FiniteSets

CONSTANTS
  Windows,      \* native windows
  Jobs,         \* worker processes
  None,         \* no record, no worker, no mutex owner
  HasContract,  \* factory\factory-release.json is beside the app
  Hosts,        \* what the PC may be in this instance
  Features,     \* the initial states of HypervisorPlatform in this instance
  MaxFaults,    \* bound: failures of what the workers call
  MaxKills,     \* bound: workers and windows killed
  MaxRestarts   \* bound: restarts of Windows

AllHosts == {"Unsupported", "NoVirtualization", "Supported"}
AllFeatures == {"Disabled", "EnablePending", "Enabled"}

ASSUME WindowAssumption ==
  /\ None \notin Jobs
  /\ HasContract \in BOOLEAN
  /\ Hosts \subseteq AllHosts
  /\ Features \subseteq AllFeatures
  /\ {MaxFaults, MaxKills, MaxRestarts} \subseteq Nat

(* Records of the journal: a phase, with the action or the recovery code     *)
(* where windows treat one phase in different ways.                         *)
FailedRecords == {"Failed", "EnableFailed", "ArchiveFailed"}
WorkingRecords == {"EnablingAcceleration", "Preparing", "CreatingMachine", "Launching",
                   "Running"}
Records == FailedRecords \union WorkingRecords \union
           {"Checking", "NeedsAcceleration", "AwaitingRestart", "ReadyToPrepare",
            "Ready", "Blocked"}

VARIABLES
  (* The PC. *)
  host,        \* Get-WindowsIntoOmarchyStatus: Host, and firmware virtualization
  feature,     \* HypervisorPlatform
  factory,     \* the factory, or the ISO preparation, is complete
  runOnce,     \* RunOnce\WindowsIntoOmarchyResume, and resume.json
  signIn,      \* Windows is to run the continuation at sign-in
  shutdown,    \* shutdown.exe /r was called
  journal,     \* last record of Experience\progress.json
  mutex,       \* worker inside Local\WindowsIntoOmarchy-VM-v1
  (* The workers. *)
  step,        \* next step of each worker
  action,      \* what it was started for
  outcome,     \* the record it writes last
  (* The windows. *)
  ui,          \* closed, in the message loop, in a handler or in a message box
  clearing,    \* the timer's handler waits for Resume-Registration.ps1 -Mode Clear
  worker,      \* ExperienceController.worker, while it runs
  rendered,    \* last record rendered: the buttons follow it
  local,       \* ShowLocalFailure has replaced it since
  news,        \* the journal against renderedUpdate: "none", or a record that is
               \* "old" (written before ShowLocalFailure reset it) or "new"
  cleared,     \* resumeClearedForFailure
  faults, kills, restarts

pcVars == <<host, feature, factory, runOnce, signIn, shutdown>>
jobVars == <<step, action, outcome>>
uiVars == <<ui, clearing, worker, rendered, local, news, cleared>>
bounds == <<faults, kills, restarts>>
vars == <<pcVars, journal, mutex, jobVars, uiVars, bounds>>

-----------------------------------------------------------------------------
Busy(w) == worker[w] # None

Goto(j, label) == step' = [step EXCEPT ![j] = label]

(* Write-OmarchyExperienceState: every window has news. *)
Write(r) ==
  /\ journal' = r
  /\ news' = [w \in Windows |-> IF ui[w] = "closed" THEN news[w] ELSE "new"]

(* r is the worker's last record. *)
EndWith(j, r) ==
  /\ Goto(j, "report")
  /\ outcome' = [outcome EXCEPT ![j] = r]

Fault == faults < MaxFaults /\ faults' = faults + 1

Init ==
  /\ host \in Hosts
  /\ feature \in Features
  /\ factory \in BOOLEAN
  /\ runOnce = FALSE
  /\ signIn = FALSE
  /\ shutdown = FALSE
  /\ journal = None
  /\ mutex = None
  /\ step = [j \in Jobs |-> "idle"]
  /\ action = [j \in Jobs |-> "Inspect"]
  /\ outcome = [j \in Jobs |-> None]
  /\ ui = [w \in Windows |-> "closed"]
  /\ clearing = [w \in Windows |-> FALSE]
  /\ worker = [w \in Windows |-> None]
  /\ rendered = [w \in Windows |-> None]
  /\ local = [w \in Windows |-> FALSE]
  /\ news = [w \in Windows |-> "none"]
  /\ cleared = [w \in Windows |-> FALSE]
  /\ faults = 0 /\ kills = 0 /\ restarts = 0

-----------------------------------------------------------------------------
(* Experience.ps1. *)

(* Get-WindowsIntoOmarchyStatus: build, architecture and memory. *)
HostReady == host # "Unsupported"

(* Get-WindowsHypervisorState. *)
HypervisorReady == feature = "Enabled" /\ host # "NoVirtualization"

(* The verdict on the PC; Inspect goes on to look for the factory. *)
Verdict(a) ==
  IF ~HostReady \/ (feature = "Enabled" /\ ~HypervisorReady) THEN "Blocked"
  ELSE IF ~HypervisorReady THEN "NeedsAcceleration"
  ELSE IF a # "Inspect" THEN None
  ELSE IF factory THEN "Ready" ELSE "ReadyToPrepare"

CheckPC(j) ==
  /\ step[j] = "status"
  /\ IF Verdict(action[j]) = None
     THEN Goto(j, "clear") /\ UNCHANGED outcome
     ELSE EndWith(j, Verdict(action[j]))
  /\ UNCHANGED <<pcVars, journal, mutex, action, uiVars, bounds>>

(* Mutant: the continuation is not cleared when preparation resumes. *)
NotCleared == runOnce

(* Clear-OmarchyPostRestartResume. *)
Cleared == FALSE

ClearResume(j) ==
  /\ step[j] = "clear"
  /\ runOnce' = Cleared
  /\ Goto(j, "factory")
  /\ UNCHANGED <<host, feature, factory, signIn, shutdown, journal, mutex, action,
                 outcome, uiVars, bounds>>

(* Get-OmarchyActiveFactory: without a contract there is none, and Prepare.ps1 *)
(* runs every time.                                                         *)
FindFactory(j) ==
  /\ step[j] = "factory"
  /\ IF HasContract /\ factory
     THEN Goto(j, "machine") /\ UNCHANGED <<journal, news>>
     ELSE Goto(j, "fetch") /\ Write("Preparing")
  /\ UNCHANGED <<pcVars, mutex, action, outcome, ui, clearing, worker, rendered,
                 local, cleared, bounds>>

(* Materialize-Factory.ps1 reports its progress; Prepare.ps1 does not. *)
FetchProgress(j) ==
  /\ step[j] = "fetch" /\ HasContract
  /\ Write("Preparing")
  /\ UNCHANGED <<pcVars, mutex, jobVars, ui, clearing, worker, rendered, local,
                 cleared, bounds>>

(* Materialize-Factory.ps1, or Prepare.ps1 where there is no contract, ends. *)
FetchEnds(j) ==
  /\ step[j] = "fetch"
  /\ \/ /\ factory' = TRUE
        /\ IF HasContract
           THEN Goto(j, "machine") /\ Write("CreatingMachine")
           ELSE Goto(j, "launch") /\ UNCHANGED <<journal, news>>
        /\ UNCHANGED <<outcome, faults>>
     \/ /\ Fault
        /\ EndWith(j, "Failed")
        /\ UNCHANGED <<factory, journal, news>>
  /\ UNCHANGED <<host, feature, runOnce, signIn, shutdown, mutex, action, ui,
                 clearing, worker, rendered, local, cleared, kills, restarts>>

(* The private machine is found, made or refused: module Machine. *)
InitializeMachine(j) ==
  /\ step[j] = "machine"
  /\ \/ Goto(j, "launch") /\ UNCHANGED <<outcome, faults, journal, news>>
     \/ Goto(j, "launch") /\ Write("CreatingMachine") /\ UNCHANGED <<outcome, faults>>
     \/ EndWith(j, "Failed") /\ Fault /\ UNCHANGED <<journal, news>>
  /\ UNCHANGED <<pcVars, mutex, action, ui, clearing, worker, rendered, local,
                 cleared, kills, restarts>>

(* Launching, and Running before Run-VM.ps1 is even started. *)
Announce(j) ==
  /\ \/ step[j] = "launch" /\ Goto(j, "announce") /\ Write("Launching")
     \/ step[j] = "announce" /\ Goto(j, "enter") /\ Write("Running")
  /\ UNCHANGED <<pcVars, mutex, action, outcome, ui, clearing, worker, rendered,
                 local, cleared, bounds>>

(* Run-VM.ps1 takes the mutex and starts QEMU, or fails. *)
EnterOmarchy(j) ==
  /\ step[j] = "enter"
  /\ \/ mutex = None /\ mutex' = j /\ Goto(j, "running") /\ UNCHANGED <<outcome, faults>>
     \/ mutex # None /\ EndWith(j, "Failed") /\ UNCHANGED <<mutex, faults>>
     \/ Fault /\ EndWith(j, "Failed") /\ UNCHANGED mutex
  /\ UNCHANGED <<pcVars, journal, action, uiVars, kills, restarts>>

LeaveOmarchy(j) ==
  /\ step[j] = "running"
  /\ mutex' = None
  /\ \/ EndWith(j, "Ready") /\ UNCHANGED faults
     \/ EndWith(j, "Failed") /\ Fault
  /\ UNCHANGED <<pcVars, journal, action, uiVars, kills, restarts>>

-----------------------------------------------------------------------------
(* Enable-Acceleration.ps1, elevated. *)

AnnounceEnabling(j) ==
  /\ step[j] = "enable"
  /\ Write("EnablingAcceleration")
  /\ Goto(j, "enabling")
  /\ UNCHANGED <<pcVars, mutex, action, outcome, ui, clearing, worker, rendered,
                 local, cleared, bounds>>

EnableFeature(j) ==
  /\ step[j] = "enabling"
  /\ \/ /\ feature # "Enabled"
        /\ feature' = "EnablePending"
        /\ EndWith(j, "AwaitingRestart")
        /\ UNCHANGED faults
     \/ /\ feature # "EnablePending"
        /\ feature' = "Enabled"
        /\ EndWith(j, "Checking")
        /\ UNCHANGED faults
     \/ /\ Fault
        /\ EndWith(j, "EnableFailed")
        /\ UNCHANGED feature
  /\ UNCHANGED <<host, factory, runOnce, signIn, shutdown, journal, mutex, action,
                 uiVars, kills, restarts>>

(* Archive-ActiveMachine.ps1: Reset.ps1, for a source build, writes nothing. *)
Archive(j) ==
  /\ step[j] = "archive"
  /\ \/ mutex # None /\ EndWith(j, "ArchiveFailed") /\ UNCHANGED <<mutex, faults>>
     \/ Fault /\ EndWith(j, "ArchiveFailed") /\ UNCHANGED mutex
     \/ /\ mutex = None
        /\ mutex' = j
        /\ IF factory /\ HasContract
           THEN EndWith(j, "ReadyToPrepare")
           ELSE Goto(j, "exit") /\ UNCHANGED outcome
        /\ UNCHANGED faults
  /\ UNCHANGED <<pcVars, journal, action, uiVars, kills, restarts>>

(* Mutant: a child script's failure is not journaled. *)
ReportSuccess(j) == outcome[j] # "Failed"

(* The catch blocks journal the failure like any other end. *)
Reported(j) == TRUE

(* The last record of a worker ... *)
Report(j) ==
  /\ step[j] = "report"
  /\ IF Reported(j) THEN Write(outcome[j]) ELSE UNCHANGED <<journal, news>>
  /\ Goto(j, "exit")
  /\ UNCHANGED <<pcVars, mutex, action, outcome, ui, clearing, worker, rendered,
                 local, cleared, bounds>>

(* What is left of worker j when its process is gone. *)
Gone(j) ==
  /\ Goto(j, "idle")
  /\ action' = [action EXCEPT ![j] = "Inspect"]
  /\ outcome' = [outcome EXCEPT ![j] = None]
  /\ mutex' = IF mutex = j THEN None ELSE mutex

(* ... and, a while later, its end. *)
ExitWorker(j) ==
  /\ step[j] = "exit"
  /\ Gone(j)
  /\ worker' = [w \in Windows |-> IF worker[w] = j THEN None ELSE worker[w]]
  /\ UNCHANGED <<pcVars, journal, ui, clearing, rendered, local, news, cleared, bounds>>

-----------------------------------------------------------------------------
(* The window. *)

(* ShowLocalFailure: renderedUpdate = DateTime.MinValue makes whatever the   *)
(* journal holds news again.                                               *)
ShowLocalFailure(w) ==
  /\ local' = [local EXCEPT ![w] = TRUE]
  /\ news' = [news EXCEPT ![w] = IF journal = None THEN "none" ELSE "old"]

(* Mutant: EnsureIdle does not look at the running worker. *)
AlwaysIdle(w) == TRUE

(* EnsureIdle. *)
MayStart(w) == ~Busy(w)

(* StartExperience, ArchiveAndReset, and the elevated helper. *)
StartWorker(w, a) ==
  \E j \in Jobs :
    /\ step[j] = "idle"
    /\ Goto(j, CASE a = "Enable" -> "enable" [] a = "Archive" -> "archive"
                 [] OTHER -> "status")
    /\ action' = [action EXCEPT ![j] = a]
    /\ worker' = [worker EXCEPT ![w] = j]
    /\ UNCHANGED <<outcome, local, news>>

(* A click that starts a worker, or fails because one is running. *)
TryStart(w, a) ==
  \/ MayStart(w) /\ StartWorker(w, a)
  \/ ~MayStart(w) /\ ShowLocalFailure(w) /\ UNCHANGED <<jobVars, worker>>

(* OnLoaded. *)
Load(w, a) ==
  /\ ui[w] = "closed"
  /\ ui' = [ui EXCEPT ![w] = "loop"]
  /\ \E j \in Jobs :
       /\ step[j] = "idle"
       /\ Goto(j, "status")
       /\ action' = [action EXCEPT ![j] = a]
       /\ worker' = [worker EXCEPT ![w] = j]
  /\ news' = [news EXCEPT ![w] = IF journal = None THEN "none" ELSE "new"]
  /\ UNCHANGED <<host, feature, factory, runOnce, shutdown, journal, mutex, outcome,
                 clearing, rendered, local, cleared, bounds>>

(* The user opens the app; at sign-in the continuation comes first. *)
Open(w) == ~signIn /\ Load(w, "Inspect") /\ UNCHANGED signIn

(* Mutant: --resume is ignored. *)
ResumeInspects == "Inspect"

(* App.IsResume. *)
ResumeAction == "PrepareAndLaunch"

Resume(w) == signIn /\ signIn' = FALSE /\ Load(w, ResumeAction)

(* The timer's handler, RefreshState: continue by itself ... *)
Continue(w) ==
  /\ ui[w] # "closed"
  /\ ui[w] \notin {"registering", "approving", "cancelled"} /\ ~clearing[w]
  /\ news[w] # "none"
  /\ journal = "Checking"
  /\ ~Busy(w)
  /\ StartWorker(w, "PrepareAndLaunch")
  /\ UNCHANGED <<pcVars, journal, mutex, ui, clearing, rendered, cleared, bounds>>

(* ... or render the record, and clear the continuation if it is a failed    *)
(* elevation and no worker runs.                                           *)
Render(w) ==
  /\ ui[w] # "closed"
  /\ ui[w] \notin {"registering", "approving", "cancelled"} /\ ~clearing[w]
  /\ news[w] # "none"
  /\ journal # "Checking" \/ Busy(w)
  /\ rendered' = [rendered EXCEPT ![w] = journal]
  /\ local' = [local EXCEPT ![w] = FALSE]
  /\ news' = [news EXCEPT ![w] = "none"]
  /\ LET clear == journal = "EnableFailed" /\ ~Busy(w) /\ ~cleared[w] IN
       /\ clearing' = [clearing EXCEPT ![w] = clear]
       /\ cleared' = [cleared EXCEPT ![w] =
                        journal \in FailedRecords /\ (clear \/ cleared[w])]
  /\ UNCHANGED <<pcVars, journal, mutex, jobVars, ui, worker, bounds>>

(* controller.ClearResume, from the timer's handler. *)
ClearAfterFailure(w) ==
  /\ clearing[w]
  /\ runOnce' = FALSE
  /\ clearing' = [clearing EXCEPT ![w] = FALSE]
  /\ UNCHANGED <<host, feature, factory, signIn, shutdown, journal, mutex, jobVars,
                 ui, worker, rendered, local, news, cleared, bounds>>

(* The phase Primary_Click reads, and whether the button is enabled. *)
Phase(w) == IF local[w] THEN "Failed" ELSE rendered[w]
PrimaryEnabled(w) == Phase(w) \notin WorkingRecords \union {"Checking"}

CanClick(w) == ui[w] = "loop" /\ ~clearing[w]

(* Primary_Click: start a worker. *)
PrimaryStarts(w) ==
  /\ CanClick(w)
  /\ \/ Phase(w) = "ReadyToPrepare" /\ TryStart(w, "PrepareAndLaunch")
     \/ Phase(w) = "Ready" /\ TryStart(w, "Launch")
     \/ Phase(w) \in FailedRecords /\ TryStart(w, "Inspect")
  /\ UNCHANGED <<pcVars, journal, mutex, ui, clearing, rendered, cleared, bounds>>

(* Primary_Click: EnableAcceleration, up to the registration. *)
PrimaryEnables(w) ==
  /\ CanClick(w)
  /\ Phase(w) = "NeedsAcceleration"
  /\ IF MayStart(w)
     THEN ui' = [ui EXCEPT ![w] = "registering"] /\ UNCHANGED <<local, news>>
     ELSE ShowLocalFailure(w) /\ UNCHANGED ui
  /\ UNCHANGED <<pcVars, journal, mutex, jobVars, clearing, worker, rendered, cleared,
                 bounds>>

(* Mutant: the continuation is left to the elevated account. *)
RegisteredElsewhere == runOnce

(* Resume-Registration.ps1 -Mode Register, for the interactive user. *)
Registered == TRUE

Register(w) ==
  /\ ui[w] = "registering"
  /\ \/ /\ runOnce' = Registered
        /\ ui' = [ui EXCEPT ![w] = "approving"]
        /\ UNCHANGED <<faults, local, news>>
     \/ /\ Fault
        /\ ShowLocalFailure(w)
        /\ ui' = [ui EXCEPT ![w] = "loop"]
        /\ UNCHANGED runOnce
  /\ UNCHANGED <<host, feature, factory, signIn, shutdown, journal, mutex, jobVars,
                 clearing, worker, rendered, cleared, kills, restarts>>

(* The elevation prompt is approved, ... *)
Approve(w) ==
  /\ ui[w] = "approving"
  /\ StartWorker(w, "Enable")
  /\ ui' = [ui EXCEPT ![w] = "loop"]
  /\ UNCHANGED <<pcVars, journal, mutex, clearing, rendered, cleared, bounds>>

(* ... or cancelled: Win32Exception 1223, ... *)
Decline(w) ==
  /\ ui[w] = "approving"
  /\ ui' = [ui EXCEPT ![w] = "cancelled"]
  /\ UNCHANGED <<pcVars, journal, mutex, jobVars, clearing, worker, rendered, local,
                 news, cleared, bounds>>

(* ... which clears the continuation. *)
ClearAfterDecline(w) ==
  /\ ui[w] = "cancelled"
  /\ runOnce' = FALSE
  /\ ShowLocalFailure(w)
  /\ ui' = [ui EXCEPT ![w] = "loop"]
  /\ UNCHANGED <<host, feature, factory, signIn, shutdown, journal, mutex, jobVars,
                 clearing, worker, rendered, cleared, bounds>>

(* A click that first asks in a message box. *)
Ask(w) ==
  /\ CanClick(w)
  /\ \/ /\ Phase(w) = "AwaitingRestart"
        /\ ui' = [ui EXCEPT ![w] = "restart?"]
     \/ /\ rendered[w] \in {None, "Ready"}
        /\ ui' = [ui EXCEPT ![w] = "disposable?"]
     \/ /\ rendered[w] \notin WorkingRecords
        /\ ui' = [ui EXCEPT ![w] = "archive?"]
  /\ UNCHANGED <<pcVars, journal, mutex, jobVars, clearing, worker, rendered, local,
                 news, cleared, bounds>>

(* Yes. *)
Accept(w) ==
  /\ ~clearing[w]
  /\ \/ /\ ui[w] = "restart?"
        /\ shutdown' = TRUE
        /\ UNCHANGED <<jobVars, worker, local, news>>
     \/ ui[w] = "disposable?" /\ TryStart(w, "Disposable") /\ UNCHANGED shutdown
     \/ ui[w] = "archive?" /\ TryStart(w, "Archive") /\ UNCHANGED shutdown
  /\ ui' = [ui EXCEPT ![w] = "loop"]
  /\ UNCHANGED <<host, feature, factory, runOnce, signIn, journal, mutex, clearing,
                 rendered, cleared, bounds>>

(* No. *)
Refuse(w) ==
  /\ ui[w] \in {"restart?", "disposable?", "archive?"} /\ ~clearing[w]
  /\ ui' = [ui EXCEPT ![w] = "loop"]
  /\ UNCHANGED <<pcVars, journal, mutex, jobVars, clearing, worker, rendered, local,
                 news, cleared, bounds>>

(* The fields of a window that is gone. *)
Blank(W) ==
  /\ ui' = [w \in Windows |-> IF w \in W THEN "closed" ELSE ui[w]]
  /\ clearing' = [w \in Windows |-> w \notin W /\ clearing[w]]
  /\ worker' = [w \in Windows |-> IF w \in W THEN None ELSE worker[w]]
  /\ rendered' = [w \in Windows |-> IF w \in W THEN None ELSE rendered[w]]
  /\ local' = [w \in Windows |-> w \notin W /\ local[w]]
  /\ news' = [w \in Windows |-> IF w \in W THEN "none" ELSE news[w]]
  /\ cleared' = [w \in Windows |-> w \notin W /\ cleared[w]]

(* OnClosing lets the window close only while no worker runs. *)
Close(w) ==
  /\ CanClick(w)
  /\ ~Busy(w)
  /\ Blank({w})
  /\ UNCHANGED <<pcVars, journal, mutex, jobVars, bounds>>

-----------------------------------------------------------------------------
(* The environment. *)

KillWorker(j) ==
  /\ kills < MaxKills
  /\ kills' = kills + 1
  /\ step[j] # "idle"
  /\ Gone(j)
  /\ worker' = [w \in Windows |-> IF worker[w] = j THEN None ELSE worker[w]]
  /\ UNCHANGED <<pcVars, journal, ui, clearing, rendered, local, news, cleared,
                 faults, restarts>>

(* A window dies; its worker lives on. *)
KillWindow(w) ==
  /\ kills < MaxKills
  /\ kills' = kills + 1
  /\ ui[w] # "closed"
  /\ Blank({w})
  /\ UNCHANGED <<pcVars, journal, mutex, jobVars, faults, restarts>>

(* Windows restarts, asked by the app or not (bounded); at sign-in it takes   *)
(* the continuation from RunOnce.                                          *)
Restart ==
  /\ \/ shutdown /\ UNCHANGED restarts
     \/ ~shutdown /\ restarts < MaxRestarts /\ restarts' = restarts + 1
  /\ shutdown' = FALSE
  /\ feature' = IF feature = "EnablePending" THEN "Enabled" ELSE feature
  /\ signIn' = runOnce
  /\ runOnce' = FALSE
  /\ mutex' = None
  /\ step' = [j \in Jobs |-> "idle"]
  /\ action' = [j \in Jobs |-> "Inspect"]
  /\ outcome' = [j \in Jobs |-> None]
  /\ Blank(Windows)
  /\ UNCHANGED <<host, factory, journal, faults, kills>>

-----------------------------------------------------------------------------
WorkerStep(j) ==
  \/ CheckPC(j) \/ ClearResume(j) \/ FindFactory(j) \/ FetchEnds(j)
  \/ InitializeMachine(j) \/ Announce(j) \/ EnterOmarchy(j) \/ LeaveOmarchy(j)
  \/ AnnounceEnabling(j) \/ EnableFeature(j) \/ Archive(j) \/ Report(j) \/ ExitWorker(j)

Timer(w) == Continue(w) \/ Render(w)

Handlers(w) == Register(w) \/ ClearAfterDecline(w) \/ ClearAfterFailure(w)

User(w) ==
  \/ Open(w) \/ Close(w) \/ PrimaryStarts(w) \/ PrimaryEnables(w)
  \/ Approve(w) \/ Decline(w) \/ Ask(w) \/ Accept(w) \/ Refuse(w)

Next ==
  \/ \E j \in Jobs : WorkerStep(j) \/ FetchProgress(j) \/ KillWorker(j)
  \/ \E w \in Windows : Timer(w) \/ Handlers(w) \/ User(w) \/ Resume(w) \/ KillWindow(w)
  \/ Restart

Spec == Init /\ [][Next]_vars

(* The timer ticks, workers run on (downloads end, the owner leaves Omarchy  *)
(* in the end), and Windows restarts and signs in when asked to.            *)
FairSpec ==
  /\ Spec
  /\ \A j \in Jobs : WF_vars(WorkerStep(j))
  /\ \A w \in Windows : WF_vars(Timer(w)) /\ WF_vars(Handlers(w)) /\ WF_vars(Resume(w))
  /\ WF_vars(shutdown /\ Restart)

-----------------------------------------------------------------------------
(* Properties. *)

Steps == {"idle", "status", "clear", "factory", "fetch", "machine", "launch", "announce",
          "enter", "running", "enable", "enabling", "archive", "report", "exit"}

(* Every variable has its type. *)
TypeOK ==
  /\ host \in AllHosts
  /\ feature \in AllFeatures
  /\ {factory, runOnce, signIn, shutdown} \subseteq BOOLEAN
  /\ journal \in Records \union {None}
  /\ mutex \in Jobs \union {None}
  /\ step \in [Jobs -> Steps]
  /\ action \in [Jobs -> {"Inspect", "PrepareAndLaunch", "Launch", "Disposable", "Enable",
                          "Archive"}]
  /\ outcome \in [Jobs -> Records \union {None}]
  /\ ui \in [Windows -> {"closed", "loop", "registering", "approving", "cancelled",
                         "restart?", "disposable?", "archive?"}]
  /\ clearing \in [Windows -> BOOLEAN]
  /\ worker \in [Windows -> Jobs \union {None}]
  /\ rendered \in [Windows -> Records \union {None}]
  /\ local \in [Windows -> BOOLEAN]
  /\ news \in [Windows -> {"none", "old", "new"}]
  /\ cleared \in [Windows -> BOOLEAN]
  /\ {faults, kills, restarts} \subseteq Nat

(* "Before requesting elevation, the non-elevated app registers a ...        *)
(* continuation", and it is there for as long as the elevated worker runs.  *)
ResumeArmed ==
  \A j \in Jobs : step[j] # "idle" /\ action[j] = "Enable" => runOnce

(* The RunOnce entry "removes itself at the next verified boundary": none is *)
(* left once preparation is under way.                                     *)
ResumeBounded ==
  \A j \in Jobs : step[j] \in {"factory", "fetch", "machine", "launch", "announce",
                               "enter", "running"} => ~runOnce

(* A window never loses track of a worker that runs: OnClosing and           *)
(* EnsureIdle see it until it exits, whatever the timer and the message     *)
(* boxes start in between.                                                 *)
NoWorkerForgotten ==
  [][\A w \in Windows, j \in Jobs :
       worker[w] = j /\ step'[j] # "idle" /\ ui'[w] # "closed" => worker'[w] = j]_vars

(* Types; and while Omarchy runs, the journal says so.                       *)
JournalTellsRunning ==
  TypeOK /\ ((\E j \in Jobs : step[j] = "running") => journal = "Running")

(* A window that shows work in progress stops doing so: in the end there is  *)
(* something to click, unless the last record is Continue, which            *)
(* ContinuesAutomatically is about.                                        *)
WindowAnswers ==
  \A w \in Windows :
    ui[w] # "closed" ~> ui[w] = "closed" \/ PrimaryEnabled(w) \/ journal = "Checking"

(* After the restart the continuation resumes setup on a PC that has it all: *)
(* preparation gets past the host checks without another click, unless that *)
(* click asks for yet another restart.                                      *)
RestartContinues ==
  host = "Supported" /\ signIn /\ feature = "Enabled" ~>
    \/ \E j \in Jobs : action[j] = "PrepareAndLaunch" /\ step[j] = "clear"
    \/ \E w \in Windows : ui[w] = "restart?"

(* Enable-Acceleration.ps1: "Continuing setup automatically."               *)
ContinuesAutomatically ==
  \A w \in Windows :
    ui[w] # "closed" /\ journal = "Checking" ~> ui[w] = "closed" \/ journal # "Checking"
=============================================================================
