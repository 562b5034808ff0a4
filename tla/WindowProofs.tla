---------------------------- MODULE WindowProofs ----------------------------
(***************************************************************************)
(* Proofs about the window, its workers and the continuation, for any       *)
(* number of worker processes, failures and restarts: a window keeps track  *)
(* of its worker, and while nothing is killed behind the back of the one    *)
(* window, the continuation is there exactly when it is needed and the      *)
(* journal tells when Omarchy runs.                                         *)
(***************************************************************************)
EXTENDS Window, TLAPS

(* The app is one window: what the workers of two windows may do to each     *)
(* other's journal and continuation is not claimed.                         *)
OneWindow == \A v, w \in Windows : v = w

Actions == {"Inspect", "PrepareAndLaunch", "Launch", "Disposable", "Enable", "Archive"}
Dialogs == {"restart?", "disposable?", "archive?"}
Elevating == {"registering", "approving", "cancelled"}

Types ==
  /\ host \in AllHosts
  /\ feature \in AllFeatures
  /\ journal \in Records \union {None}
  /\ mutex \in Jobs \union {None}
  /\ step \in [Jobs -> Steps]
  /\ action \in [Jobs -> Actions]
  /\ outcome \in [Jobs -> Records \union {None}]
  /\ ui \in [Windows -> {"closed", "loop"} \union Elevating \union Dialogs]
  /\ worker \in [Windows -> Jobs \union {None}]
  /\ rendered \in [Windows -> Records \union {None}]
  /\ news \in [Windows -> {"none", "old", "new"}]
  /\ faults \in Nat /\ kills \in Nat /\ restarts \in Nat
Flags ==
  /\ factory \in BOOLEAN /\ runOnce \in BOOLEAN
  /\ signIn \in BOOLEAN /\ shutdown \in BOOLEAN
  /\ clearing \in [Windows -> BOOLEAN]
  /\ local \in [Windows -> BOOLEAN]
  /\ cleared \in [Windows -> BOOLEAN]

(* A window that is closed, asks for elevation or clears the continuation     *)
(* after a failure has no worker.                                           *)
NoWorker ==
  \A w \in Windows :
    /\ ui[w] \in {"closed"} \union Elevating => worker[w] = None
    /\ clearing[w] => worker[w] = None /\ ui[w] \notin {"closed"} \union Elevating

(* The only worker that runs is the window's. *)
Tracked ==
  \A j \in Jobs : step[j] # "idle" => \E w \in Windows : worker[w] = j

(* The elevated worker does nothing else; the continuation is there before. *)
EnableOnly ==
  \A j \in Jobs :
    step[j] # "idle" /\ action[j] = "Enable" =>
      step[j] \in {"enable", "enabling", "report", "exit"}
ArmedBefore == \A w \in Windows : ui[w] = "approving" => runOnce

(* Running is the last record from before Run-VM.ps1 starts until it ends. *)
ToldRunning ==
  \A j \in Jobs : step[j] \in {"enter", "running"} => journal = "Running"

Undisturbed ==
  /\ Tracked
  /\ EnableOnly
  /\ ArmedBefore
  /\ ResumeArmed
  /\ ResumeBounded
  /\ ToldRunning

IInv ==
  /\ Types
  /\ Flags
  /\ NoWorker

AloneInv == IInv /\ (kills = 0 => Undisturbed)
-----------------------------------------------------------------------------
(* Everything is off at first. *)
LEMMA InitInvariant == Init => AloneInv
<1> SUFFICES ASSUME Init PROVE AloneInv
  OBVIOUS
<1>1. Types
  BY WindowAssumption DEF Init, Types, Actions, Steps
<1>2. Flags
  BY Zenon DEF Init, Flags
<1>3. NoWorker
  BY DEF Init, NoWorker, Elevating
<1>4. Undisturbed
  BY DEF Init, Undisturbed, Tracked, EnableOnly, ArmedBefore, ResumeArmed,
     ResumeBounded, ToldRunning
<1> QED
  BY <1>1, <1>2, <1>3, <1>4 DEF AloneInv, IInv

(* A worker's step keeps the types, and windows that wait without a worker. *)
LEMMA WorkerKeeps ==
  ASSUME IInv, NEW j \in Jobs, WorkerStep(j) \/ FetchProgress(j) \/ KillWorker(j)
  PROVE  IInv'
<1> USE DEF IInv, Types, Flags, NoWorker, Steps, Records, FailedRecords,
            WorkingRecords, Actions, AllFeatures, Elevating, Dialogs, Goto, Write,
            EndWith, Fault, pcVars, jobVars, uiVars, bounds
<1>1. CASE CheckPC(j)
  BY <1>1 DEF CheckPC, Verdict
<1>2. CASE ClearResume(j)
  BY <1>2 DEF ClearResume, Cleared
<1>3. CASE FindFactory(j)
  BY <1>3 DEF FindFactory
<1>4. CASE FetchProgress(j)
  BY <1>4 DEF FetchProgress
<1>5. CASE FetchEnds(j)
  <2>1. Types'
    BY <1>5 DEF FetchEnds
  <2>2. Flags'
    BY <1>5 DEF FetchEnds
  <2>3. NoWorker'
    BY <1>5 DEF FetchEnds
  <2> QED
    BY <2>1, <2>2, <2>3
<1>6. CASE InitializeMachine(j)
  BY <1>6 DEF InitializeMachine
<1>7. CASE Announce(j)
  BY <1>7 DEF Announce
<1>8. CASE EnterOmarchy(j)
  BY <1>8 DEF EnterOmarchy
<1>9. CASE LeaveOmarchy(j)
  BY <1>9 DEF LeaveOmarchy
<1>10. CASE AnnounceEnabling(j)
  BY <1>10 DEF AnnounceEnabling
<1>11. CASE EnableFeature(j)
  BY <1>11 DEF EnableFeature
<1>12. CASE Archive(j)
  BY <1>12 DEF Archive
<1>13. CASE Report(j)
  BY <1>13 DEF Report, Reported
<1>14. CASE ExitWorker(j)
  BY <1>14 DEF ExitWorker, Gone
<1>15. CASE KillWorker(j)
  BY <1>15 DEF KillWorker, Gone
<1> QED
  BY <1>1, <1>2, <1>3, <1>4, <1>5, <1>6, <1>7, <1>8, <1>9, <1>10, <1>11, <1>12,
     <1>13, <1>14, <1>15
     DEF WorkerStep

(* A window's step keeps them: each start of a worker finds none, ... *)
LEMMA WindowKeeps ==
  ASSUME IInv, NEW w \in Windows,
         Timer(w) \/ Handlers(w) \/ User(w) \/ Resume(w) \/ KillWindow(w)
  PROVE  IInv'
<1> USE DEF IInv, Types, Flags, NoWorker, Steps, Records, FailedRecords,
            WorkingRecords, Actions, AllFeatures, Elevating, Dialogs, Goto, Fault,
            StartWorker, TryStart, ShowLocalFailure, MayStart, Busy, pcVars,
            jobVars, uiVars, bounds
<1>1. CASE Continue(w)
  BY <1>1 DEF Continue
<1>2. CASE Render(w)
  BY <1>2 DEF Render
<1>3. CASE ClearAfterFailure(w)
  BY <1>3 DEF ClearAfterFailure
<1>4. CASE Open(w)
  BY <1>4 DEF Open, Load
<1>5. CASE Resume(w)
  <2>1. Types'
    BY <1>5 DEF Resume, Load, ResumeAction
  <2>2. Flags'
    BY <1>5 DEF Resume, Load, ResumeAction
  <2>3. NoWorker'
    BY <1>5 DEF Resume, Load, ResumeAction
  <2> QED
    BY <2>1, <2>2, <2>3
<1>6. CASE PrimaryStarts(w)
  <2>1. Types'
    BY <1>6 DEF PrimaryStarts, CanClick
  <2>2. Flags'
    BY <1>6 DEF PrimaryStarts, CanClick
  <2>3. NoWorker'
    BY <1>6 DEF PrimaryStarts, CanClick
  <2> QED
    BY <2>1, <2>2, <2>3
<1>7. CASE PrimaryEnables(w)
  <2>1. Types'
    BY <1>7 DEF PrimaryEnables, CanClick
  <2>2. Flags'
    BY <1>7 DEF PrimaryEnables, CanClick
  <2>3. NoWorker'
    BY <1>7 DEF PrimaryEnables, CanClick
  <2> QED
    BY <2>1, <2>2, <2>3
<1>8. CASE Register(w)
  <2>1. Types'
    BY <1>8 DEF Register, Registered
  <2>2. Flags'
    BY <1>8 DEF Register, Registered
  <2>3. NoWorker'
    BY <1>8 DEF Register, Registered
  <2> QED
    BY <2>1, <2>2, <2>3
<1>9. CASE Approve(w)
  BY <1>9 DEF Approve
<1>10. CASE Decline(w)
  BY <1>10 DEF Decline
<1>11. CASE ClearAfterDecline(w)
  BY <1>11 DEF ClearAfterDecline
<1>12. CASE Ask(w)
  BY <1>12 DEF Ask, CanClick
<1>13. CASE Accept(w)
  <2>1. Types'
    BY <1>13 DEF Accept
  <2>2. Flags'
    BY <1>13 DEF Accept
  <2>3. NoWorker'
    BY <1>13 DEF Accept
  <2> QED
    BY <2>1, <2>2, <2>3
<1>14. CASE Refuse(w)
  BY <1>14 DEF Refuse
<1>15. CASE Close(w)
  <2>1. Types'
    BY <1>15 DEF Close, CanClick, Blank
  <2>2. Flags'
    BY <1>15 DEF Close, CanClick, Blank
  <2>3. NoWorker'
    BY <1>15 DEF Close, CanClick, Blank
  <2> QED
    BY <2>1, <2>2, <2>3
<1>16. CASE KillWindow(w)
  <2>1. Types'
    BY <1>16 DEF KillWindow, Blank
  <2>2. Flags'
    BY <1>16 DEF KillWindow, Blank
  <2>3. NoWorker'
    BY <1>16 DEF KillWindow, Blank
  <2> QED
    BY <2>1, <2>2, <2>3
<1> QED
  BY <1>1, <1>2, <1>3, <1>4, <1>5, <1>6, <1>7, <1>8, <1>9, <1>10, <1>11, <1>12,
     <1>13, <1>14, <1>15, <1>16
     DEF Timer, Handlers, User

(* ... and so does a restart of Windows. *)
LEMMA RestartKeeps == IInv /\ Restart => IInv'
<1> SUFFICES ASSUME IInv, Restart PROVE IInv'
  OBVIOUS
<1> USE DEF IInv, Restart, Blank
<1>1. Types'
  BY DEF Types, Steps, Actions, AllFeatures, Elevating, Dialogs
<1>2. Flags'
  BY DEF Types, Flags
<1>3. NoWorker'
  BY DEF Types, Flags, NoWorker, Elevating
<1> QED
  BY <1>1, <1>2, <1>3

(* With one window, one worker runs at most, ... *)
LEMMA OneWorker ==
  ASSUME OneWindow, Tracked, NEW j \in Jobs, step[j] # "idle", NEW k \in Jobs, k # j
  PROVE  step[k] = "idle"
BY DEF OneWindow, Tracked

(* ... and none while its window has none. *)
LEMMA NobodyRuns ==
  ASSUME OneWindow, Tracked, NEW w \in Windows, worker[w] = None
  PROVE  \A j \in Jobs : step[j] = "idle"
BY WindowAssumption DEF OneWindow, Tracked

(* The one worker's steps: the elevated one leaves the continuation alone, the *)
(* others clear it before they prepare, and only that one writes.            *)
LEMMA WorkerUndisturbed ==
  ASSUME OneWindow, IInv, Undisturbed, kills = 0, kills' = 0, NEW j \in Jobs, WorkerStep(j) \/ FetchProgress(j) \/ KillWorker(j)
  PROVE  Undisturbed'
<1>0. step[j] # "idle" => /\ \A k \in Jobs : k # j => step[k] = "idle"
                          /\ \A w \in Windows : worker[w] # None
  BY OneWorker, NobodyRuns DEF Undisturbed
<1> USE DEF OneWindow, Undisturbed, Tracked, EnableOnly, ArmedBefore, ResumeArmed,
            ResumeBounded, ToldRunning, IInv, Types, Flags, NoWorker, Elevating,
            Dialogs, Goto, Write, EndWith, Fault, pcVars, jobVars, uiVars, bounds
<1>1. CASE CheckPC(j)
  BY <1>1, <1>0 DEF CheckPC, Verdict
<1>2. CASE ClearResume(j)
  BY <1>2, <1>0 DEF ClearResume, Cleared
<1>3. CASE FindFactory(j)
  BY <1>3, <1>0 DEF FindFactory
<1>4. CASE FetchProgress(j)
  BY <1>4, <1>0 DEF FetchProgress
<1>5. CASE FetchEnds(j)
  BY <1>5, <1>0 DEF FetchEnds
<1>6. CASE InitializeMachine(j)
  BY <1>6, <1>0 DEF InitializeMachine
<1>7. CASE Announce(j)
  BY <1>7, <1>0 DEF Announce
<1>8. CASE EnterOmarchy(j)
  BY <1>8, <1>0 DEF EnterOmarchy
<1>9. CASE LeaveOmarchy(j)
  BY <1>9, <1>0 DEF LeaveOmarchy
<1>10. CASE AnnounceEnabling(j)
  BY <1>10, <1>0 DEF AnnounceEnabling
<1>11. CASE EnableFeature(j)
  BY <1>11, <1>0 DEF EnableFeature
<1>12. CASE Archive(j)
  BY <1>12, <1>0 DEF Archive
<1>13. CASE Report(j)
  BY <1>13, <1>0 DEF Report, Reported
<1>14. CASE ExitWorker(j)
  BY <1>14, <1>0 DEF ExitWorker, Gone
<1>15. CASE KillWorker(j)
  BY <1>15, <1>0 DEF KillWorker, Gone
<1> QED
  BY <1>1, <1>2, <1>3, <1>4, <1>5, <1>6, <1>7, <1>8, <1>9, <1>10, <1>11, <1>12,
     <1>13, <1>14, <1>15
     DEF WorkerStep

(* The window's steps: they start a worker, and clear or register the          *)
(* continuation, only while none runs.                                       *)
LEMMA WindowUndisturbed ==
  ASSUME OneWindow, IInv, Undisturbed, kills = 0, kills' = 0, NEW w \in Windows,
         Timer(w) \/ Handlers(w) \/ User(w) \/ Resume(w) \/ KillWindow(w)
  PROVE  Undisturbed'
<1>0. worker[w] = None => \A k \in Jobs : step[k] = "idle"
  BY NobodyRuns DEF Undisturbed
<1> USE DEF OneWindow, Undisturbed, Tracked, EnableOnly, ArmedBefore, ResumeArmed,
            ResumeBounded, ToldRunning, IInv, Types, Flags, NoWorker, Elevating,
            Dialogs, Goto, Fault, StartWorker, TryStart, ShowLocalFailure,
            MayStart, Busy, pcVars, jobVars, uiVars, bounds
<1>1. CASE Continue(w)
  BY <1>1, <1>0 DEF Continue
<1>2. CASE Render(w)
  BY <1>2, <1>0 DEF Render
<1>3. CASE ClearAfterFailure(w)
  BY <1>3, <1>0 DEF ClearAfterFailure
<1>4. CASE Open(w)
  BY <1>4, <1>0 DEF Open, Load
<1>5. CASE Resume(w)
  BY <1>5, <1>0 DEF Resume, Load, ResumeAction
<1>6. CASE PrimaryStarts(w)
  BY <1>6, <1>0 DEF PrimaryStarts, CanClick
<1>7. CASE PrimaryEnables(w)
  BY <1>7, <1>0 DEF PrimaryEnables, CanClick
<1>8. CASE Register(w)
  BY <1>8, <1>0 DEF Register, Registered
<1>9. CASE Approve(w)
  BY <1>9, <1>0 DEF Approve
<1>10. CASE Decline(w)
  BY <1>10, <1>0 DEF Decline
<1>11. CASE ClearAfterDecline(w)
  BY <1>11, <1>0 DEF ClearAfterDecline
<1>12. CASE Ask(w)
  BY <1>12, <1>0 DEF Ask, CanClick
<1>13. CASE Accept(w)
  BY <1>13, <1>0 DEF Accept
<1>14. CASE Refuse(w)
  BY <1>14, <1>0 DEF Refuse
<1>15. CASE Close(w)
  BY <1>15, <1>0 DEF Close, CanClick, Blank
<1>16. CASE KillWindow(w)
  BY <1>16, <1>0 DEF KillWindow, Blank
<1> QED
  BY <1>1, <1>2, <1>3, <1>4, <1>5, <1>6, <1>7, <1>8, <1>9, <1>10, <1>11, <1>12,
     <1>13, <1>14, <1>15, <1>16
     DEF Timer, Handlers, User

(* Every step keeps the invariant. *)
LEMMA NextStep == IInv /\ [Next]_vars => IInv'
<1> SUFFICES ASSUME IInv, [Next]_vars PROVE IInv'
  OBVIOUS
<1>1. CASE UNCHANGED vars
  BY <1>1 DEF vars, pcVars, jobVars, uiVars, bounds, IInv, Types, Flags, NoWorker
<1>2. CASE Next
  BY <1>2, WorkerKeeps, WindowKeeps, RestartKeeps DEF Next
<1> QED
  BY <1>1, <1>2

LEMMA NextUndisturbed ==
  ASSUME OneWindow, AloneInv, [Next]_vars
  PROVE  AloneInv'
<1>1. IInv'
  BY NextStep DEF AloneInv
<1> SUFFICES ASSUME kills' = 0 PROVE Undisturbed'
  BY <1>1 DEF AloneInv
<1>2. kills = 0
  <2>1. kills \in Nat
    BY DEF AloneInv, IInv, Types
  <2>2. CASE UNCHANGED vars
    BY <2>2 DEF vars, bounds
  <2>3. ASSUME NEW j \in Jobs, WorkerStep(j) \/ FetchProgress(j) \/ KillWorker(j)
        PROVE  kills' \in {kills, kills + 1}
    BY <2>3
       DEF WorkerStep, CheckPC, ClearResume, FindFactory, FetchEnds, InitializeMachine,
           Announce, EnterOmarchy, LeaveOmarchy, AnnounceEnabling, EnableFeature,
           Archive, Report, ExitWorker, FetchProgress, KillWorker, bounds
  <2>4. ASSUME NEW w \in Windows,
               Timer(w) \/ Handlers(w) \/ User(w) \/ Resume(w) \/ KillWindow(w)
        PROVE  kills' \in {kills, kills + 1}
    BY <2>4
       DEF Timer, Handlers, User, Continue, Render, Register, ClearAfterDecline,
           ClearAfterFailure, Open, Load, Close, PrimaryStarts, PrimaryEnables, Approve,
           Decline, Ask, Accept, Refuse, Resume, KillWindow, bounds
  <2>5. kills' \in {kills, kills + 1}
    BY <2>2, <2>3, <2>4 DEF Next, Restart
  <2> QED
    BY <2>1, <2>5
<1>3. IInv /\ Undisturbed
  BY <1>2 DEF AloneInv
<1>4. CASE UNCHANGED vars
  BY <1>3, <1>4
     DEF vars, pcVars, jobVars, uiVars, bounds, Undisturbed, Tracked, EnableOnly,
         ArmedBefore, ResumeArmed, ResumeBounded, ToldRunning
<1>5. CASE Restart
  BY <1>3, <1>5
     DEF Restart, Blank, Undisturbed, Tracked, EnableOnly, ArmedBefore, ResumeArmed,
         ResumeBounded, ToldRunning
<1> QED
  BY <1>2, <1>3, <1>4, <1>5, WorkerUndisturbed, WindowUndisturbed DEF Next

LEMMA Invariance == Spec => []IInv
<1>1. Init => IInv
  BY InitInvariant DEF AloneInv
<1> QED
  BY <1>1, NextStep, PTL DEF Spec

LEMMA AloneInvariance ==
  ASSUME OneWindow
  PROVE  Spec => []AloneInv
<1>1. AloneInv /\ [Next]_vars => AloneInv'
  BY NextUndisturbed
<1> QED
  BY <1>1, InitInvariant, PTL DEF Spec

-----------------------------------------------------------------------------
(* The variables keep their types, whatever is killed and however many        *)
(* windows are open.                                                        *)
THEOREM TypeCorrect == Spec => []TypeOK
<1>1. IInv => TypeOK
  <2> SUFFICES ASSUME IInv PROVE TypeOK
    OBVIOUS
  <2>1. {factory, runOnce, signIn, shutdown} \subseteq BOOLEAN
    BY Zenon DEF IInv, Flags
  <2>2. {faults, kills, restarts} \subseteq Nat
    BY DEF IInv, Types
  <2> QED
    BY <2>1, <2>2 DEF IInv, Types, Flags, TypeOK, Actions, Elevating, Dialogs
<1> QED
  BY <1>1, Invariance, PTL

(* The continuation is registered for as long as the elevated worker runs,     *)
(* however setup was interrupted before; killing the window that started the   *)
(* worker is what it does not survive.                                       *)
THEOREM ContinuationArmed ==
  ASSUME OneWindow
  PROVE  Spec => [](kills = 0 => ResumeArmed)
<1>1. AloneInv => (kills = 0 => ResumeArmed)
  BY DEF AloneInv, Undisturbed
<1> QED
  BY <1>1, AloneInvariance, PTL

(* No continuation is left once preparation is under way. *)
THEOREM ContinuationBounded ==
  ASSUME OneWindow
  PROVE  Spec => [](kills = 0 => ResumeBounded)
<1>1. AloneInv => (kills = 0 => ResumeBounded)
  BY DEF AloneInv, Undisturbed
<1> QED
  BY <1>1, AloneInvariance, PTL

(* While Omarchy runs the journal says so: no other worker is there to write,   *)
(* and its own last record waits for the end.                                 *)
THEOREM RunningTold ==
  ASSUME OneWindow
  PROVE  Spec => [](kills = 0 => JournalTellsRunning)
<1>1. AloneInv /\ TypeOK => (kills = 0 => JournalTellsRunning)
  BY DEF AloneInv, Undisturbed, ToldRunning, JournalTellsRunning
<1> QED
  BY <1>1, AloneInvariance, TypeCorrect, PTL

(* However many windows are open and whatever is killed, a window holds on to   *)
(* its worker until that exits: nothing starts another in its place.          *)
THEOREM WorkerKept == Spec => NoWorkerForgotten
<1> DEFINE Kept == \A w \in Windows, j \in Jobs :
             worker[w] = j /\ step'[j] # "idle" /\ ui'[w] # "closed" => worker'[w] = j
<1>1. IInv /\ [Next]_vars => [Kept]_vars
  <2> SUFFICES ASSUME IInv, Next, NEW v \in Windows, NEW k \in Jobs,
                      worker[v] = k, step'[k] # "idle", ui'[v] # "closed"
               PROVE  worker'[v] = k
    BY DEF vars
  <2> USE DEF IInv, Types, Goto, jobVars, uiVars
  <2>1. ASSUME NEW j \in Jobs, WorkerStep(j) \/ FetchProgress(j) \/ KillWorker(j)
        PROVE  worker'[v] = k
    BY <2>1
       DEF WorkerStep, CheckPC, ClearResume, FindFactory, FetchEnds, InitializeMachine,
           Announce, EnterOmarchy, LeaveOmarchy, AnnounceEnabling, EnableFeature,
           Archive, Report, ExitWorker, FetchProgress, KillWorker, Gone
  <2>2. ASSUME NEW w \in Windows,
               Timer(w) \/ Handlers(w) \/ User(w) \/ Resume(w) \/ KillWindow(w)
        PROVE  worker'[v] = k
    <3>0. k # None
      BY WindowAssumption
    <3> USE DEF NoWorker, Elevating, Busy, MayStart, StartWorker, TryStart
    <3>1. CASE Continue(w) \/ Approve(w) \/ Open(w) \/ Resume(w)
      BY <2>2, <3>0, <3>1 DEF Continue, Approve, Open, Resume, Load
    <3>2. CASE PrimaryStarts(w) \/ Accept(w)
      BY <2>2, <3>0, <3>2 DEF PrimaryStarts, Accept
    <3>3. CASE Close(w) \/ KillWindow(w)
      BY <2>2, <3>3 DEF Close, KillWindow, Blank
    <3>4. CASE \/ Render(w) \/ Handlers(w) \/ PrimaryEnables(w)
               \/ Decline(w) \/ Ask(w) \/ Refuse(w)
      BY <2>2, <3>4
         DEF Render, Handlers, Register, ClearAfterDecline, ClearAfterFailure,
             PrimaryEnables, Decline, Ask, Refuse
    <3> QED
      BY <2>2, <3>1, <3>2, <3>3, <3>4 DEF Timer, User
  <2>3. CASE Restart
    BY <2>3 DEF Restart
  <2> QED
    BY <2>1, <2>2, <2>3 DEF Next
<1> QED
  BY <1>1, Invariance, PTL DEF Spec, NoWorkerForgotten
=============================================================================
