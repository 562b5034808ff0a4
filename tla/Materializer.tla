----------------------------- MODULE Materializer -----------------------------
(***************************************************************************)
(* Materialize-Factory.ps1: from the parts of the release to the active     *)
(* factory build that Get-OmarchyActiveFactory accepts.                     *)
(*                                                                         *)
(* Nothing keeps two workers from materialising at once (two windows, or a  *)
(* window reopened over a worker that outlived it), and all of them use the *)
(* same paths.  A worker may be killed between any two steps and be started *)
(* again.  There is one release, hence one build directory.                 *)
(***************************************************************************)
EXTENDS Naturals, Sequences, FiniteSets

CONSTANTS
  Workers,      \* runs of Materialize-Factory.ps1
  Parts,        \* parts of the release
  GuestParts,   \* those of the guest archive; the others are the runtime's
  PartOrder,    \* the order they are fetched in
  None,         \* no build directory
  Seeds,        \* what a bundled part may be in this instance
  MaxFaults,    \* bound: failed or corrupted transfers, failed tools
  MaxKills,     \* bound: workers killed
  MaxDecays     \* bound: cached parts changed on the disk

Contents == {"absent", "good", "bad"}

(* An asset without parts is refused before anything is fetched. *)
ASSUME MaterializerAssumption ==
  /\ IsFiniteSet(Workers)
  /\ GuestParts \subseteq Parts /\ Parts \ GuestParts # {} /\ GuestParts # {}
  /\ PartOrder \in Seq(Parts)
  /\ \A p \in Parts : \E i \in 1 .. Len(PartOrder) : PartOrder[i] = p
  /\ Seeds \subseteq Contents
  /\ {MaxFaults, MaxKills, MaxDecays} \subseteq Nat

Assets == {"runtime", "guest"}
PartsOf(a) == IF a = "guest" THEN GuestParts ELSE Parts \ GuestParts

(* What the installer moves into the build, one after the other. *)
Components == {"engine", "tools"}

Build == [components : SUBSET Components, probed : BOOLEAN, guestPartial : Contents,
          guest : Contents, readOnly : BOOLEAN, receipt : BOOLEAN]
EmptyBuild == [components |-> {}, probed |-> FALSE, guestPartial |-> "absent",
               guest |-> "absent", readOnly |-> FALSE, receipt |-> FALSE]

ASSUME NoneIsNoBuild == None \notin Build

VARIABLES
  team,       \* the workers that may run at once
  seed,       \* bundled parts beside the manifest
  cache,      \* Downloads\<buildId>\<part>
  partial,    \* Downloads\<buildId>\<part>.partial
  archive,    \* Downloads\<buildId>\<role>.<archive>
  joined,     \* the same, .partial
  build,      \* Factory\<buildId>
  pointer,    \* Factory\active.json
  pc,         \* next step of each worker
  next,       \* index in PartOrder of the part it is at
  asset,      \* asset it is at
  faults, kills, decays

downloads == <<seed, cache, partial>>
archives == <<archive, joined>>
factory == <<build, pointer>>
place == <<next, asset>>
bounds == <<faults, kills, decays>>
work == <<downloads, archives, factory, pc, place, bounds>>
vars == <<team, work>>

-----------------------------------------------------------------------------
Goto(m, label) == pc' = [pc EXCEPT ![m] = label]
Fail(m) == Goto(m, "failed")
Fault == faults < MaxFaults /\ faults' = faults + 1

Part(m) == PartOrder[next[m]]

(* zstd has the partial guest open, or the probe runs QEMU from the build: a *)
(* directory with an open file in it does not move.                         *)
BuildOpen == \E m \in Workers : pc[m] \in {"expanding", "probing"}

(* Join-FactoryParts has the partial archive open. *)
JoinOpen(a) == \E m \in Workers : pc[m] = "joining" /\ asset[m] = a

(* Get-OmarchyActiveFactory: the runtime is hashed, the guest is only there   *)
(* and read-only, its digest is the receipt's word.                         *)
Accepted ==
  /\ pointer
  /\ build # None
  /\ build.receipt
  /\ build.components = Components
  /\ build.probed
  /\ build.guest # "absent"
  /\ build.readOnly

(* One worker at a time, and no more than two. *)
Alone == Cardinality(team) = 1
AtMostTwo == \A l, m, n \in team : l = m \/ l = n \/ m = n

Init ==
  /\ team \in SUBSET Workers \ {{}}
  /\ seed \in [Parts -> Seeds]
  /\ cache = [p \in Parts |-> "absent"]
  /\ partial = [p \in Parts |-> "absent"]
  /\ archive = [a \in Assets |-> "absent"]
  /\ joined = [a \in Assets |-> "absent"]
  /\ build = None
  /\ pointer = FALSE
  /\ pc = [m \in Workers |-> "idle"]
  /\ next = [m \in Workers |-> 1]
  /\ asset = [m \in Workers |-> "runtime"]
  /\ faults = 0 /\ kills = 0 /\ decays = 0

-----------------------------------------------------------------------------
(* The try block, up to the parts. *)

(* Experience.ps1 starts the script when it finds no active factory; the     *)
(* script looks again.                                                     *)
Start(m) ==
  /\ m \in team /\ pc[m] = "idle"
  /\ ~Accepted
  /\ Goto(m, "begin")
  /\ next' = [next EXCEPT ![m] = 1]
  /\ asset' = [asset EXCEPT ![m] = "runtime"]
  /\ UNCHANGED <<downloads, archives, factory, bounds>>

Begin(m) ==
  /\ pc[m] = "begin"
  /\ Goto(m, IF Accepted THEN "idle" ELSE "clean")
  /\ UNCHANGED <<downloads, archives, factory, place, bounds>>

(* Move-ToFactoryQuarantine of an incomplete build. *)
QuarantineBuild(m) ==
  /\ pc[m] = "clean"
  /\ IF build # None /\ BuildOpen
     THEN Fail(m) /\ UNCHANGED build
     ELSE Goto(m, "mkdir") /\ build' = None
  /\ UNCHANGED <<downloads, archives, pointer, place, bounds>>

MakeDirectories(m) ==
  /\ pc[m] = "mkdir"
  /\ build' = IF build = None THEN EmptyBuild ELSE build
  /\ Goto(m, "part")
  /\ UNCHANGED <<downloads, archives, pointer, place, bounds>>

-----------------------------------------------------------------------------
(* Get-FactoryPart. *)

AfterPart(m) ==
  /\ next' = [next EXCEPT ![m] = @ + 1]
  /\ Goto(m, IF next[m] = Len(PartOrder) THEN "join" ELSE "part")

(* Mutant: no cached part is ever taken for valid. *)
NeverReady(p) == FALSE

(* The cached part has its size and its digest. *)
PartReady(p) == cache[p] = "good"

CheckPart(m) ==
  /\ pc[m] = "part"
  /\ IF PartReady(Part(m)) THEN AfterPart(m)
     ELSE /\ Goto(m, IF cache[Part(m)] = "absent" THEN "stale" ELSE "badPart")
          /\ UNCHANGED next
  /\ UNCHANGED <<downloads, archives, factory, asset, bounds>>

(* Mutant: an invalid cached part stays where it is. *)
KeepBadPart(m) ==
  /\ pc[m] = "badPart"
  /\ Goto(m, "stale")
  /\ UNCHANGED <<downloads, archives, factory, place, bounds>>

(* An invalid cached part goes to Quarantine, if it is still there. *)
QuarantinePart(m) ==
  /\ pc[m] = "badPart"
  /\ cache' = [cache EXCEPT ![Part(m)] = "absent"]
  /\ Goto(m, "stale")
  /\ UNCHANGED <<seed, partial, archives, factory, place, bounds>>

(* So does whatever an earlier run left at the partial path. *)
QuarantinePartial(m) ==
  /\ pc[m] = "stale"
  /\ partial' = [partial EXCEPT ![Part(m)] = "absent"]
  /\ Goto(m, "seed")
  /\ UNCHANGED <<seed, cache, archives, factory, place, bounds>>

(* A bundled part is verified and moved, never copied. *)
TakeSeed(m) ==
  /\ pc[m] = "seed"
  /\ LET p == Part(m) IN
       \/ /\ seed[p] = "absent"
          /\ Goto(m, "download")
          /\ UNCHANGED <<seed, partial>>
       \/ /\ seed[p] = "bad" \/ (seed[p] = "good" /\ partial[p] # "absent")
          /\ Fail(m)
          /\ UNCHANGED <<seed, partial>>
       \/ /\ seed[p] = "good" /\ partial[p] = "absent"
          /\ seed' = [seed EXCEPT ![p] = "absent"]
          /\ partial' = [partial EXCEPT ![p] = "good"]
          /\ Goto(m, "verify")
  /\ UNCHANGED <<cache, archives, factory, place, bounds>>

(* BITS puts the file at the partial path when the transfer is complete.     *)
Download(m) ==
  /\ pc[m] = "download"
  /\ \/ /\ partial' = [partial EXCEPT ![Part(m)] = "good"]
        /\ Goto(m, "verify")
        /\ UNCHANGED faults
     \/ /\ Fault
        /\ partial' = [partial EXCEPT ![Part(m)] = "bad"]
        /\ Goto(m, "verify")
  /\ UNCHANGED <<seed, cache, archives, factory, place, kills, decays>>

(* Mutant: the part is published as it was downloaded. *)
PartialPresent(p) == partial[p] # "absent"

(* Size and digest of the partial part. *)
PartialValid(p) == partial[p] = "good"

VerifyPart(m) ==
  /\ pc[m] = "verify"
  /\ IF PartialValid(Part(m))
     THEN Goto(m, "publish") /\ UNCHANGED partial
     ELSE Fail(m) /\ partial' = [partial EXCEPT ![Part(m)] = "absent"]
  /\ UNCHANGED <<seed, cache, archives, factory, place, bounds>>

(* Move-Item without -Force. *)
PublishPart(m) ==
  /\ pc[m] = "publish"
  /\ LET p == Part(m) IN
       IF partial[p] = "absent" \/ cache[p] # "absent"
       THEN Fail(m) /\ UNCHANGED <<cache, partial, next>>
       ELSE /\ cache' = [cache EXCEPT ![p] = partial[p]]
            /\ partial' = [partial EXCEPT ![p] = "absent"]
            /\ AfterPart(m)
  /\ UNCHANGED <<seed, archives, factory, asset, bounds>>

-----------------------------------------------------------------------------
(* Join-FactoryParts, for the runtime and later for the guest. *)

Joined(m) == IF asset[m] = "runtime" THEN "install" ELSE "expand"

(* A valid archive of an earlier run is used again, an invalid one goes. *)
CheckArchive(m) ==
  /\ pc[m] = "join"
  /\ LET a == asset[m] IN
       IF archive[a] = "good"
       THEN Goto(m, Joined(m)) /\ UNCHANGED archive
       ELSE Goto(m, "open") /\ archive' = [archive EXCEPT ![a] = "absent"]
  /\ UNCHANGED <<downloads, joined, factory, place, bounds>>

(* A stale partial archive is quarantined and the new one is open. *)
OpenArchive(m) ==
  /\ pc[m] = "open"
  /\ IF JoinOpen(asset[m])
     THEN Fail(m) /\ UNCHANGED joined
     ELSE Goto(m, "joining") /\ joined' = [joined EXCEPT ![asset[m]] = "bad"]
  /\ UNCHANGED <<downloads, archive, factory, place, bounds>>

(* The parts are copied, whatever is in the cache by now. *)
CopyParts(m) ==
  /\ pc[m] = "joining"
  /\ LET a == asset[m] IN
       IF \E p \in PartsOf(a) : cache[p] = "absent"
       THEN Fail(m) /\ UNCHANGED joined
       ELSE /\ Goto(m, "verifyArchive")
            /\ joined' = [joined EXCEPT ![a] =
                 IF \A p \in PartsOf(a) : cache[p] = "good" THEN "good" ELSE "bad"]
  /\ UNCHANGED <<downloads, archive, factory, place, bounds>>

(* Size and digest of the assembled archive. *)
ArchiveValid(a) == joined[a] = "good" /\ ~JoinOpen(a)

VerifyArchive(m) ==
  /\ pc[m] = "verifyArchive"
  /\ LET a == asset[m] IN
       IF ArchiveValid(a)
       THEN Goto(m, "publishArchive") /\ UNCHANGED joined
       ELSE /\ Fail(m)
            /\ joined' = [joined EXCEPT ![a] = IF JoinOpen(a) THEN @ ELSE "absent"]
  /\ UNCHANGED <<downloads, archive, factory, place, bounds>>

PublishArchive(m) ==
  /\ pc[m] = "publishArchive"
  /\ LET a == asset[m] IN
       IF joined[a] = "absent" \/ JoinOpen(a) \/ archive[a] # "absent"
       THEN Fail(m) /\ UNCHANGED archives
       ELSE /\ archive' = [archive EXCEPT ![a] = joined[a]]
            /\ joined' = [joined EXCEPT ![a] = "absent"]
            /\ Goto(m, Joined(m))
  /\ UNCHANGED <<downloads, factory, place, bounds>>

-----------------------------------------------------------------------------
(* The runtime: expanded and audited in a directory of its own, then moved   *)
(* into the build by Install-PortableRuntime.ps1, which overwrites nothing.  *)

(* Expand-FactoryZipSafely, and the audit of what came out. *)
RuntimeExtracts == archive["runtime"] = "good"

Install(m, component, from, to, refused) ==
  /\ pc[m] = from
  /\ LET b == IF build = None THEN EmptyBuild ELSE build IN
       IF refused \/ component \in b.components
       THEN Fail(m) /\ UNCHANGED build
       ELSE /\ build' = [b EXCEPT !.components = @ \union {component}]
            /\ Goto(m, to)
  /\ UNCHANGED <<downloads, archives, pointer, place, bounds>>

InstallEngine(m) == Install(m, "engine", "install", "installTools", ~RuntimeExtracts)

(* The tools come from what was extracted before, into the same build. *)
InstallTools(m) == Install(m, "tools", "installTools", "probe", build = None)

(* Test-PortableRuntimeCapabilities.ps1 runs QEMU from the build ... *)
StartProbe(m) ==
  /\ pc[m] = "probe"
  /\ Goto(m, IF build # None /\ "engine" \in build.components THEN "probing" ELSE "failed")
  /\ UNCHANGED <<downloads, archives, factory, place, bounds>>

(* ... and writes host-capabilities.json. *)
EndProbe(m) ==
  /\ pc[m] = "probing"
  /\ build' = [build EXCEPT !.probed = TRUE]
  /\ asset' = [asset EXCEPT ![m] = "guest"]
  /\ Goto(m, "join")
  /\ UNCHANGED <<downloads, archives, pointer, next, bounds>>

-----------------------------------------------------------------------------
(* The guest. *)

(* Its directory is made if need be; zstd -f opens the partial disk. *)
ExpandGuest(m) ==
  /\ pc[m] = "expand"
  /\ LET b == IF build = None THEN EmptyBuild ELSE build IN
       IF "tools" \notin b.components \/ (\E o \in Workers : pc[o] = "expanding")
       THEN Fail(m) /\ build' = b
       ELSE Goto(m, "expanding") /\ build' = [b EXCEPT !.guestPartial = "bad"]
  /\ UNCHANGED <<downloads, archives, pointer, place, bounds>>

EndExpand(m) ==
  /\ pc[m] = "expanding"
  /\ IF archive["guest"] = "good"
     THEN Goto(m, "verifyGuest") /\ build' = [build EXCEPT !.guestPartial = "good"]
     ELSE Fail(m) /\ UNCHANGED build
  /\ UNCHANGED <<downloads, archives, pointer, place, bounds>>

Expanding == \E o \in Workers : pc[o] = "expanding"

(* Size and digest of the partial guest. *)
VerifyGuest(m) ==
  /\ pc[m] = "verifyGuest"
  /\ IF build # None /\ build.guestPartial = "good"
     THEN Goto(m, "moveGuest") /\ UNCHANGED build
     ELSE /\ Fail(m)
          /\ build' = IF build = None \/ Expanding THEN build
                      ELSE [build EXCEPT !.guestPartial = "absent"]
  /\ UNCHANGED <<downloads, archives, pointer, place, bounds>>

MoveGuest(m) ==
  /\ pc[m] = "moveGuest"
  /\ IF build = None \/ Expanding
     THEN Fail(m) /\ UNCHANGED build
     ELSE IF build.guestPartial = "absent" \/ build.guest # "absent"
     THEN Fail(m) /\ UNCHANGED build
     ELSE /\ build' = [build EXCEPT !.guest = build.guestPartial,
                                    !.guestPartial = "absent"]
          /\ Goto(m, "lock")
  /\ UNCHANGED <<downloads, archives, pointer, place, bounds>>

SetReadOnly(m, value) ==
  /\ pc[m] = "lock"
  /\ IF build # None /\ build.guest # "absent"
     THEN Goto(m, "recheck") /\ build' = [build EXCEPT !.readOnly = value]
     ELSE Fail(m) /\ UNCHANGED build
  /\ UNCHANGED <<downloads, archives, pointer, place, bounds>>

(* Mutant: the guest stays writable. *)
LeaveWritable(m) == SetReadOnly(m, FALSE)

(* IsReadOnly = $true. *)
LockGuest(m) == SetReadOnly(m, TRUE)

(* Mutant: only the runtime is verified again. *)
RuntimeInPlace == build # None /\ "engine" \in build.components

(* Test-FactoryPayload of the runtime and of the guest. *)
PayloadsInPlace ==
  build # None /\ "engine" \in build.components /\ build.guest = "good"

Recheck(m) ==
  /\ pc[m] = "recheck"
  /\ Goto(m, IF PayloadsInPlace THEN "receipt" ELSE "failed")
  /\ UNCHANGED <<downloads, archives, factory, place, bounds>>

(* receipt.json, in whatever build directory is there now. *)
WriteReceipt(m) ==
  /\ pc[m] = "receipt"
  /\ IF build = None
     THEN Fail(m) /\ UNCHANGED build
     ELSE Goto(m, "activate") /\ build' = [build EXCEPT !.receipt = TRUE]
  /\ UNCHANGED <<downloads, archives, pointer, place, bounds>>

(* active.json.partial replaces active.json. *)
Activate(m) ==
  /\ pc[m] = "activate"
  /\ pointer' = TRUE
  /\ Goto(m, "announce")
  /\ UNCHANGED <<downloads, archives, build, place, bounds>>

(* The journal says that the factory is ready. *)
Announce(m) ==
  /\ pc[m] = "announce"
  /\ Goto(m, "idle")
  /\ UNCHANGED <<downloads, archives, factory, place, bounds>>

(* A transfer, a tool, a write of the journal or any other statement of the  *)
(* try block throws, the last one too.                                     *)
Throw(m) ==
  /\ Fault
  /\ pc[m] \notin {"idle", "failed"}
  /\ Fail(m)
  /\ UNCHANGED <<downloads, archives, factory, place, kills, decays>>

(* catch: whatever build directory is there goes to Quarantine, and the      *)
(* pointer to it stays.                                                    *)
FailBuild(m) ==
  /\ pc[m] = "failed"
  /\ build' = IF BuildOpen THEN build ELSE None
  /\ Goto(m, "idle")
  /\ UNCHANGED <<downloads, archives, pointer, place, bounds>>

-----------------------------------------------------------------------------
(* The environment. *)

Kill(m) ==
  /\ kills < MaxKills
  /\ kills' = kills + 1
  /\ pc[m] # "idle"
  /\ Goto(m, "idle")
  /\ UNCHANGED <<downloads, archives, factory, place, faults, decays>>

(* A cached part or archive changes on the disk. *)
Decay ==
  /\ decays < MaxDecays
  /\ decays' = decays + 1
  /\ \/ \E p \in Parts : cache[p] = "good" /\ cache' = [cache EXCEPT ![p] = "bad"]
                         /\ UNCHANGED archive
     \/ \E a \in Assets : archive[a] = "good" /\ archive' = [archive EXCEPT ![a] = "bad"]
                          /\ UNCHANGED cache
  /\ UNCHANGED <<seed, partial, joined, factory, pc, place, faults, kills>>

WorkerStep(m) ==
  \/ Begin(m) \/ QuarantineBuild(m) \/ MakeDirectories(m)
  \/ CheckPart(m) \/ QuarantinePart(m) \/ QuarantinePartial(m) \/ TakeSeed(m)
  \/ Download(m) \/ VerifyPart(m) \/ PublishPart(m)
  \/ CheckArchive(m) \/ OpenArchive(m) \/ CopyParts(m) \/ VerifyArchive(m)
  \/ PublishArchive(m)
  \/ InstallEngine(m) \/ InstallTools(m) \/ StartProbe(m) \/ EndProbe(m)
  \/ ExpandGuest(m) \/ EndExpand(m) \/ VerifyGuest(m) \/ MoveGuest(m) \/ LockGuest(m)
  \/ Recheck(m) \/ WriteReceipt(m) \/ Activate(m) \/ Announce(m)
  \/ FailBuild(m)

Next ==
  /\ \/ \E m \in Workers : Start(m) \/ WorkerStep(m) \/ Throw(m) \/ Kill(m)
     \/ Decay
  /\ UNCHANGED team

Spec == Init /\ [][Next]_vars

(* Transfers and tools end, and the user tries again. *)
Fairness == \A m \in Workers : WF_work(WorkerStep(m)) /\ WF_work(Start(m))

FairSpec == Spec /\ Fairness

-----------------------------------------------------------------------------
(* Properties. *)

Labels ==
  {"idle", "begin", "clean", "mkdir", "part", "badPart", "stale", "seed", "download",
   "verify", "publish", "join", "open", "joining", "verifyArchive", "publishArchive",
   "install", "installTools", "probe", "probing", "expand", "expanding", "verifyGuest",
   "moveGuest", "lock", "recheck", "receipt", "activate", "announce", "failed"}

(* Every variable has its type. *)
TypeOK ==
  /\ team \subseteq Workers /\ seed \in [Parts -> Contents]
  /\ cache \in [Parts -> Contents]
  /\ partial \in [Parts -> Contents]
  /\ archive \in [Assets -> Contents]
  /\ joined \in [Assets -> Contents]
  /\ build \in Build \union {None}
  /\ pointer \in BOOLEAN
  /\ pc \in [Workers -> Labels]
  /\ next \in [Workers -> 1 .. Len(PartOrder) + 1]
  /\ asset \in [Workers -> Assets]
  /\ {faults, kills, decays} \subseteq Nat

(* Types; and "invalid artifacts are never executed or booted": the guest of  *)
(* a build that Get-OmarchyActiveFactory accepts, which it does not hash, is  *)
(* the release's.  Two workers cannot spoil that for each other; three can,   *)
(* until one of them quarantines the build: the first is about to write the   *)
(* receipt and its build is quarantined, the second has verified a partial    *)
(* guest, the third fails to expand over it, and the second moves it.         *)
AcceptedIsVerified == TypeOK /\ (AtMostTwo /\ Accepted => build.guest = "good")

(* "Partial or invalid data belongs in Quarantine, never at its final path":  *)
(* a worker that is alone puts none there itself.                           *)
CacheHoldsVerified ==
  Alone /\ decays = 0 =>
  /\ \A p \in Parts : cache[p] # "bad"
  /\ \A a \in Assets : archive[a] # "bad"

(* A verified part stays in the cache, whatever fails or is killed.          *)
VerifiedPartsReused ==
  [][\A p \in Parts : Alone /\ cache[p] = "good" =>
       cache'[p] = "good" \/ decays' # decays]_vars

(* "active.json appears only after the complete receipt, runtime per-file     *)
(* audit, host capability probe and guest verification succeed."            *)
ActivationComplete == [][Alone /\ ~pointer /\ pointer' => Accepted']_vars

(* What has become of an attempt: nothing that Get-OmarchyActiveFactory       *)
(* accepts, a factory, a factory in an attempt that failed, or one for good.  *)
Stage ==
  CASE ~Accepted -> "making"
    [] Accepted /\ (\A m \in Workers : pc[m] = "idle") -> "kept"
    [] Accepted /\ (\E m \in Workers : pc[m] = "failed") -> "failing"
    [] OTHER -> "made"

S == INSTANCE Store WITH
  Needs <- [a \in Assets |-> PartsOf(a)],
  parts <- {p \in Parts : cache[p] = "good"},
  assembled <- {a \in Assets : joined[a] = "good"},
  archives <- {a \in Assets : archive[a] = "good"},
  installed <- IF build = None THEN {} ELSE
                 {a \in Assets : IF a = "guest" THEN "good" \in {build.guestPartial, build.guest}
                                 ELSE "engine" \in build.components},
  stage <- Stage

(* For one worker all of this is a Store: failures and kills included, what    *)
(* has been verified is not lost, an archive has all its parts, a factory is  *)
(* accepted with all its assets; only a failure of the attempt that made it   *)
(* puts it away again, and once that attempt is over nothing touches it.      *)
ImplementsStore == (Alone => S!Init) /\ [][Alone => S!Next \/ UNCHANGED S!vars]_vars

(* A user who tries again gets the factory in the end, unless a part that     *)
(* came with the app is bad.                                               *)
FactoryArrives ==
  Alone /\ (\A p \in Parts : seed[p] # "bad") => <>[]Accepted
=============================================================================
