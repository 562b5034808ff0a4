# Windows Into Omarchy: specifications, model checking and proofs

TLA+ for the parts of Windows Into Omarchy that keep state: what happens to the
owner's machine, how the window and its hidden workers find each other through
files, how a factory or a fallback runtime gets onto the PC, how memory and
processors are chosen, how the disks, images and packages are built, and how a
build becomes a public release.

Every module is a translation of source files; `PROJECT.json` names the lines
behind each definition. Paths below are relative to the repository.

## The system

| Component | State | Operations | Talks to |
|---|---|---|---|
| Native window, `windows/WindowsIntoOmarchy` | last record rendered, worker handle, message box open or not | timer tick, buttons, message boxes, close, resume at sign-in | starts PowerShell workers; reads `Experience\progress.json`; writes RunOnce |
| Orchestrator, `scripts/experience/*.ps1` | journal, RunOnce entry, Windows feature | inspect, prepare and launch, disposable launch, enable, archive | runs every other script; the journal is the only answer the window gets |
| Private machine, `Experience.ps1`, `Run-VM.ps1`, `Archive-ActiveMachine.ps1`, `Reset.ps1` | overlay, partial overlay, receipt, firmware variables, disposable overlays, `Backups`, a named mutex | initialise, run, run disposably, archive | QEMU, qemu-img |
| Factory materialiser, `Materialize-Factory.ps1`, `Install-PortableRuntime.ps1`, `Test-PortableRuntimeCapabilities.ps1` | seeds, parts, archives, build directory, `active.json` | fetch, verify, join, install, probe, expand, activate, quarantine | BITS, zstd, QEMU probe |
| ISO fallback, `Prepare.ps1`, `Build-Runtime.ps1`, `Common.ps1` | app-local QEMU, installer, ISO, partials, `verified-downloads.json` | download, verify, install elevated, report, launch | the NSIS installer, an elevated process of its own |
| Automatic resources, `Experience.Common.ps1`, `Run-VM.ps1` | the choice of one attempt | choose, check | Windows queries that may fail |
| Release assembly, `factory/*.py`, `Assemble-FactoryRelease.ps1` | component directories, bundle, root manifest | verify, write the manifest, retarget | build workflows before, promotion after |
| Release workflows, `.github/workflows/promote-*`, `publish-*` | tag, release, assets | prove, tag, draft, upload, verify, publish | GitHub's API, whose calls fail |
| Configuration image and package, `image/make_cidata.py`, `scripts/package.py` | `cidata.img`, its temporary, stage, archive, `SHA256SUMS` | make, list, stage, zip, sum | the builders and the runtime use the image |
| Guest factory, `guest/*.sh`, `guest/scripts/*.py` | ISO cache, build directory, output directory | install, sanitize, audit, inventory, compress, split, describe, verify | QEMU, guestfish, zstd; the release assembly takes its output |
| Prepared image, `image/*.sh`, `build_manifest.py`, `build-image.yml` | output directory | install, audit, split, describe; verify a draft | QEMU, guestfish, zstd, GitHub |
| Installer, portable runtime, `Build-Package.ps1` | - | copy and hash on Windows | not modelled |
| Compatibility launcher, `launcher/` | none | starts the native window | not modelled |

What is hard here is not the algorithms. Nothing stops a user from opening two
windows, so every script may run twice at once; only the run and the archive of
the machine take a mutex. Workers are killed with their window's PC, QEMU and
the elevated installer outlive a killed worker, power fails, downloads fail,
and everything is to be resumed from what lies on the disk. The window learns of
its workers only by reading a journal on a timer. The builders run one command
after another, but over what earlier, failed or killed runs left, with a thread
and two pipes in the verification and byte arithmetic in the configuration image.

What makes each component correct, in a sentence:

- machine: what the owner wrote is never out of reach, no two sessions share it,
  and a user gets in again after any failure but a kill and a failed write of the
  machine's receipt;
- window: a running worker is never forgotten, the continuation is armed exactly
  while it must be, and the user always has something to click in the end;
- materialiser: nothing unverified is used, nothing incomplete is activated,
  verified work is not lost, and retries arrive;
- fallback: cached verdicts are true, only the pinned installer is started, and
  retries arrive;
- resources: the two scripts agree on what a PC can give;
- builders: what verifies is one complete, audited build, whatever earlier runs
  left; the image reads back as the repository's files on every host; the
  inventories tell the truth; a verification ends, with a true verdict;
- release: what is public is one consistent bundle, and interrupted promotion
  can be resumed without replacing anything.

## Modules

| Module | Models | Instance |
|---|---|---|
| `Machine` | the private machine and the sessions that touch it | `MCMachine` |
| `Vault` | what the machine promises its owner, abstractly | - |
| `MachineProofs` | the machine's invariants, and that it implements `Vault`, proved | - |
| `Window` | windows, workers, journal, continuation, restarts | `MCWindow` |
| `WindowProofs` | its invariants, proved | - |
| `Materializer` | the materialiser on the paths its workers share | `MCMaterializer` |
| `Store` | what downloads and factory promise a lone worker, abstractly | - |
| `MaterializerProofs` | the materialiser's invariants, and that a lone one implements `Store`, proved | - |
| `Prepare` | the fallback's runtime and ISO | `MCPrepare` |
| `PrepareProofs` | its invariants, proved | - |
| `Resources` | the choice of memory and processors, and its checks | `MCTools` |
| `Release` | assembly, retargeting, promotion, publication | `MCRelease` |
| `ReleaseProofs` | its invariants, proved | - |
| `Fat12` | the configuration image, cluster by cluster | `MCTools` |
| `Inventory` | the package database as table, SBOM and licences | `MCTools` |
| `InventoryProofs` | the inventories, proved over `MCTools` | - |
| `Expand` | the streaming verification: writer thread, zstd, main thread | `MCTools` |
| `ToolsProofs` | the choice, the image and the verdict, proved over `MCTools` | - |
| `Package` | `make_cidata.py` and `package.py` over one tree | `MCBuilds` |
| `GuestBuild` | the factory disk, from ISO to verified output | `MCBuilds` |
| `ImageBuild` | the prepared image, and the check of its draft | `MCBuilds` |
| `BuildsProofs` | the invariants of the three builds, proved | - |

`MCTools` and `MCBuilds` instantiate several programs that share no state. A
behaviour is of one of them (`tool`, chosen in `MCInit`) and leaves the others
where they start, so a run checks the sum of their state spaces and not the
product. The constants' assumptions of the instanced modules are definitions
there, and the MC module assumes them. The bounds of the instances of `MCBuilds`
are constants of its own, so that what is proved of it holds for any bound.

**Machine.** A session is one PowerShell process; `pc` is the next statement with an
effect. `Start` reads the active factory (Experience.ps1:94-107). `InspectOverlay` to
`CloseReceipt` are `Initialize-OmarchyMachineFromFactory` (Experience.ps1:18-62), which
takes no lock: each qemu-img call, move and write is an action. `OpenMutex` to `Finally`
are `Run-VM.ps1`, `ArchiveDisk` to `ArchiveEnds` are `Archive-ActiveMachine.ps1` with
`Reset.ps1` inside. A qcow2 file is an identity in `Images` with a state (torn, whole,
checked, damaged); paths map to identities, so a move, an overwrite and a loss can be
told apart. The mutex distinguishes free, owned and abandoned: it is abandoned only if
another process holds a handle when its owner dies (`AfterAbandon`), and then `WaitOne`
throws although it grants ownership. `owned` and `disturbed` are history variables: what
guests wrote, and which disposable overlays lost the base they read. Besides qemu-img
and QEMU, any statement may throw (`Throw`): in `Experience.ps1` until it starts
`Run-VM.ps1`, under the mutex, in the `finally` block (where it leaves the disposable
overlay in Temp and the mutex to the process's end), and in the archive. Two of these
leave a machine apart from what belongs to it, and the history variable `parted`
remembers where: a receipt that could not be written (Experience.ps1:60), until the
machine is archived, and firmware variables that could not be archived (Reset.ps1:33).

**Vault.** Complete disks, those the owner has written to, the one session that
runs, and sessions that outlived their worker. Its steps say what may happen to
them: a disk is made at once or not at all, nothing takes one away, a session
enters alone and on a complete disk, and only a persistent session writes. The
mapping (`V` in `Machine`) takes the disks at a final path or in an archive that
are not torn as `machines`, `owned` as `written`, what the session in the critical part has
open as `open`, and the QEMUs of killed workers as `strays`.

**Window.** Time is abstracted to one comparison, whether the journal is newer
than what was rendered. Handlers that show message boxes or wait for a process
are split where WPF lets the timer run. Workers are abstract here: what they do
to the machine or the factory succeeds or fails.

**Materializer.** `team` is the set of workers that may run in a behaviour: what one
worker is promised, more of them can break, and the properties say which is which
(`Alone`). File contents are absent, good or bad. Every check-then-move of a part, an
archive or the guest is two actions, so that another worker may act between them. Any
statement of the `try` block may throw (`Throw`), the journal record after `active.json`
included (`Announce`, Materialize-Factory.ps1:344): the catch then quarantines the build
that was just accepted, and the pointer stays. `Accepted` is `Get-OmarchyActiveFactory`,
which hashes the runtime but takes the guest's digest on the receipt's word.

**Store.** Verified parts, archives assembled and kept, assets installed, and the
stage of the factory: in the making, made, given up after that because its attempt
fails, or kept once the attempt is over. An archive needs all its parts, an installation
a kept archive, an acceptance every asset; parts and archives are lost only to the disk.
Nobody works on an accepted factory: it is put away only if its own attempt fails after
all, and a kept one never is. The mapping (`S` in `Materializer`) counts what is
good at its final path, a joined archive that is good as assembled, the runtime as
installed with its last component and the guest from its expansion on, because a
cached archive may decay afterwards. It is stated for one worker: with two, a verified part
may be quarantined and an active build given up (below).

**Prepare.** QEMU's directory is a set of two pieces, the programs that
`Get-QemuInstallation` looks for and everything else that readiness needs. The
installer is a process of its own that writes them one at a time in an order of
its own. Other places where a QEMU may be found (Program Files, PATH) are empty.

**Resources.** The arithmetic of `Get-OmarchyAutomaticResources` as it stands,
the contract as constants, and each query to Windows answered or not.

**Release.** Digests are equality of contents. An archive is a tree of files and
the payload manifest embedded in it; a component directory has checksums, parts
and manifests that may disagree in any way. `Assemble` accepts what
`assemble_release.py` accepts. `Retarget` may be given another build's parts.
The promotion workflow is followed call by call; its runs do not overlap each
other (concurrency group) but do overlap publication, which is another group.
The bundle job that the pinned artifact comes from is not in the repository: the
model takes its artifact to be an assembled candidate, retargeted. An expired
artifact counts as `~BundleProved`, a run that fails in any other way as a fault.

**Fat12.** The table keeps its bytes, because two entries share one; a directory
entry is a record of what its bytes say. The source has 512-byte sectors and 224
entries, which the instance shrinks. A checkout and the replacements that undo it
are given by the positions they keep (`InOrder`), so that they can be reasoned
about without recursion. `ReadsBack` is a reader of its own, which knows the boot
sector's numbers and the format and nothing of the writer.

**Inventory.** A text is a number, a line is a heading, a text or blank. `Description`
is what pacman writes, a section for each heading that is read, and `ReadDesc` what
`package_metadata.py` makes of it, line by line (`ReadLine`). A description is one line,
which may read as a heading. The sort puts each package at its place, one more than
the number of those before it, which says what `sort` does without recursion:
no two packages have the same name and version, because their directories would.

**Expand.** `verify_release.py --verify-expanded`: the writer, zstd and the main
thread, with pipes of `Capacity` chunks. zstd may find a corrupt chunk or be
killed from outside; the writer may find a part that cannot be read.

**Package.** A file is a version of its contents, the image the pair of versions
it was built from. `mkstemp`, write and `os.replace` are steps, and what a killed
writer leaves is `litter`. The package is listed, staged, zipped and summed file
by file; a failure closes the zip, a kill does not.

**GuestBuild.** A disk is the run that made it and the traits that matter to
`audit.sh`. Files are written one at a time, and a failure or a kill may cut one
short. The ISO in the cache may decay, or be removed by another build that shares
the cache and was told to keep none. `CleanUp` is a person: the script only says
that the output directory must be empty.

**ImageBuild.** The same for `image/build.sh`, which looks for older artifacts
after the install; `Draftable` is what `build-image.yml` checks before it drafts.
Its shell joins the parts that lie there in the order of their names: `JoinsTo`
says so without computing the stream.

The modules do not share variables. They meet at the boundaries they abstract:
`Window` sees the outcome of what `Machine`, `Materializer` and `Prepare` do,
`Machine` activates a factory at any time as `Materializer` does,
`Release.ClientAccepts` is what `Materializer` checks, `GuestBuild.Verified` is
what `Expand` computes in a stream, `Package`'s image is what `Fat12` builds, and
`Inventory`'s files are the metadata that `GuestBuild` describes a disk with.

## Runs

All runs use `tlc -config <cfg> <module>`. Symmetry is used only in runs without
liveness properties. Deadlock is checked except where workers or runs may come
to rest: the materialiser when its factory is accepted, the release when its
runs are used up, the programs of `MCTools` when they have ended.

| Run | Distinct states | Shows |
|---|---|---|
| `MCMachine` | 1.7 million | two workers, every operation, a kill and a power loss, three images: type, exclusion, owner's data, disposable overlays, and the refinement of `Vault` |
| `MCMachineReopen` | 517 thousand | one worker, two builds and the fallback, an activation and a failure of a tool or a statement: overlays checked, machines complete, firmware fresh, the user always gets in again, but for a receipt that could not be written |
| `MCMachineReopenCrash` | violated | the same with a kill: see Disagreements |
| `MCWindow` | 139 thousand | one window, two workers, every PC and feature state, a failure: continuation, journal, answers, resumption |
| `MCWindowKills` | 898 thousand | three workers, a kill and an unasked restart: no worker is forgotten |
| `MCWindowContinue` | violated | see Disagreements |
| `MCMaterializer` | 939 thousand | one worker, two failures anywhere, two kills, a decayed part; or two workers on the same paths, a failure and a kill; bundled parts absent, good or bad: what is accepted is the release's, whatever two workers do; cache, activation, arrival and the refinement of `Store` for one worker |
| `MCPrepare` | 53 thousand | one worker, two installers, two failures, a kill, a power loss, an overwritten ISO: true verdicts, the pinned installer, and a user who gets in unless a torn runtime stays for good |
| `MCPrepareTorn` | violated | see Disagreements |
| `MCRelease` | 57 thousand | two builds, three promotion runs, two failures: bundle, tag, assets, resumption |
| `MCTools` | 36 thousand | PCs on both sides of every bound; 190 pairs of texts in two line endings; every database of two packages; every corrupt and missing chunk: choice, read-back, inventory, verdict, end of the verification |
| `MCBuilds` | 644 thousand | two image writers, a packager, a factory builder, one and two prepared-image builders, with failures, kills, edits and decay: one build, whole images and archives, finished work, arrival |

**Bounds.** Two workers suffice for a race, since every hazard found in the sources is
one worker acting between two steps of another. A third image (fourth without a kill)
lets an archive be followed by a new machine while a partial is in the way. One kill and
one power loss give every torn state the code can leave; a second is bounded out except
in the materialiser, where a retry can itself be cut short. `MCMachine` has no failures:
they are in `MCMachineReopen`, and what `MCMachine` checks is proved for any number of
them. Three worker slots in the window let a forgotten worker be followed by two more.
Three promotion runs of two builds let one build's run follow another's and then resume
the first. Two trees and two images suffice to tell any two contents apart. `MCTools`
takes PCs on either side of the host minimum and of every bound of the choice; sectors
of two bytes, so that texts of up to five bytes end on and beside a cluster's edge, and
one text of 258 clusters, whose numbers need more than eight bits; descriptions that
look like a heading; and pipes of two chunks for a stream of four that expands to
twelve, so that both fill. `MCBuilds` has two parts, so that one may be missing or
another build's, and one builder where the property is one builder's.

**Fairness.** Weak fairness on each worker's next step: a script does not stop
between two statements, transfers and tools end, and a guest's owner shuts it
down. (The BITS loop of Materialize-Factory.ps1:146 has no timeout, so this is an
assumption about the network and not about the code.) Weak fairness on
`Start`, strong for the machine where an archive may disable it in between: the
user who sees Ready or Failed tries again. Weak fairness on the window's timer
and handlers, and on a restart that was asked for. Weak fairness on each of the
writer, zstd and the main thread of the verification: they run on. Weak fairness
on the guest build's commands (QEMU has a time limit) and on starting it again,
strong on `CleanUp`, which a start may disable: whoever has no candidate empties
the directory and tries once more. `FactoryArrives` is promised to a worker alone
and without a bad bundled part. No fairness on failures,
kills, message boxes, clicks or the owner's release decisions. `MCRelease` has
no liveness: workflows run when a person starts them, and `CleanRunSucceeds`
says instead that a started run with no failure ends well.

## Proofs

Eight modules prove the safety properties of the runs for every value of the constants:
any number of sessions, windows, workers, parts, builds, runs, faults, kills and power
losses. None of the properties is inductive as it stands, so each module has an
invariant that is (`IInv` or a name of its own), a lemma for the initial states, lemmas
for the steps (one step of the proof per action, and under it one per conjunct that the
action can disturb) and a temporal theorem on top. Action properties follow from the
invariant and a lemma on the steps that could break them. What is assumed:

| Assumption | Where | Why the code justifies it |
|---|---|---|
| `MachineAssumption` and its like | constants | names do not clash, bounds are naturals, there is at least one part |
| `MarksApart` | `Release` | a file of a bundle is not the mark for no asset, a starter or a cut one |
| `NoneIsNoBuild` | `Materializer` | no build is the mark for none |
| `InventoryAssumption` | `Inventory` | a text is no heading; pacman keeps a description on one line, and each package in a directory named by name and version |
| `FilesAssumption` | `Fat12` | `.gitattributes` keeps CR out of the repository's texts; a name has units other than 0 |
| `Fits` | `ImageIsRead` | the two files take a few clusters of the disk's 2847; `build_image` does not ask |
| `Torn` is no image and no part | `Package`, `ImageBuild` | a file cut short is not the file |
| `OneWindow` | three theorems of `WindowProofs` | the app is one window; two share a journal and overwrite each other's records |
| `OneSession` | `OverlaysChecked`, `MachineComplete` | initialisation takes no lock: two sessions break both (below) |
| `OneWorker`, `OneBuilder` | `InstallerVerified`; `OneBuildAccepted`, `WorkKept` | two break these as well (below) |

**`MachineProofs`**: `TypeOK`, `MutualExclusion`, `OwnerDataKept`,
`EphemeralUnderMutex`, `MachinesNeverLost` and `RunningDiskStays` for any number of
sessions; the refinement of `Vault`; and, about an undisturbed machine,
`DisposableBaseStable`, `FreshFirmware`, `OnlyCheckedOverlays` and
`MachineCompleteWhenIdle`. The conjuncts of `IInv`, in the order the argument uses
them:

- `MutexOwner`: a session in the critical part owns the mutex. Exclusion follows.
- `PlaceIsBuild`: only factory builds have a partial overlay and a receipt.
- `InPlace`: the fallback disk that is being created at its final path is nobody's
  machine yet. `TargetInPlace`: what QEMU has open, or is about to open, is the
  whole machine at its path.
- `OrphansKept`: what a killed session's QEMU writes to is at a path or archived.
- `TempOwned`: a disposable overlay belongs to a session in the critical part.
- `DisksApart`, `PartialsApart`: no image is at two paths, final or partial; so
  removing a partial overlay never removes a machine.
- `NothingFree`: no path names an unused image, so a creation reuses none.
- `OwnedKept`: the owner's data itself.

The undisturbed machine needs four more invariants over `IInv`. `StableInv`: until
something is killed no QEMU is left behind, and only such a QEMU writes beneath a
disposable overlay, because a session that writes owns the mutex. `FirmwareInv`: without
kills and power losses the fallback's variables are of its disk, unless the archive is
between the two or has failed there (`parted`). `CheckedInv` (one session): what is
about to be moved into place has been checked. `CompleteInv` (one session, no kills or
losses): a machine without its receipt is about to get it or failed to (`parted`), and
the archive takes the receipt only when the disk has gone. `MachinesNeverLost` (no step
takes a complete machine away) and `RunningDiskStays` (the disk of a running session
stays at its path) are proved and in no run: the first is what the refinement, which is
checked, says of `machines`, and the second holds for every instance by its proof.

`Refinement` is `Spec => ImplementsVault`: the initial state maps to the
vault's, and each step maps to one of its steps or to a stutter. It rests on
`IInv` and on what follows from it: a path that changes never held the only
reference to a complete disk; nothing is open before `Enter` and what is entered
is complete (`MutualExclusion`, `TargetInPlace`); what is written is open or a
stray, and persistent. There is a lemma per step of the vault, and one per group
of actions that shows the rest to be stutters.

**`WindowProofs`**: `TypeOK` and `NoWorkerForgotten` for any number of windows and
any kills; `ResumeArmed`, `ResumeBounded` and `JournalTellsRunning` for one window
until something is killed. `IInv` adds `NoWorker`: a window that is closed, asks for
elevation or clears the continuation has no worker. `Undisturbed` adds what is true
while every worker is the window's: `Tracked` (the only worker that runs is the
window's, so no other writes the journal or the continuation), `EnableOnly` and
`ArmedBefore` (the elevated worker does nothing else, and the continuation is
registered before the prompt), and `ToldRunning` (Running is the last record from
before Run-VM.ps1 starts until it has ended).

**`MaterializerProofs`**: `AcceptedIsVerified` for any one or two workers, and
`CacheHoldsVerified`, `VerifiedPartsReused` and `ActivationComplete` for one. `IInv`
has a part for each. `BaseInv`: types, and which worker may be where. `TwoInv`, for at
most two: a verified partial guest is spoiled only by an expansion of the other
worker, which has then got no further and whose build has no receipt (`SpoiledByOther`);
whoever wrote the receipt of this build has left the try block (`ReceiptWriter`);
so a bad guest in place meets no receipt, written or about to be
(`BadGuestNoReceipt`). `OneInv`, for one: what it is about to publish is what it has
verified (`Unspoiled`), and it comes to each label with the build it has made so far
(`Progress`). Three workers do break `AcceptedIsVerified` (below), which the property
therefore does not claim.

`StoreRefinement` is `Spec => ImplementsStore`, and `LoneWorkerIsStore` that a behaviour
of one worker is one of `Store`. Two facts are needed beyond `IInv`: whoever goes on
from the start meets no accepted factory, and the build at work has no receipt before
the worker writes it, even if the pointer to an earlier build is still there
(`Unreceipted`), so that every step up to there is taken on a factory still in the
making; and a build has no guest before the guest's archive is there (`FreshBuild`), so
that an expansion takes none away. There is a lemma per step of the store, in terms of
its mapped variables, and one per group of the script's actions. `VerifiedPartsReused`
follows from the refinement and is proved on its own, in no run.

**`PrepareProofs`**: `TypeOK` and `RecordIsTrue` (a verdict from the cache is the one
a full hash would give) for any number of workers and installer processes, and
`VerifiedInstallerRuns` for one worker. The first two together are inductive:
`CachedVerdict` says that what `Test-PinnedFileCached` returns, and hence records,
is true; the steps then split into those that leave the ISO and its record alone,
those that record a verdict and those that replace the ISO and leave no record of
it. `InstallerInv` adds that what one worker publishes it has verified, and that
the installer at the path is the pinned one when it is started.

**`ReleaseProofs`**: `PublishedMaterializes`, `ReleaseAtExactTag`,
`AssetsNeverReplaced` and `CleanRunSucceeds`, for any number of builds and promotion
runs. A run knows what earlier runs left only through what it checks, so `IInv`
says what that has proved: the pinned bundle is assembled and of this tag
(`BundleProven`), the tag is exact once a release exists (`TagProven`), a draft is open
(`DraftOpen`), the files behind the current one are the bundle's (`FilesDone`), and
what is deleted is a starter (`AtCurrent`). `AssetsPublic`: every asset is a file of
some bundle of the tag, and those never change again (`BundlesSound`). `OneBuild`,
`AfterVerified`: once a run has verified, the assets are one build's, and only then
is anything published.

**`BuildsProofs`**: over `MCBuilds`, so that the three builds are proved as they are
checked.

- `AcceptedIsOneBuild`, one builder: `GuestInv` says that any manifest there is was written
  over an audited disk whose parts and metadata it describes, although these may
  have been cut short since (`ManifestSound`), and what a builder knows of the
  directory it found empty (`Progress`). Acceptance compares parts with the manifest
  and sums with both, which leaves the one disk.
- `ImageWholeAndFresh`, any number of processes: `ImageCurrent` says that what a writer
  has read is what the tree still holds. `SumsProveArchive`, `PackageIsTree`: `Knows`
  says, for each step of a packager, which files are staged and zipped and which are
  not.
- `ImagesSound`: `ImageInv`, any number of builders, says that only audited disks get
  as far as a manifest and that every manifest whose sums match is of one such disk
  (`Written`). The sums are checked as `sha256sum --check` does, which looks only at the
  files they name, so parts of another builder may lie beside them. `DraftsAudited` is
  this part on its own, for a specification with any number
  of builders in one directory. `ImageAlone` adds for one builder that what it has
  written is a beginning of its stream (`Wrote`), and that sums name every part there is
  (`SumsWhole`).
- `FinishedWorkKept`, one builder: a complete output is refused at the start and left as
  it is.

**`ToolsProofs`**: over `MCTools`, whose constants are those of the programs.

- `ChoiceAccepted`: for every contract in which the smallest host fits the smallest
  machine with 2 GiB left to Windows, the processors stay within the contract and
  `Run-VM.ps1` refuses only if a query failed. `Established` is what each stage of
  an attempt already knows of the host and of the choice.
- `VerdictIsTrue`, for every stream, ratio and pipe: `VerdictInv` says that nothing
  sent is lost unless zstd failed over it (`Sent`), that the writer closes its end
  only when all is sent and otherwise has a reason (`Closed`), that zstd ends only
  with its input or for a reason (`Ended`), and that the main thread stops reading
  only when there is no more to read (`Drained`). A refusal then has a reason
  outside the program, and an acceptance has counted `Ratio * Chunks`.
- `ImageReadsBack`, for files of any number, name and contents whose clusters fit
  the table, the data area and FAT12 (`Fits`). The lemmas go from the byte up: an
  entry that is set reads back (`EntryReadsBack`) and leaves every other as it was,
  the one with which it shares a byte included (`OthersStay`); what is kept of a
  text is kept in order (`InOrderOnly`), so that reading undoes the checkout
  (`PayloadIsContents`); the reader's checksum is the writer's (`ChecksumsAgree`)
  and finds the long name (`LongNameReads`); a chain leads through its clusters
  (`ChainReads`) to the file's bytes (`FileReads`). `FatInv` then says of each state
  that the files dealt with are described and chained (`FileKept`), and the one at
  hand as far as `index` (`AtHand`). A recursive function is compared with its
  closed form, or with another, at the least place where they would differ
  (`LeastPlace`), because theorems of induction cannot be used here.

**`InventoryProofs`**: `InventoryTrue`, over `MCTools`, for databases of any length and
packages of any texts. What pacman writes of a package is read back: after each
section the reader holds the fields so far as they were installed (`Held`), whether
the section has lines (`SectionRead`) or is the description, which may open a field
before its own section comes (`DescriptionRead`); so every field but a description
comes out as it went in (`PackageRead`). Two packages never share a place, so the
sorted list has each of them once and in order (`SortedIs`); counting an interval
by an injection into itself shows that no place stays empty. `ListInv` says, stage
by stage, that what is loaded is a beginning of the database (`LoadedInv`), that
the sorted list is the whole of it in its places (`SortedInv`), and that each file
is written from that list (`WrittenInv`).

`TypeOK` is proved for `Machine`, `Window`, `Prepare`, `Resources` and `GuestBuild`, and
in no run for all but the first. Elsewhere a safety invariant of the module includes it.

Model-checked only, because they cannot be proved here:

- liveness (`OpensUnlessParted`, `OpensUnlessTorn`, `FactoryArrives`, `FactoryBuilt`,
  `RestartContinues`, `VerificationEnds`, `WindowAnswers`), which is beyond the proof
  system, as is anything that needs ENABLED.

Every invariant and every other property of the passing runs is a theorem.

## Disagreements

Three runs state what a document or a message says and TLC refutes it:

- `MCMachineReopenCrash`: Experience.ps1:51 moves the overlay into place before
  its receipt is written. Killed in between, every later attempt finds the
  overlay and Run-VM.ps1 refuses it for want of its receipt. A write of the receipt
  that fails (:60: a full disk, a file held by another program) does the same without
  a kill; `MachineCompleteWhenIdle` and `OpensUnlessParted` except it.
- `MCWindowContinue`: MainWindow.xaml.cs:45 acts on a Continue record only if the
  elevated worker has exited when the timer first reads it. Otherwise the record
  counts as rendered and "Continuing setup automatically." never happens.
- `MCPrepareTorn`: an installer cut short leaves the two programs. Prepare.ps1:64
  then skips Build-Runtime.ps1, which would have replaced the directory, and
  Run-VM.ps1:30 refuses at every attempt.

Others, observed with TLC on the same modules when a property is stated without
the exception it now carries, or with two workers instead of one:

- the archive of a factory machine leaves `firmware-vars.fd` behind
  (Archive-ActiveMachine.ps1:33), while Reset.ps1:32-34 archives it; a Reset.ps1 that
  fails to move it (:33) has archived the disk, and the next fallback machine starts
  with the variables of the old one;
- a disposable overlay that cannot be removed stays in Temp, and Run-VM.ps1 then ends
  without releasing its mutex (Run-VM.ps1:180-183), which is abandoned if another
  worker holds a handle;
- an archive that fails at the receipt has moved the disk already and reports that
  the machine was not changed (Archive-ActiveMachine.ps1:41);
- a kill during qemu-img create leaves a torn fallback disk at its final path
  (Run-VM.ps1:56);
- the mutex is the worker's and not QEMU's, so after a kill it is free while QEMU
  writes on (README.md:103-104 says it prevents this); `DisposableBaseStable`
  therefore holds only without kills;
- with two workers an overlay moved into place may be one the other has made since
  the check (Experience.ps1:51), and an archive may part an overlay from its
  receipt (Archive-ActiveMachine.ps1:36);
- in the window: a second Enable cancelled at the prompt clears the first one's
  continuation (MainWindow.xaml.cs:112); a failed elevation read before its worker exits
  never clears it (:52); the journal replaces a local failure at the next tick (:142);
  after the resumed sign-in the first tick renders the record of before the restart, and
  a click on it restarts again with the continuation used up (:101), which
  `RestartContinues` excepts; Inspect asks to enable a feature that is pending a restart
  (Experience.ps1:75);
- the journal is replaced with `[IO.File]::Replace` and `$null` for the backup's name
  (Experience.Common.ps1:60), which PowerShell passes on as an empty string: whether
  every record after the first then throws is worth checking on Windows. `Window`
  takes the writes to succeed, the last one of a catch block included, on which
  `WindowAnswers` rests;
- in the materialiser: a failed record after `active.json` quarantines the build that
  was just accepted and leaves the pointer to it (Materialize-Factory.ps1:344, :347);
  a bad bundled part stops every attempt
  (Materialize-Factory.ps1:127); one moved to its partial path and killed there is
  quarantined (:118); with two workers an active build may be quarantined (:266),
  a verified partial replaced before it is moved (:170), and `active.json` written
  for a build that has gone (:343). With three, an unverified guest is accepted for
  a while: the first is about to write the receipt of a build that the second has
  verified a partial guest of, the third fails to expand over that partial, and the
  second moves it into place; the third's error handler quarantines it;
- with two workers the QEMU installer that is started elevated may be a bad one:
  one worker verifies the partial, another clears and downloads it again, badly,
  and the first moves what is there then (Build-Runtime.ps1:81-88);
- a failed memory query chooses 8192 MiB, which Run-VM.ps1 refuses on a PC with
  less than 10 GiB (Experience.Common.ps1:90);
- a killed `make_cidata.py` leaves `.cidata.img.*` beside its sources, and every
  later build refuses "cidata source set mismatch" until someone removes it
  (make_cidata.py:136, :190); two writers at once refuse each other the same way;
- a package without a licence whose description reads `%LICENSE%` has no licence in
  any file, not even "unknown": the description opens the field, empty
  (package_metadata.py:19), and the default is for a field that is missing (:48);
- nothing checks that the files fit into the clusters (make_cidata.py:161): a
  payload beyond the data area would lengthen the image;
- a package that fails half way leaves a zip that opens and is incomplete, beside
  the older SHA256SUMS (package.py:95); it does not agree with it;
- `package.py` leaves out whatever has `bin` or `obj` anywhere in its absolute path
  (:69), so a checkout below such a directory packs only the root's files;
- an ISO that decays in the cache fails every later guest build: only a missing one
  is downloaded (guest/build.sh:91, :105); an ephemeral cache removes an ISO that
  another build with the same cache still wants (:169);
- two guest builders with one output directory both find it empty (:83) and may mix
  their metadata; `AcceptedIsOneBuild` is checked and proved for one;
- `image/build.sh` looks for older artifacts only after the install (:185), and
  writes parts under their release names before the manifest and the sums, although
  its comment says that an interrupted build never receives a release name (:171);
  with two builders artifacts may be overwritten, and parts beyond the manifest
  may be uploaded with it, because the draft's check looks only at the files that the
  sums name (build-image.yml:92). The parts that the manifest names are whole
  nevertheless.

Not a disagreement but a dependence: the publication workflow counts assets and
does not compare digests (publish-v0.3.0-rc.2.yml:38-40). `PublishedMaterializes`
holds because the owner publishes after a promotion run that verified the draft,
as launch-pack/HANDOFF.md:7 asks; `CheckDraft` has that as its guard.

## Not modelled

- Layout, wording, logs, help text, the folder buttons, Doctor.ps1's report.
- Strict parsing of manifests and archive paths: models start from a manifest
  that was accepted, or from contents that agree or do not.
- Names with a resolution of one second in Quarantine and Backups.
- The cidata image, taken as good, and QEMU installations outside the app.
- `Build-Runtime.ps1 -Mode Bundle`, `Enable-Hypervisor.ps1`, and the installer,
  portable runtime and `Build-Package.ps1` builds: they copy and hash in order,
  keep nothing between runs, and are within reach of tests.
- The compatibility launcher, which starts the native window and keeps no state.
- `make_cidata.py --check`, which only compares; names, modes and times in the zip;
  the purl's quoting and the other fields of the bill of materials; options,
  firmware lookup and what an installation contains in the builders.
- The build workflow's own draft job, which only creates and never resumes.

## Plan

1. Done: `Machine`, `Resources` and `Prepare` with their proofs, `Window`,
   `Materializer`, `Release`; `Vault` with its refinement checked and proved; the
   builders.
2. Done: proofs of every safety property and action property that the runs check,
   the inventory included; `Store`, with its refinement checked and proved.
3. A store for two workers: which of its promises survive, and what they need.
4. Composition of `Window` and `Machine` over one journal and one mutex, with the
   workers' operations in place of abstract outcomes.
5. Names with a clock of one second.
