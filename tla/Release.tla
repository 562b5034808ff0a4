------------------------------- MODULE Release -------------------------------
(***************************************************************************)
(* From build outputs to a public release: assemble_release.py checks the     *)
(* runtime and the guest and writes the manifest that the installer embeds,   *)
(* retarget_release_manifest.py binds it to a public tag, the promotion       *)
(* workflow uploads the bundle to a draft release, in as many runs as it      *)
(* takes, and the publication workflow makes the draft public.                *)
(*                                                                         *)
(* A digest stands for the bytes: two files of equal content are equal here.  *)
(* Workflow runs fail at any call; the runs of one workflow do not overlap    *)
(* (its concurrency group), a run of one may overlap a run of the other.      *)
(***************************************************************************)
EXTENDS Naturals

CONSTANTS
  Builds,     \* runs of the build workflows, each with outputs of its own
  Trees,      \* the trees of files a runtime archive may hold
  Images,     \* the factory images a guest stream may expand to
  None,       \* no bundle, no asset
  Starter,    \* an asset whose upload was cut short
  Corrupt,    \* bytes that no build produced
  MaxFaults,  \* bound: calls that fail, transfers that go wrong
  MaxRuns     \* bound: runs of the promotion workflow

ASSUME ReleaseAssumption == {MaxFaults, MaxRuns} \subseteq Nat

(* The tag of an assembled candidate, and the public one. *)
FactoryTag == "factory-v0.3.0"
Tag == "v0.3.0-rc.2"

(* A runtime archive: its files, and the payload manifest embedded in it,     *)
(* which describes a tree.                                                   *)
Archives == [tree : Trees, embedded : Trees]

(* The parts of an archive, rejoined; None if their numbers have a gap.       *)
Parts(S) == S \cup {None}

(* SHA256SUMS: agrees with the directory, or has a line that disagrees with   *)
(* its file, or leaves a file out.                                           *)
Sums == {"exact", "mismatch", "partial"}

(* What the two components' directories may hold. *)
Runtimes == [sums : Sums, archive : Archives, parts : Parts(Archives), outer : Trees]
Guests == [sums : Sums, parts : Parts(Images), transport : Images, factory : Images]

Manifests == [tag : {FactoryTag, Tag}, archive : Archives, payload : Trees,
              stream : Images, image : Images]

Names == {"runtime", "guest", "installer"}
Bundles == [runtime : Archives, guest : Images, installer : Manifests]

(* The marks for no file and for bytes of no build are nobody's files. *)
ASSUME MarksApart ==
  /\ None \notin Bundles
  /\ {None, Starter, Corrupt} \cap (Archives \cup Images \cup Manifests) = {}

VARIABLES
  bundle,    \* files of each build's bundle, None before it is assembled
  tag,       \* what refs/tags/<Tag> names
  release,   \* the release of that tag
  assets,    \* its assets
  pc,        \* next step of the promotion run
  pinned,    \* the build whose artifact it uploads
  todo,      \* files it has still to come to
  current,   \* the file it is at
  verdict,   \* how the last run ended
  publisher, \* next step of the publication run
  clean,     \* no call of the promotion run failed so far
  verified,  \* some promotion run ended well
  faults, runs

promotion == <<pc, pinned, todo, current, verdict, clean, verified>>
vars == <<bundle, tag, release, assets, promotion, publisher, faults, runs>>

Init ==
  /\ bundle = [b \in Builds |-> None]
  /\ tag \in {"none", "exact", "other"}
  /\ release = "none"
  /\ assets = [n \in Names |-> None]
  /\ pc = "idle" /\ pinned \in Builds /\ todo = {} /\ current = "installer"
  /\ verdict = "none" /\ publisher = "idle"
  /\ clean = TRUE /\ verified = FALSE
  /\ faults = 0 /\ runs = 0

-----------------------------------------------------------------------------
(* Assembly. *)

(* Mutant: the files are compared with the manifest beside the archive only. *)
RuntimeTreeVerified(r) ==
  r.sums = "exact" /\ r.parts = r.archive /\ r.archive.tree = r.outer

(* verify_runtime: the parts are the archive, the manifest beside it is the   *)
(* one inside, and describes the files inside.                               *)
RuntimeVerified(r) ==
  /\ r.sums = "exact"
  /\ r.parts = r.archive
  /\ r.archive.embedded = r.outer
  /\ r.archive.tree = r.outer

(* verify_guest: the parts are the stream of the guest's manifest, and expand *)
(* to its image.                                                             *)
GuestVerified(g) ==
  /\ g.sums = "exact"
  /\ g.parts = g.transport
  /\ g.parts = g.factory

(* build_manifest: every digest computed from the files at hand. *)
RootManifest(r, g) ==
  [tag |-> FactoryTag, archive |-> r.parts, payload |-> r.outer,
   stream |-> g.parts, image |-> g.parts]

(* Assemble-FactoryRelease.ps1, into a directory that must not exist yet; an  *)
(* assembly that is refused leaves no candidate.                             *)
Assemble(b) ==
  /\ bundle[b] = None
  /\ \E r \in Runtimes, g \in Guests :
       /\ RuntimeVerified(r) /\ GuestVerified(g)
       /\ bundle' = [bundle EXCEPT ![b] =
                       [runtime |-> r.parts, guest |-> g.parts,
                        installer |-> RootManifest(r, g)]]
  /\ UNCHANGED <<tag, release, assets, promotion, publisher, faults, runs>>

(* Mutant: only one of the two archives is rejoined and compared. *)
OnePartMatches(m, runtime, guest) == runtime = m.archive

(* retarget_manifest: the parts given are those the manifest names. *)
PartsMatch(m, runtime, guest) == runtime = m.archive /\ guest = m.stream

(* The manifest of b bound to the public tag, beside the parts found in the   *)
(* given directory, which may be another build's.                            *)
Retarget(b, c) ==
  /\ bundle[b] # None /\ bundle[c] # None
  /\ bundle[b].installer.tag = FactoryTag
  /\ PartsMatch(bundle[b].installer, bundle[c].runtime, bundle[c].guest)
  /\ bundle' = [bundle EXCEPT ![b] =
                  [runtime |-> bundle[c].runtime, guest |-> bundle[c].guest,
                   installer |-> [bundle[b].installer EXCEPT !.tag = Tag]]]
  /\ UNCHANGED <<tag, release, assets, promotion, publisher, faults, runs>>

-----------------------------------------------------------------------------
(* The promotion workflow. *)

Fault == faults < MaxFaults /\ faults' = faults + 1 /\ clean' = FALSE
Calm == UNCHANGED <<faults, clean>>

Goto(label) == pc' = label /\ UNCHANGED <<verdict, verified>>
Ended(v) == pc' = "idle" /\ verdict' = v /\ verified' = (verified \/ v = "verified")

(* The owner dispatches a run of the workflow, which pins a build. *)
Dispatch(b) ==
  /\ pc = "idle" /\ runs < MaxRuns
  /\ pc' = "bundle" /\ pinned' = b /\ clean' = TRUE /\ verdict' = "none"
  /\ runs' = runs + 1
  /\ UNCHANGED <<bundle, tag, release, assets, todo, current, publisher,
                 verified, faults>>

(* The run, the artifact and its digest are the pinned ones, SHA256SUMS       *)
(* agrees, and the manifest is bound to the public tag.                      *)
BundleProved == bundle[pinned] # None /\ bundle[pinned].installer.tag = Tag

ProveBundle ==
  /\ pc = "bundle"
  /\ IF BundleProved THEN Goto("tag") ELSE Ended("failed")
  /\ Calm
  /\ UNCHANGED <<bundle, tag, release, assets, pinned, todo, current,
                 publisher, runs>>

(* Mutant: any tag that is there will do. *)
TagPresent == tag # "none"

(* A tag that is there must name the release commit. *)
TagAccepted == tag = "exact"

ResumeTag ==
  /\ pc = "tag" /\ tag # "none"
  /\ IF TagAccepted THEN Goto("draft") ELSE Ended("failed")
  /\ Calm
  /\ UNCHANGED <<bundle, tag, release, assets, pinned, todo, current,
                 publisher, runs>>

(* A query that fails with the tag there leads to this too, and is refused:    *)
(* see RunFails.                                                             *)
CreateTag ==
  /\ pc = "tag"
  /\ \/ tag = "none" /\ tag' = "exact" /\ Goto("draft") /\ Calm
     \/ tag = "none" /\ tag' = "exact" /\ Ended("failed") /\ Fault
  /\ UNCHANGED <<bundle, release, assets, pinned, todo, current, publisher, runs>>

(* The release of this tag, created if there is none, must be a draft. *)
OpenDraft ==
  /\ pc = "draft"
  /\ \/ /\ release # "published" /\ release' = "draft"
        /\ Goto("file") /\ todo' = Names /\ Calm
     \/ /\ release = "none" /\ release' = "draft"
        /\ Ended("failed") /\ UNCHANGED todo /\ Fault
     \/ /\ release = "published" /\ UNCHANGED release
        /\ Ended("failed") /\ UNCHANGED todo /\ Calm
  /\ UNCHANGED <<bundle, tag, assets, pinned, current, publisher, runs>>

(* Size and digest of the asset are those of the file. *)
Same(n) == assets[n] = bundle[pinned][n]

(* Mutants: whatever differs is deleted; nothing is. *)
DeletableIfDifferent(n) == assets[n] # None /\ ~Same(n)
NeverDeletable(n) == FALSE

(* Only an upload that was cut short is deleted. *)
Deletable(n) == assets[n] = Starter

InspectAsset(n) ==
  /\ pc = "file" /\ n \in todo
  /\ current' = n
  /\ IF Deletable(n) THEN Goto("delete") /\ UNCHANGED todo
     ELSE IF assets[n] = None THEN Goto("upload") /\ UNCHANGED todo
     ELSE IF Same(n) THEN Goto("file") /\ todo' = todo \ {n}
     ELSE Ended("failed") /\ UNCHANGED todo
  /\ Calm
  /\ UNCHANGED <<bundle, tag, release, assets, pinned, publisher, runs>>

DeleteStarter ==
  /\ pc = "delete"
  /\ assets' = [assets EXCEPT ![current] = None]
  /\ \/ Goto("upload") /\ Calm
     \/ Ended("failed") /\ Fault
  /\ UNCHANGED <<bundle, tag, release, pinned, todo, current, publisher, runs>>

(* The response names what was stored.  curl retries after any error, and is  *)
(* refused if the name is taken by then: by a part of the upload, by all of it *)
(* with the response lost, or by bytes that changed on the way.              *)
UploadAsset ==
  /\ pc = "upload"
  /\ \/ /\ assets' = [assets EXCEPT ![current] = bundle[pinned][current]]
        /\ Goto("file") /\ todo' = todo \ {current} /\ Calm
     \/ /\ \E stored \in {None, Starter, Corrupt, bundle[pinned][current]} :
             assets' = [assets EXCEPT ![current] = stored]
        /\ Ended("failed") /\ UNCHANGED todo /\ Fault
  /\ UNCHANGED <<bundle, tag, release, pinned, current, publisher, runs>>

(* Every file is an asset of a draft, and no other is. *)
InventoryExact == release = "draft" /\ \A n \in Names : Same(n)

VerifyInventory ==
  /\ pc = "file" /\ todo = {}
  /\ Ended(IF InventoryExact THEN "verified" ELSE "failed")
  /\ Calm
  /\ UNCHANGED <<bundle, tag, release, assets, pinned, todo, current,
                 publisher, runs>>

(* A call that fails with nothing done, a timeout, a cancelled run. *)
RunFails ==
  /\ pc # "idle" /\ Ended("failed") /\ Fault
  /\ UNCHANGED <<bundle, tag, release, assets, pinned, todo, current,
                 publisher, runs>>

-----------------------------------------------------------------------------
(* The publication workflow.                                                 *)

(* It looks at the number of the assets and at their states, not at their     *)
(* digests: that the draft was verified is for the owner to have seen.       *)
DraftComplete ==
  release = "draft" /\ \A n \in Names : assets[n] \notin {None, Starter}

(* The owner pushes the workflow once a promotion run has ended well. *)
CheckDraft ==
  /\ publisher = "idle" /\ verified /\ DraftComplete
  /\ publisher' = "publish"
  /\ UNCHANGED <<bundle, tag, release, assets, promotion, faults, runs>>

PublishRelease ==
  /\ publisher = "publish"
  /\ publisher' = "idle"
  /\ release' = "published"
  /\ UNCHANGED <<bundle, tag, assets, promotion, faults, runs>>

PublishFails ==
  /\ publisher = "publish" /\ faults < MaxFaults
  /\ publisher' = "idle" /\ faults' = faults + 1
  /\ UNCHANGED <<bundle, tag, release, assets, promotion, runs>>

-----------------------------------------------------------------------------
Next ==
  \/ \E b \in Builds : Assemble(b) \/ Dispatch(b)
  \/ \E b, c \in Builds : Retarget(b, c)
  \/ ProveBundle \/ ResumeTag \/ CreateTag \/ OpenDraft
  \/ \E n \in Names : InspectAsset(n)
  \/ DeleteStarter \/ UploadAsset \/ VerifyInventory \/ RunFails
  \/ CheckDraft \/ PublishRelease \/ PublishFails

Spec == Init /\ [][Next]_vars

-----------------------------------------------------------------------------
(* Type invariant: what each name of the release may hold. *)
TypeOK ==
  /\ bundle \in [Builds -> Bundles \cup {None}]
  /\ tag \in {"none", "exact", "other"}
  /\ release \in {"none", "draft", "published"}
  /\ \A n \in Names : assets[n] \in {None, Starter, Corrupt} \cup
       {bundle[b][n] : b \in {c \in Builds : bundle[c] # None}}
  /\ pc \in {"idle", "bundle", "tag", "draft", "file", "delete", "upload"}
  /\ pinned \in Builds /\ todo \subseteq Names /\ current \in Names
  /\ verdict \in {"none", "failed", "verified"}
  /\ publisher \in {"idle", "publish"}
  /\ clean \in BOOLEAN /\ verified \in BOOLEAN
  /\ faults \in 0 .. MaxFaults /\ runs \in 0 .. MaxRuns

(* Materialize-Factory.ps1 and Install-PortableRuntime.ps1 on what an         *)
(* installer downloads: the parts, the payload and the tree.                 *)
ClientAccepts(files) ==
  LET m == files["installer"] IN
  /\ m.tag = Tag
  /\ files["runtime"] = m.archive
  /\ files["runtime"].embedded = m.payload
  /\ files["runtime"].tree = files["runtime"].embedded
  /\ files["guest"] = m.stream
  /\ files["guest"] = m.image

(* Types; and a public release is one every client can materialize: its parts, *)
(* from whichever runs they were uploaded, are those of the manifest its       *)
(* installer embeds, at the URLs that manifest names.                        *)
PublishedMaterializes ==
  /\ TypeOK
  /\ release = "published" =>
    /\ \A n \in Names : assets[n] \notin {None, Starter, Corrupt}
    /\ ClientAccepts(assets)

(* A release, draft or not, is only ever made of the exact tag. *)
ReleaseAtExactTag == release # "none" => tag = "exact"

(* What was uploaded is never replaced or deleted, whatever run comes later   *)
(* ("Upload every missing asset without replacement").                       *)
AssetsNeverReplaced ==
  [][\A n \in Names :
       assets[n] \notin {None, Starter} => assets'[n] = assets[n]]_vars

(* A run in which no call fails resumes from anything earlier runs left: it    *)
(* is refused only for a bundle that is not the one to release, another tag,   *)
(* a release already public, or an asset with other bytes.                   *)
CleanRunSucceeds ==
  [][(pc # "idle" /\ verdict' = "failed" /\ clean') =>
       \/ ~BundleProved
       \/ tag = "other"
       \/ release = "published"
       \/ \E n \in Names : assets[n] \notin {None, Starter, bundle[pinned][n]}]_vars
=============================================================================
