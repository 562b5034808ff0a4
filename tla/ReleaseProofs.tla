---------------------------- MODULE ReleaseProofs ----------------------------
(***************************************************************************)
(* Proofs about the release, for any number of builds, workflow runs and    *)
(* faults: what becomes public is one build's bundle, whole, and no run      *)
(* takes away what another has uploaded.                                    *)
(***************************************************************************)
EXTENDS Release, TLAPS

(* A bundle bound to the public tag. *)
Public(b) == bundle[b] # None /\ bundle[b].installer.tag = Tag

(* The parts of every bundle are those its manifest names. *)
BundlesSound ==
  \A b \in Builds :
    bundle[b] # None =>
      LET m == bundle[b].installer IN
      /\ bundle[b].runtime = m.archive
      /\ m.archive.embedded = m.payload
      /\ m.archive.tree = m.payload
      /\ bundle[b].guest = m.stream
      /\ m.stream = m.image

(* What the steps of a promotion run have established so far. *)
BundleProven == pc \notin {"idle", "bundle"} => Public(pinned)
TagProven == pc \in {"draft", "file", "delete", "upload"} \/ release # "none" => tag = "exact"
DraftOpen == pc \in {"file", "delete", "upload"} => release # "none"
FilesDone ==
  pc \in {"file", "delete", "upload"} => \A n \in Names \ todo : Same(n)
AtCurrent ==
  /\ pc \in {"delete", "upload"} => current \in todo
  /\ pc = "delete" => assets[current] = Starter
  /\ pc = "upload" => assets[current] = None
Running == pc # "idle" => verdict = "none"

(* The assets come from bundles that will not change any more; once a run    *)
(* has ended well they are one build's.                                     *)
AssetsPublic ==
  \A n \in Names :
    assets[n] \notin {None, Starter, Corrupt} =>
      \E b \in Builds : Public(b) /\ assets[n] = bundle[b][n]
OneBuild ==
  verified => \E b \in Builds : Public(b) /\ \A n \in Names : assets[n] = bundle[b][n]
AfterVerified ==
  /\ publisher = "publish" \/ release = "published" => verified
  /\ verified => release # "none"

Types ==
  /\ bundle \in [Builds -> Bundles \cup {None}]
  /\ tag \in {"none", "exact", "other"}
  /\ release \in {"none", "draft", "published"}
  /\ DOMAIN assets = Names
  /\ pc \in {"idle", "bundle", "tag", "draft", "file", "delete", "upload"}
  /\ pinned \in Builds /\ todo \subseteq Names /\ current \in Names
  /\ verdict \in {"none", "failed", "verified"}
  /\ publisher \in {"idle", "publish"}
  /\ faults \in 0 .. MaxFaults /\ runs \in 0 .. MaxRuns
Flags == clean \in BOOLEAN /\ verified \in BOOLEAN

IInv ==
  /\ Types
  /\ Flags
  /\ BundlesSound
  /\ BundleProven
  /\ TagProven
  /\ DraftOpen
  /\ FilesDone
  /\ AtCurrent
  /\ Running
  /\ AssetsPublic
  /\ OneBuild
  /\ AfterVerified

-----------------------------------------------------------------------------
(* A file of a bundle is none of the marks. *)
LEMMA FilesAreReal ==
  ASSUME Types, NEW b \in Builds, bundle[b] # None, NEW n \in Names
  PROVE  bundle[b][n] \notin {None, Starter, Corrupt}
<1>1. /\ bundle[b].runtime \in Archives
      /\ bundle[b].guest \in Images
      /\ bundle[b].installer \in Manifests
  BY DEF Types, Bundles
<1> QED
  BY <1>1, MarksApart DEF Names

(* Before the first assembly the invariant holds. *)
LEMMA InitInvariant == Init => IInv
<1> SUFFICES ASSUME Init PROVE IInv
  OBVIOUS
<1>1. MaxFaults \in Nat /\ MaxRuns \in Nat
  BY ReleaseAssumption
<1>2. Types
  BY <1>1 DEF Init, Types, Names
<1>5. Flags
  BY DEF Init, Flags
<1>3. BundlesSound /\ BundleProven /\ TagProven /\ DraftOpen /\ FilesDone
  BY DEF Init, BundlesSound, BundleProven, TagProven, DraftOpen, FilesDone
<1>4. AtCurrent /\ Running /\ AssetsPublic /\ OneBuild /\ AfterVerified
  BY DEF Init, AtCurrent, Running, AssetsPublic, OneBuild, AfterVerified
<1> QED
  BY <1>2, <1>3, <1>4, <1>5 DEF IInv

(* A step that leaves every public bundle, the release and the promotion run *)
(* alone keeps what has been established about them.                        *)
LEMMA BundlesFrame ==
  ASSUME IInv, UNCHANGED <<tag, release, assets, promotion, publisher, faults, runs>>,
         \A b \in Builds : Public(b) => bundle'[b] = bundle[b]
  PROVE  /\ Flags'
         /\ BundleProven' /\ TagProven' /\ DraftOpen' /\ FilesDone' /\ AtCurrent'
         /\ Running' /\ AssetsPublic' /\ OneBuild' /\ AfterVerified'
<1> USE DEF IInv, promotion
<1>1. \A b \in Builds : Public(b) => Public(b)'
  BY DEF Public
<1>2. BundleProven' /\ TagProven' /\ DraftOpen' /\ AtCurrent' /\ Running' /\ AfterVerified'
  BY <1>1 DEF Types, BundleProven, TagProven, DraftOpen, AtCurrent, Running, AfterVerified
<1>3. FilesDone'
  BY DEF Types, FilesDone, Same, BundleProven
<1>4. AssetsPublic'
  BY <1>1 DEF AssetsPublic
<1>5. OneBuild'
  BY <1>1 DEF OneBuild
<1>6. Flags'
  BY Zenon DEF Flags
<1> QED
  BY <1>2, <1>3, <1>4, <1>5, <1>6

(* Assembling and retargeting keep the invariant: what is assembled is sound, *)
(* and retargeting changes nothing but the tag of a bundle not yet public.   *)
LEMMA BundleStep ==
  ASSUME IInv, NEW b \in Builds,
         Assemble(b) \/ \E c \in Builds : Retarget(b, c)
  PROVE  IInv'
<1> USE DEF IInv
<1>1. CASE Assemble(b)
  <2>1. PICK r \in Runtimes, g \in Guests :
          /\ RuntimeVerified(r) /\ GuestVerified(g)
          /\ bundle' = [bundle EXCEPT ![b] =
                          [runtime |-> r.parts, guest |-> g.parts,
                           installer |-> RootManifest(r, g)]]
    BY <1>1 DEF Assemble
  <2> DEFINE files == [runtime |-> r.parts, guest |-> g.parts,
                       installer |-> RootManifest(r, g)]
  <2>2. /\ r.parts \in Archives /\ r.outer \in Trees /\ g.parts \in Images
        /\ r.parts.embedded = r.outer /\ r.parts.tree = r.outer
    BY <2>1 DEF Runtimes, Guests, RuntimeVerified, GuestVerified
  <2>3. files \in Bundles
    BY <2>2 DEF Bundles, Manifests, RootManifest
  <2>4. Types'
    BY <1>1, <2>1, <2>3 DEF Assemble, Types, promotion
  <2>5. BundlesSound'
    BY <2>1, <2>2 DEF Types, BundlesSound, RootManifest
  <2>6. \A c \in Builds : Public(c) => bundle'[c] = bundle[c]
    BY <1>1, <2>1 DEF Types, Assemble, Public
  <2> QED
    BY <1>1, <2>4, <2>5, <2>6, BundlesFrame DEF Assemble
<1>2. ASSUME NEW c \in Builds, Retarget(b, c)
      PROVE  IInv'
  <2> DEFINE m == bundle[b].installer
             files == [runtime |-> bundle[c].runtime, guest |-> bundle[c].guest,
                       installer |-> [m EXCEPT !.tag = Tag]]
  <2>1. /\ bundle[b] \in Bundles /\ bundle[c] \in Bundles
        /\ bundle' = [bundle EXCEPT ![b] = files]
        /\ bundle[c].runtime = m.archive /\ bundle[c].guest = m.stream
    BY <1>2 DEF Retarget, Types, PartsMatch
  <2>2. m \in Manifests
    BY <2>1 DEF Bundles
  <2>3. [m EXCEPT !.tag = Tag] \in Manifests
    BY <2>2 DEF Manifests
  <2>4. files \in Bundles
    BY <2>1, <2>3 DEF Bundles
  <2>5. Types'
    BY <1>2, <2>1, <2>4 DEF Retarget, Types, promotion
  <2>6. /\ bundle[b] # None
        /\ files.runtime = bundle[b].runtime /\ files.guest = bundle[b].guest
        /\ files.installer.archive = m.archive /\ files.installer.payload = m.payload
        /\ files.installer.stream = m.stream /\ files.installer.image = m.image
    BY <1>2, <2>1, <2>2 DEF Retarget, BundlesSound, Manifests
  <2>7. BundlesSound'
    BY <2>1, <2>6 DEF Types, BundlesSound
  <2>8. \A d \in Builds : Public(d) => bundle'[d] = bundle[d]
    BY <1>2, <2>1 DEF Types, Retarget, Public, FactoryTag, Tag
  <2> QED
    BY <1>2, <2>5, <2>7, <2>8, BundlesFrame DEF Retarget
<1> QED
  BY <1>1, <1>2

(* A step that leaves the bundles and the assets alone, and ends no run well, *)
(* keeps what is said of them.                                              *)
LEMMA AssetsFrame ==
  ASSUME IInv, UNCHANGED <<bundle, assets>>, verified' => verified
  PROVE  BundlesSound' /\ AssetsPublic' /\ OneBuild'
BY DEF IInv, BundlesSound, AssetsPublic, OneBuild, Public

(* A run about to delete or upload is there before any run has ended well:    *)
(* after that every asset is a file of a build.                              *)
LEMMA NothingToUpload ==
  ASSUME IInv, pc \in {"delete", "upload"}
  PROVE  ~verified
<1> SUFFICES ASSUME verified PROVE FALSE
  OBVIOUS
<1>1. PICK b \in Builds : Public(b) /\ \A n \in Names : assets[n] = bundle[b][n]
  BY DEF IInv, OneBuild
<1>2. current \in Names /\ assets[current] \in {None, Starter}
  BY DEF IInv, Types, AtCurrent
<1> QED
  BY <1>1, <1>2, FilesAreReal DEF IInv, Public

(* The steps of a promotion run up to the draft keep the invariant. *)
LEMMA PromotionStart ==
  ASSUME IInv,
         \/ \E b \in Builds : Dispatch(b)
         \/ ProveBundle \/ ResumeTag \/ CreateTag \/ OpenDraft
  PROVE  IInv'
<1>0. MaxFaults \in Nat /\ MaxRuns \in Nat
  BY ReleaseAssumption
<1> USE DEF IInv, Goto, Ended, Calm, Fault
<1>1. ASSUME NEW b \in Builds, Dispatch(b) PROVE IInv'
  <2>1. Types' /\ AtCurrent' /\ Running'
    BY <1>0, <1>1 DEF Dispatch, Types, AtCurrent, Running
  <2>2. Flags'
    BY <1>1, Zenon DEF Dispatch, Flags
  <2>3. BundlesSound' /\ AssetsPublic' /\ OneBuild' /\ AfterVerified'
    BY <1>1 DEF Dispatch, Types, BundlesSound, AssetsPublic, OneBuild,
       AfterVerified, Public, BundleProven, AtCurrent, FilesDone, Same
  <2>4. BundleProven' /\ TagProven' /\ DraftOpen' /\ FilesDone'
    BY <1>1 DEF Dispatch, Types, BundleProven, TagProven, DraftOpen,
       FilesDone, Public, Same, AtCurrent
  <2> QED
    BY <2>1, <2>2, <2>3, <2>4
<1>2. CASE ProveBundle
  <2>1. Types' /\ AtCurrent' /\ Running'
    BY <1>0, <1>2 DEF ProveBundle, BundleProved, Types, AtCurrent, Running
  <2>2. Flags'
    BY <1>2, Zenon DEF ProveBundle, Flags
  <2>3. BundlesSound' /\ AssetsPublic' /\ OneBuild' /\ AfterVerified'
    BY <1>2 DEF ProveBundle, BundleProved, Types, BundlesSound, AssetsPublic, OneBuild,
       AfterVerified, Public, BundleProven, AtCurrent, FilesDone, Same
  <2>4. BundleProven' /\ TagProven' /\ DraftOpen' /\ FilesDone'
    BY <1>2 DEF ProveBundle, BundleProved, Types, BundleProven, TagProven, DraftOpen,
       FilesDone, Public, Same, AtCurrent
  <2> QED
    BY <2>1, <2>2, <2>3, <2>4
<1>3. CASE ResumeTag
  <2>1. Types' /\ AtCurrent' /\ Running'
    BY <1>0, <1>3 DEF ResumeTag, TagAccepted, Types, AtCurrent, Running
  <2>2. Flags'
    BY <1>3, Zenon DEF ResumeTag, Flags
  <2>3. BundlesSound' /\ AssetsPublic' /\ OneBuild' /\ AfterVerified'
    BY <1>3 DEF ResumeTag, TagAccepted, Types, BundlesSound, AssetsPublic, OneBuild,
       AfterVerified, Public, BundleProven, AtCurrent, FilesDone, Same
  <2>4. BundleProven' /\ TagProven' /\ DraftOpen' /\ FilesDone'
    BY <1>3 DEF ResumeTag, TagAccepted, Types, BundleProven, TagProven, DraftOpen,
       FilesDone, Public, Same, AtCurrent
  <2> QED
    BY <2>1, <2>2, <2>3, <2>4
<1>4. CASE CreateTag
  <2>1. Types' /\ AtCurrent' /\ Running'
    BY <1>0, <1>4 DEF CreateTag, Types, AtCurrent, Running
  <2>2. Flags'
    BY <1>4, Zenon DEF CreateTag, Flags
  <2>5. verified' => verified
    BY <1>4, Zenon DEF CreateTag
  <2>6. BundlesSound' /\ AssetsPublic' /\ OneBuild'
    BY <1>4, <2>5, AssetsFrame DEF CreateTag
  <2>3. AfterVerified'
    BY <1>4, <2>5 DEF CreateTag, AfterVerified, Types
  <2>4. BundleProven' /\ TagProven' /\ DraftOpen' /\ FilesDone'
    BY <1>4 DEF CreateTag, Types, BundleProven, TagProven, DraftOpen,
       FilesDone, Public, Same, AtCurrent
  <2> QED
    BY <2>1, <2>2, <2>3, <2>4, <2>6
<1>5. CASE OpenDraft
  <2>1. Types' /\ AtCurrent' /\ Running'
    BY <1>0, <1>5 DEF OpenDraft, Types, AtCurrent, Running
  <2>2. Flags'
    BY <1>5, Zenon DEF OpenDraft, Flags
  <2>5. verified' => verified
    BY <1>5, Zenon DEF OpenDraft
  <2>6. BundlesSound' /\ AssetsPublic' /\ OneBuild'
    BY <1>5, <2>5, AssetsFrame DEF OpenDraft
  <2>3. AfterVerified'
    BY <1>5, <2>5 DEF OpenDraft, AfterVerified, Types
  <2>4. BundleProven' /\ TagProven' /\ DraftOpen' /\ FilesDone'
    BY <1>5 DEF OpenDraft, Types, BundleProven, TagProven, DraftOpen,
       FilesDone, Public, Same, AtCurrent
  <2> QED
    BY <2>1, <2>2, <2>3, <2>4, <2>6
<1> QED
  BY <1>1, <1>2, <1>3, <1>4, <1>5

(* Its steps on the assets keep the invariant. *)
LEMMA PromotionFiles ==
  ASSUME IInv,
         \/ \E n \in Names : InspectAsset(n)
         \/ DeleteStarter \/ UploadAsset \/ VerifyInventory \/ RunFails
  PROVE  IInv'
<1>0. MaxFaults \in Nat /\ MaxRuns \in Nat
  BY ReleaseAssumption
<1> USE DEF IInv, Goto, Ended, Calm, Fault
<1>1. ASSUME NEW n \in Names, InspectAsset(n) PROVE IInv'
  <2>1. Types' /\ AtCurrent' /\ Running'
    BY <1>0, <1>1 DEF InspectAsset, Deletable, Types, AtCurrent, Running
  <2>2. Flags'
    BY <1>1, Zenon DEF InspectAsset, Flags
  <2>3. BundlesSound' /\ AssetsPublic' /\ OneBuild' /\ AfterVerified'
    BY <1>1 DEF InspectAsset, Deletable, Types, BundlesSound, AssetsPublic, OneBuild,
       AfterVerified, Public, BundleProven, AtCurrent, FilesDone, Same
  <2>4. BundleProven' /\ TagProven' /\ DraftOpen' /\ FilesDone'
    BY <1>1 DEF InspectAsset, Deletable, Types, BundleProven, TagProven, DraftOpen,
       FilesDone, Public, Same, AtCurrent
  <2> QED
    BY <2>1, <2>2, <2>3, <2>4
<1>2. CASE DeleteStarter
  <2>1. Types' /\ AtCurrent' /\ Running'
    BY <1>0, <1>2 DEF DeleteStarter, Types, AtCurrent, Running
  <2>2. Flags'
    BY <1>2, Zenon DEF DeleteStarter, Flags
  <2>5. ~verified /\ ~verified'
    <3>1. ~verified
      BY <1>2, NothingToUpload DEF DeleteStarter
    <3>2. verified' => verified
      BY <1>2, Zenon DEF DeleteStarter
    <3> QED
      BY <3>1, <3>2
  <2>3. BundlesSound' /\ AssetsPublic' /\ OneBuild' /\ AfterVerified'
    BY <1>2, <2>5 DEF DeleteStarter, Types, BundlesSound, AssetsPublic, OneBuild,
       AfterVerified, Public
  <2>4. BundleProven' /\ TagProven' /\ DraftOpen' /\ FilesDone'
    BY <1>2 DEF DeleteStarter, Types, BundleProven, TagProven, DraftOpen,
       FilesDone, Public, Same, AtCurrent
  <2> QED
    BY <2>1, <2>2, <2>3, <2>4
<1>3. CASE UploadAsset
  <2>1. Types' /\ AtCurrent' /\ Running'
    BY <1>0, <1>3 DEF UploadAsset, Types, AtCurrent, Running
  <2>2. Flags'
    BY <1>3, Zenon DEF UploadAsset, Flags
  <2>5. ~verified /\ ~verified'
    <3>1. ~verified
      BY <1>3, NothingToUpload DEF UploadAsset
    <3>2. verified' => verified
      BY <1>3, Zenon DEF UploadAsset
    <3> QED
      BY <3>1, <3>2
  <2>6. BundlesSound' /\ OneBuild' /\ AfterVerified'
    BY <1>3, <2>5 DEF UploadAsset, Types, BundlesSound, OneBuild, AfterVerified
  <2>7. AssetsPublic'
    BY <1>3 DEF UploadAsset, Types, AssetsPublic, Public, BundleProven
  <2>3. BundlesSound' /\ AssetsPublic' /\ OneBuild' /\ AfterVerified'
    BY <2>6, <2>7
  <2>4. BundleProven' /\ TagProven' /\ DraftOpen' /\ FilesDone'
    BY <1>3 DEF UploadAsset, Types, BundleProven, TagProven, DraftOpen,
       FilesDone, Public, Same, AtCurrent
  <2> QED
    BY <2>1, <2>2, <2>3, <2>4
<1>4. CASE VerifyInventory
  <2>1. Types' /\ AtCurrent' /\ Running'
    BY <1>0, <1>4 DEF VerifyInventory, InventoryExact, Types, AtCurrent, Running
  <2>2. Flags'
    BY <1>4, Zenon DEF VerifyInventory, Flags
  <2>3. BundlesSound' /\ AssetsPublic' /\ OneBuild' /\ AfterVerified'
    BY <1>4 DEF VerifyInventory, InventoryExact, Types, BundlesSound, AssetsPublic, OneBuild,
       AfterVerified, Public, BundleProven, AtCurrent, FilesDone, Same
  <2>4. BundleProven' /\ TagProven' /\ DraftOpen' /\ FilesDone'
    BY <1>4 DEF VerifyInventory, InventoryExact, Types, BundleProven, TagProven, DraftOpen,
       FilesDone, Public, Same, AtCurrent
  <2> QED
    BY <2>1, <2>2, <2>3, <2>4
<1>5. CASE RunFails
  <2>1. Types' /\ AtCurrent' /\ Running'
    BY <1>0, <1>5 DEF RunFails, Types, AtCurrent, Running
  <2>2. Flags'
    BY <1>5, Zenon DEF RunFails, Flags
  <2>3. BundlesSound' /\ AssetsPublic' /\ OneBuild' /\ AfterVerified'
    BY <1>5 DEF RunFails, Types, BundlesSound, AssetsPublic, OneBuild,
       AfterVerified, Public, BundleProven, AtCurrent, FilesDone, Same
  <2>4. BundleProven' /\ TagProven' /\ DraftOpen' /\ FilesDone'
    BY <1>5 DEF RunFails, Types, BundleProven, TagProven, DraftOpen,
       FilesDone, Public, Same, AtCurrent
  <2> QED
    BY <2>1, <2>2, <2>3, <2>4
<1> QED
  BY <1>1, <1>2, <1>3, <1>4, <1>5

(* Publication keeps the invariant. *)
LEMMA PublicationStep ==
  ASSUME IInv, CheckDraft \/ PublishRelease \/ PublishFails
  PROVE  IInv'
<1>0. MaxFaults \in Nat /\ MaxRuns \in Nat
  BY ReleaseAssumption
<1> USE DEF IInv, CheckDraft, PublishRelease, PublishFails, promotion
<1>1. Types' /\ AtCurrent' /\ Running' /\ AfterVerified'
  BY <1>0 DEF Types, AtCurrent, Running, AfterVerified
<1>2. Flags'
  BY Zenon DEF Flags
<1>3. BundlesSound' /\ AssetsPublic' /\ OneBuild'
  BY DEF Types, BundlesSound, AssetsPublic, OneBuild, Public
<1>4. BundleProven' /\ TagProven' /\ DraftOpen' /\ FilesDone'
  BY DEF Types, BundleProven, TagProven, DraftOpen, FilesDone, Public, Same,
         OneBuild, AfterVerified
<1> QED
  BY <1>1, <1>2, <1>3, <1>4

(* Every step keeps the invariant. *)
LEMMA NextStep == IInv /\ [Next]_vars => IInv'
<1> SUFFICES ASSUME IInv, [Next]_vars PROVE IInv'
  OBVIOUS
<1>1. CASE UNCHANGED vars
  BY <1>1, BundlesFrame
     DEF vars, promotion, IInv, Types, BundlesSound
<1>2. CASE Next
  BY <1>2, BundleStep, PromotionStart, PromotionFiles, PublicationStep DEF Next
<1> QED
  BY <1>1, <1>2

LEMMA Invariance == Spec => []IInv
BY InitInvariant, NextStep, PTL DEF Spec

-----------------------------------------------------------------------------
(* What becomes public is for every client: the runtime, the guest and the    *)
(* manifest that the promotion runs uploaded, from whichever directories and   *)
(* in however many attempts, are the parts of one build that passed assembly. *)
THEOREM PublishedSafe == Spec => []PublishedMaterializes
<1>1. IInv => TypeOK
  <2> SUFFICES ASSUME IInv PROVE TypeOK
    OBVIOUS
  <2>1. \A n \in Names : assets[n] \in {None, Starter, Corrupt} \cup
          {bundle[b][n] : b \in {c \in Builds : bundle[c] # None}}
    BY DEF IInv, AssetsPublic, Public
  <2>2. clean \in BOOLEAN /\ verified \in BOOLEAN
    BY Zenon DEF IInv, Flags
  <2>3. /\ bundle \in [Builds -> Bundles \cup {None}]
        /\ tag \in {"none", "exact", "other"}
        /\ release \in {"none", "draft", "published"}
        /\ pc \in {"idle", "bundle", "tag", "draft", "file", "delete", "upload"}
        /\ pinned \in Builds /\ todo \subseteq Names /\ current \in Names
        /\ verdict \in {"none", "failed", "verified"}
        /\ publisher \in {"idle", "publish"}
        /\ faults \in 0 .. MaxFaults /\ runs \in 0 .. MaxRuns
    BY DEF IInv, Types
  <2> QED
    BY <2>1, <2>2, <2>3, Zenon DEF TypeOK
<1>2. ASSUME IInv, release = "published"
      PROVE  /\ \A n \in Names : assets[n] \notin {None, Starter, Corrupt}
             /\ ClientAccepts(assets)
  <2>1. verified
    BY <1>2 DEF IInv, AfterVerified
  <2>2. PICK b \in Builds : Public(b) /\ \A n \in Names : assets[n] = bundle[b][n]
    BY <1>2, <2>1 DEF IInv, OneBuild
  <2>3. \A n \in Names : assets[n] \notin {None, Starter, Corrupt}
    BY <1>2, <2>2, FilesAreReal DEF IInv, Public
  <2>4. /\ assets["runtime"] = bundle[b].runtime
        /\ assets["guest"] = bundle[b].guest
        /\ assets["installer"] = bundle[b].installer
    BY <2>2 DEF Names
  <2>5. ClientAccepts(assets)
    BY <1>2, <2>2, <2>4 DEF IInv, BundlesSound, Public, ClientAccepts
  <2> QED
    BY <2>3, <2>5
<1>3. IInv => PublishedMaterializes
  BY <1>1, <1>2 DEF PublishedMaterializes
<1> QED
  BY <1>3, Invariance, PTL

(* A release, draft or public, is of the commit it was built from. *)
THEOREM TagSafe == Spec => []ReleaseAtExactTag
<1>1. IInv => ReleaseAtExactTag
  BY DEF IInv, TagProven, ReleaseAtExactTag
<1> QED
  BY <1>1, Invariance, PTL

(* No run, whatever the earlier ones left and whichever call fails, replaces   *)
(* or deletes an asset whose upload had ended.                               *)
THEOREM AssetsSafe == Spec => AssetsNeverReplaced
<1> DEFINE Kept == \A n \in Names :
                     assets[n] \notin {None, Starter} => assets'[n] = assets[n]
<1>1. IInv /\ [Next]_vars => [Kept]_vars
  <2> SUFFICES ASSUME IInv, Next PROVE Kept
    BY DEF vars
  <2>1. CASE DeleteStarter
    BY <2>1 DEF DeleteStarter, IInv, Types, AtCurrent
  <2>2. CASE UploadAsset
    BY <2>2 DEF UploadAsset, IInv, Types, AtCurrent
  <2>3. ASSUME ~DeleteStarter, ~UploadAsset PROVE assets' = assets
    BY <2>3 DEF Next, Assemble, Dispatch, Retarget, ProveBundle, ResumeTag, CreateTag,
      OpenDraft, InspectAsset, VerifyInventory, RunFails, CheckDraft, PublishRelease,
      PublishFails
  <2> QED
    BY <2>1, <2>2, <2>3
<1> QED
  BY <1>1, Invariance, PTL DEF Spec, AssetsNeverReplaced

(* A run none of whose calls fails is refused only for a reason its owner has  *)
(* to mend: whatever killed runs left behind, it goes on from there.          *)
THEOREM CleanRunsSafe == Spec => CleanRunSucceeds
<1> DEFINE Refused == \/ ~BundleProved
                      \/ tag = "other"
                      \/ release = "published"
                      \/ \E n \in Names : assets[n] \notin {None, Starter, bundle[pinned][n]}
           Reason == pc # "idle" /\ verdict' = "failed" /\ clean' => Refused
<1>1. IInv /\ [Next]_vars => [Reason]_vars
  <2> SUFFICES ASSUME IInv, Next, pc # "idle", verdict' = "failed", clean' PROVE Refused
    BY DEF vars
  <2>1. ~Fault
    BY DEF Fault
  <2>2. verdict # "failed"
    BY DEF IInv, Running
  <2>3. CASE ProveBundle
    BY <2>2, <2>3 DEF ProveBundle, Goto
  <2>4. CASE ResumeTag
    BY <2>2, <2>4 DEF ResumeTag, TagAccepted, Goto, IInv, Types
  <2>5. CASE OpenDraft
    BY <2>1, <2>2, <2>5 DEF OpenDraft, Goto
  <2>6. ASSUME NEW n \in Names, InspectAsset(n) PROVE Refused
    BY <2>2, <2>6 DEF InspectAsset, Deletable, Same, Goto
  <2>7. CASE VerifyInventory
    <3>1. \A n \in Names : Same(n)
      BY <2>7 DEF VerifyInventory, IInv, FilesDone
    <3>2. ~InventoryExact
      BY <2>7 DEF VerifyInventory, Ended
    <3> QED
      BY <2>7, <3>1, <3>2 DEF VerifyInventory, InventoryExact, IInv, DraftOpen, Types
  <2>8. CASE CreateTag \/ DeleteStarter \/ UploadAsset \/ RunFails
    BY <2>1, <2>2, <2>8 DEF CreateTag, DeleteStarter, UploadAsset, RunFails, Goto
  <2>9. ASSUME \/ \E b \in Builds : Assemble(b) \/ Dispatch(b)
               \/ \E b, c \in Builds : Retarget(b, c)
               \/ CheckDraft \/ PublishRelease \/ PublishFails
        PROVE  FALSE
    BY <2>2, <2>9 DEF Assemble, Dispatch, Retarget, CheckDraft, PublishRelease,
      PublishFails, promotion
  <2> QED
    BY <2>3, <2>4, <2>5, <2>6, <2>7, <2>8, <2>9 DEF Next
<1> QED
  BY <1>1, Invariance, PTL DEF Spec, CleanRunSucceeds
=============================================================================
