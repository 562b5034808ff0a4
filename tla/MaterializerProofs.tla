-------------------------- MODULE MaterializerProofs --------------------------
(***************************************************************************)
(* Proofs about the factory materialiser, for any release and any number of *)
(* faults, kills and decayed files: two workers never get an unverified      *)
(* guest accepted, and one worker keeps what it has verified and activates   *)
(* nothing that is not complete.                                            *)
(***************************************************************************)
EXTENDS Materializer, FiniteSetTheorems, TLAPS

(* A team of one, without counting it. *)
One == \A m, n \in team : m = n

(* The stages of the script. *)
PartLabels == {"part", "badPart", "stale", "seed", "download", "verify", "publish"}
JoinLabels == {"join", "open", "joining", "verifyArchive", "publishArchive"}
RuntimeLabels == {"install", "installTools", "probe", "probing"}
GuestLabels == {"expand", "expanding", "verifyGuest", "moveGuest", "lock", "recheck",
                "receipt", "activate", "announce"}

(* The types of the files, and of what is known of the workers. *)
Types ==
  /\ team \subseteq Workers
  /\ seed \in [Parts -> Contents]
  /\ cache \in [Parts -> Contents]
  /\ partial \in [Parts -> Contents]
  /\ archive \in [Assets -> Contents]
  /\ joined \in [Assets -> Contents]
  /\ build \in Build \union {None}
  /\ faults \in Nat /\ kills \in Nat /\ decays \in Nat

Placed ==
  /\ pc \in [Workers -> Labels]
  /\ next \in [Workers -> Nat]
  /\ asset \in [Workers -> Assets]

(* Only the team works; a worker that fetches is at a part of the release. *)
InTeam == \A m \in Workers : pc[m] # "idle" => m \in team
AtPart ==
  \A m \in Workers :
    /\ next[m] \in 1 .. Len(PartOrder) + 1
    /\ pc[m] \in PartLabels => next[m] \in 1 .. Len(PartOrder)
    /\ pc[m] \in {"begin", "clean", "mkdir"} => next[m] = 1

(* A build with a program or an expansion in it stays. *)
OpenStays == BuildOpen => build # None

(* Two workers.  A worker that has not begun since it wrote the receipt of    *)
(* this build is outside the try block, or about to be.                     *)
Outside == {"idle", "begin", "clean", "failed", "activate", "announce"}
ReceiptWriter ==
  build # None /\ build.receipt => \E m \in team : pc[m] \in Outside

(* What spoils the partial guest that a worker has verified is an expansion   *)
(* of the other one, which has not got further than that, or has to begin     *)
(* again; the build has no receipt by then.                                 *)
SpoiledByOther ==
  build # None /\ build.guestPartial = "bad" =>
    \A m, n \in team :
      pc[m] = "moveGuest" /\ m # n =>
        /\ pc[n] \in {"expanding", "failed", "idle", "begin", "clean"}
        /\ ~build.receipt

(* So a bad guest in place meets no receipt, written or about to be. *)
BadGuestNoReceipt ==
  build # None /\ build.guest = "bad" =>
    ~build.receipt /\ \A m \in team : pc[m] # "receipt"

TwoInv == ReceiptWriter /\ SpoiledByOther /\ BadGuestNoReceipt

(* One worker.  What it is about to publish is what it has verified ... *)
Unspoiled ==
  \A m \in team :
    /\ pc[m] = "badPart" => cache[Part(m)] # "good"
    /\ pc[m] = "publish" => partial[Part(m)] = "good"
    /\ pc[m] = "publishArchive" => joined[asset[m]] = "good"
Clean ==
  decays = 0 => /\ \A p \in Parts : cache[p] # "bad"
                /\ \A a \in Assets : archive[a] # "bad"

(* ... and it comes to each label with the build it has made so far. *)
AssetAt ==
  \A m \in team :
    /\ pc[m] \in {"begin", "clean", "mkdir"} \union PartLabels \union RuntimeLabels =>
         asset[m] = "runtime"
    /\ pc[m] \in GuestLabels => asset[m] = "guest"
Progress ==
  \A m \in team :
    /\ pc[m] \in PartLabels \union JoinLabels \union RuntimeLabels \union GuestLabels =>
         build # None
    /\ pc[m] = "installTools" => "engine" \in build.components
    /\ pc[m] \in {"probe", "probing"} => build.components = Components
    /\ pc[m] \in JoinLabels \union GuestLabels /\ asset[m] = "guest" =>
         build.components = Components /\ build.probed = TRUE
    /\ pc[m] \in {"lock", "recheck", "receipt", "activate", "announce"} =>
         build.guest # "absent"
    /\ pc[m] \in {"recheck", "receipt", "activate", "announce"} => build.readOnly = TRUE
    /\ pc[m] \in {"activate", "announce"} => build.receipt = TRUE

OneInv == Unspoiled /\ Clean /\ AssetAt /\ Progress

(* The strengthening of the properties that the steps preserve. *)
BaseInv == Types /\ Placed /\ InTeam /\ AtPart /\ OpenStays

IInv ==
  /\ BaseInv
  /\ pointer \in BOOLEAN
  /\ AtMostTwo => TwoInv
  /\ One => OneInv

(* A step that does not touch the guest of the build there is. *)
SameGuest ==
  build' # None =>
    IF build = None
    THEN build'.guest = "absent" /\ build'.guestPartial = "absent" /\ build'.receipt = FALSE
    ELSE /\ build'.guest = build.guest
         /\ build'.guestPartial = build.guestPartial
         /\ build'.receipt = build.receipt

-----------------------------------------------------------------------------
(* What the steps make of a build directory is a build directory. *)
LEMMA BuildUpdates ==
  /\ EmptyBuild \in Build
  /\ \A b \in Build :
       /\ b # None
       /\ \A c \in Components : [b EXCEPT !.components = @ \union {c}] \in Build
       /\ [b EXCEPT !.probed = TRUE] \in Build
       /\ [b EXCEPT !.readOnly = TRUE] \in Build
       /\ [b EXCEPT !.receipt = TRUE] \in Build
       /\ \A x \in Contents : [b EXCEPT !.guestPartial = x] \in Build
       /\ b.guestPartial \in Contents /\ b.guest \in Contents
       /\ \A x \in Contents :
            [b EXCEPT !.guest = b.guestPartial, !.guestPartial = x] \in Build
BY NoneIsNoBuild DEF Build, EmptyBuild, Contents, Components

(* Before the first run nothing is there. *)
LEMMA InitInvariant == Init => IInv
<1> SUFFICES ASSUME Init PROVE IInv
  OBVIOUS
<1>0. Len(PartOrder) \in Nat \ {0}
  BY MaterializerAssumption
<1> USE DEF Init
<1>1. Types
  BY MaterializerAssumption DEF Types, Contents
<1>2. Placed /\ InTeam /\ AtPart /\ OpenStays
  BY <1>0 DEF Placed, Labels, Assets, InTeam, AtPart, PartLabels, OpenStays, BuildOpen
<1>3. TwoInv
  BY DEF TwoInv, ReceiptWriter, SpoiledByOther, BadGuestNoReceipt
<1>4. OneInv
  BY DEF OneInv, Types, Unspoiled, Clean, AssetAt, Progress, PartLabels, JoinLabels,
     RuntimeLabels, GuestLabels
<1> QED
  BY <1>1, <1>2, <1>3, <1>4 DEF IInv, BaseInv

-----------------------------------------------------------------------------
(* Whatever happens to the files, the workers stay where workers can be. *)
LEMMA PlacesKept ==
  ASSUME BaseInv, UNCHANGED team,
         NEW m \in Workers,
         \/ Start(m) \/ Begin(m) \/ QuarantineBuild(m) \/ MakeDirectories(m)
         \/ CheckPart(m) \/ QuarantinePart(m) \/ QuarantinePartial(m)
         \/ TakeSeed(m) \/ Download(m) \/ VerifyPart(m) \/ PublishPart(m)
         \/ CheckArchive(m) \/ OpenArchive(m) \/ CopyParts(m)
         \/ VerifyArchive(m) \/ PublishArchive(m) \/ InstallEngine(m)
         \/ InstallTools(m) \/ StartProbe(m) \/ EndProbe(m) \/ ExpandGuest(m)
         \/ EndExpand(m) \/ VerifyGuest(m) \/ MoveGuest(m) \/ LockGuest(m)
         \/ Recheck(m) \/ WriteReceipt(m) \/ Activate(m) \/ Announce(m)
         \/ FailBuild(m) \/ Throw(m) \/ Kill(m)
  PROVE  Placed' /\ InTeam' /\ AtPart'
<1>0. Len(PartOrder) \in Nat \ {0}
  BY MaterializerAssumption
<1> USE DEF BaseInv, Placed, Labels, Assets, AfterPart, InTeam, AtPart,
            PartLabels, Goto, Fail, Fault, downloads, archives, factory, place,
            bounds
<1>1. CASE Start(m)
  BY <1>1, <1>0 DEF Start
<1>2. CASE Begin(m)
  BY <1>2, <1>0 DEF Begin
<1>3. CASE QuarantineBuild(m)
  BY <1>3, <1>0 DEF QuarantineBuild
<1>4. CASE MakeDirectories(m)
  BY <1>4, <1>0 DEF MakeDirectories
<1>5. CASE CheckPart(m)
  <2>1. /\ pc[m] = "part" /\ asset' = asset
        /\ \/ pc' = [pc EXCEPT ![m] = "stale"] /\ next' = next
           \/ pc' = [pc EXCEPT ![m] = "badPart"] /\ next' = next
           \/ AfterPart(m)
    BY <1>5 DEF CheckPart
  <2> QED
    BY <2>1, <1>0
<1>6. CASE QuarantinePart(m)
  BY <1>6, <1>0 DEF QuarantinePart
<1>7. CASE QuarantinePartial(m)
  BY <1>7, <1>0 DEF QuarantinePartial
<1>8. CASE TakeSeed(m)
  BY <1>8, <1>0 DEF TakeSeed
<1>9. CASE Download(m)
  BY <1>9, <1>0 DEF Download
<1>10. CASE VerifyPart(m)
  BY <1>10, <1>0 DEF VerifyPart, PartialValid
<1>11. CASE PublishPart(m)
  <2>1. /\ pc[m] = "publish" /\ asset' = asset
        /\ (Fail(m) /\ next' = next) \/ AfterPart(m)
    BY <1>11 DEF PublishPart
  <2> QED
    BY <2>1, <1>0
<1>12. CASE CheckArchive(m)
  BY <1>12, <1>0 DEF CheckArchive, Joined
<1>13. CASE OpenArchive(m)
  BY <1>13, <1>0 DEF OpenArchive
<1>14. CASE CopyParts(m)
  BY <1>14, <1>0 DEF CopyParts
<1>15. CASE VerifyArchive(m)
  BY <1>15, <1>0 DEF VerifyArchive, ArchiveValid
<1>16. CASE PublishArchive(m)
  BY <1>16, <1>0 DEF PublishArchive, Joined
<1>17. CASE InstallEngine(m)
  BY <1>17, <1>0 DEF InstallEngine, Install
<1>18. CASE InstallTools(m)
  BY <1>18, <1>0 DEF InstallTools, Install
<1>19. CASE StartProbe(m)
  BY <1>19, <1>0 DEF StartProbe
<1>20. CASE EndProbe(m)
  BY <1>20, <1>0 DEF EndProbe
<1>21. CASE ExpandGuest(m)
  BY <1>21, <1>0 DEF ExpandGuest
<1>22. CASE EndExpand(m)
  BY <1>22, <1>0 DEF EndExpand
<1>23. CASE VerifyGuest(m)
  BY <1>23, <1>0 DEF VerifyGuest
<1>24. CASE MoveGuest(m)
  BY <1>24, <1>0 DEF MoveGuest
<1>25. CASE LockGuest(m)
  BY <1>25, <1>0 DEF LockGuest, SetReadOnly
<1>26. CASE Recheck(m)
  BY <1>26, <1>0 DEF Recheck, PayloadsInPlace
<1>27. CASE WriteReceipt(m)
  BY <1>27, <1>0 DEF WriteReceipt
<1>28. CASE Activate(m)
  BY <1>28, <1>0 DEF Activate
<1>29. CASE FailBuild(m)
  BY <1>29, <1>0 DEF FailBuild
<1>30. CASE Kill(m)
  BY <1>30, <1>0 DEF Kill
<1>31. CASE Announce(m)
  BY <1>31, <1>0 DEF Announce
<1>32. CASE Throw(m)
  BY <1>32, <1>0 DEF Throw
<1> QED
  BY <1>1, <1>2, <1>3, <1>4, <1>5, <1>6, <1>7, <1>8, <1>9, <1>10, <1>11, <1>12,
     <1>13, <1>14, <1>15, <1>16, <1>17, <1>18, <1>19, <1>20, <1>21, <1>22, <1>23,
     <1>24, <1>25, <1>26, <1>27, <1>28, <1>29, <1>30, <1>31, <1>32

(* The steps that leave the build alone keep the types. *)
LEMMA TypesKept ==
  ASSUME BaseInv, UNCHANGED team,
         NEW m \in Workers,
         \/ Start(m) \/ Begin(m) \/ CheckPart(m) \/ QuarantinePart(m)
         \/ QuarantinePartial(m) \/ TakeSeed(m) \/ Download(m)
         \/ VerifyPart(m) \/ PublishPart(m) \/ CheckArchive(m)
         \/ OpenArchive(m) \/ CopyParts(m) \/ VerifyArchive(m)
         \/ PublishArchive(m) \/ StartProbe(m) \/ Recheck(m) \/ Activate(m)
         \/ Announce(m) \/ Throw(m) \/ Kill(m)
  PROVE  Types' /\ OpenStays'
<1> USE DEF BaseInv, Types, Placed, OpenStays, BuildOpen, Contents, AfterPart,
            Goto, Fail, Fault, downloads, archives, factory, place, bounds
<1>1. CASE Start(m)
  BY <1>1 DEF Start
<1>2. CASE Begin(m)
  BY <1>2 DEF Begin
<1>3. CASE CheckPart(m)
  BY <1>3 DEF CheckPart, PartReady, AfterPart
<1>4. CASE QuarantinePart(m)
  BY <1>4 DEF QuarantinePart
<1>5. CASE QuarantinePartial(m)
  BY <1>5 DEF QuarantinePartial
<1>6. CASE TakeSeed(m)
  BY <1>6 DEF TakeSeed
<1>7. CASE Download(m)
  BY <1>7 DEF Download
<1>8. CASE VerifyPart(m)
  BY <1>8 DEF VerifyPart, PartialValid
<1>9. CASE PublishPart(m)
  <2> DEFINE p == Part(m)
  <2>1. /\ UNCHANGED <<seed, archive, joined, build, faults, kills, decays>>
        /\ pc[m] = "publish"
        /\ \E l \in {"join", "part", "failed"} : pc' = [pc EXCEPT ![m] = l]
        /\ \/ cache' = cache /\ partial' = partial
           \/ /\ cache' = [cache EXCEPT ![p] = partial[p]]
              /\ partial' = [partial EXCEPT ![p] = "absent"]
    BY <1>9 DEF PublishPart
  <2> HIDE DEF p
  <2> QED
    BY <2>1
<1>10. CASE CheckArchive(m)
  BY <1>10 DEF CheckArchive, Joined
<1>11. CASE OpenArchive(m)
  BY <1>11 DEF OpenArchive
<1>12. CASE CopyParts(m)
  BY <1>12 DEF CopyParts
<1>13. CASE VerifyArchive(m)
  BY <1>13 DEF VerifyArchive, ArchiveValid
<1>14. CASE PublishArchive(m)
  BY <1>14 DEF PublishArchive, Joined
<1>15. CASE StartProbe(m)
  BY <1>15 DEF StartProbe
<1>16. CASE Recheck(m)
  BY <1>16 DEF Recheck, PayloadsInPlace
<1>17. CASE Activate(m)
  BY <1>17 DEF Activate
<1>18. CASE Kill(m)
  BY <1>18 DEF Kill
<1>19. CASE Announce(m)
  BY <1>19 DEF Announce
<1>20. CASE Throw(m)
  BY <1>20 DEF Throw
<1> QED
  BY <1>1, <1>2, <1>3, <1>4, <1>5, <1>6, <1>7, <1>8, <1>9, <1>10, <1>11, <1>12,
     <1>13, <1>14, <1>15, <1>16, <1>17, <1>18, <1>19, <1>20

(* And so do those that change it, a build in use staying what it is. *)
LEMMA BuildKept ==
  ASSUME BaseInv, UNCHANGED team, NEW m \in Workers,
         \/ QuarantineBuild(m) \/ MakeDirectories(m) \/ InstallEngine(m) \/ InstallTools(m)
         \/ EndProbe(m) \/ ExpandGuest(m) \/ EndExpand(m) \/ VerifyGuest(m)
         \/ MoveGuest(m) \/ LockGuest(m) \/ WriteReceipt(m) \/ FailBuild(m)
  PROVE  Types' /\ OpenStays'
<1> USE DEF BaseInv, Types, Placed, OpenStays, BuildOpen, Goto, Fail, Fault,
            downloads, archives, factory, place, bounds
<1>1. ASSUME NEW c \in Components, NEW from, from # "probing",
             NEW to \in {"installTools", "probe"}, NEW refused,
             Install(m, c, from, to, refused)
      PROVE  Types' /\ OpenStays'
  <2> DEFINE b == IF build = None THEN EmptyBuild ELSE build
  <2>1. b \in Build
    BY BuildUpdates
  <2>2. build' \in {build, [b EXCEPT !.components = @ \union {c}]}
    BY <1>1 DEF Install
  <2>3. [b EXCEPT !.components = @ \union {c}] \in Build
    BY <2>1, BuildUpdates
  <2>4. \A x \in Build : x # None
    BY NoneIsNoBuild
  <2>5. build' \in Build \union {None} /\ (build # None => build' # None)
    BY <2>2, <2>3, <2>4
  <2> QED
    BY <1>1, <2>5 DEF Install
<1>2. CASE QuarantineBuild(m)
  <2>1. Types'
    BY <1>2, BuildUpdates DEF QuarantineBuild, Contents
  <2>2. OpenStays'
    BY <1>2, BuildUpdates DEF QuarantineBuild
  <2> QED
    BY <2>1, <2>2
<1>3. CASE MakeDirectories(m)
  <2>1. Types'
    BY <1>3, BuildUpdates DEF MakeDirectories, Contents
  <2>2. OpenStays'
    BY <1>3, BuildUpdates DEF MakeDirectories
  <2> QED
    BY <2>1, <2>2
<1>4. CASE EndProbe(m)
  <2>1. build' = build \/ (build # None /\ build' = [build EXCEPT !.probed = TRUE])
    BY <1>4 DEF EndProbe
  <2>2. build' \in Build \union {None} /\ (build # None => build' # None)
    BY <2>1, BuildUpdates DEF Contents
  <2> QED
    BY <1>4, <2>2 DEF EndProbe
<1>5. CASE ExpandGuest(m)
  <2> DEFINE b == IF build = None THEN EmptyBuild ELSE build
  <2>1. b \in Build
    BY BuildUpdates
  <2>2. build' \in {b, [b EXCEPT !.guestPartial = "bad"]}
    BY <1>5 DEF ExpandGuest
  <2>3. build' \in Build /\ build' # None
    BY <2>1, <2>2, BuildUpdates DEF Contents
  <2> QED
    BY <1>5, <2>3 DEF ExpandGuest
<1>6. CASE EndExpand(m)
  <2>1. build' = build \/ (build # None /\ build' = [build EXCEPT !.guestPartial = "good"])
    BY <1>6 DEF EndExpand
  <2>2. build' \in Build \union {None} /\ (build # None => build' # None)
    BY <2>1, BuildUpdates DEF Contents
  <2> QED
    BY <1>6, <2>2 DEF EndExpand
<1>7. CASE VerifyGuest(m)
  <2>1. build' = build \/ (build # None /\ build' = [build EXCEPT !.guestPartial = "absent"])
    BY <1>7 DEF VerifyGuest
  <2>2. build' \in Build \union {None} /\ (build # None => build' # None)
    BY <2>1, BuildUpdates DEF Contents
  <2> QED
    BY <1>7, <2>2 DEF VerifyGuest
<1>8. CASE MoveGuest(m)
  <2>1. Types'
    BY <1>8, BuildUpdates DEF MoveGuest, Contents
  <2>2. OpenStays'
    BY <1>8, BuildUpdates DEF MoveGuest
  <2> QED
    BY <2>1, <2>2
<1>9. CASE LockGuest(m)
  <2>1. Types'
    BY <1>9, BuildUpdates DEF LockGuest, SetReadOnly, Contents
  <2>2. OpenStays'
    BY <1>9, BuildUpdates DEF LockGuest, SetReadOnly
  <2> QED
    BY <2>1, <2>2
<1>10. CASE WriteReceipt(m)
  <2>1. Types'
    BY <1>10, BuildUpdates DEF WriteReceipt, Contents
  <2>2. OpenStays'
    BY <1>10, BuildUpdates DEF WriteReceipt
  <2> QED
    BY <2>1, <2>2
<1>11. CASE FailBuild(m)
  <2>1. Types'
    BY <1>11, BuildUpdates DEF FailBuild, Contents
  <2>2. OpenStays'
    BY <1>11, BuildUpdates DEF FailBuild
  <2> QED
    BY <2>1, <2>2
<1> QED
  BY <1>1, <1>2, <1>3, <1>4, <1>5, <1>6, <1>7, <1>8, <1>9, <1>10, <1>11
     DEF InstallEngine, InstallTools, Components

-----------------------------------------------------------------------------
(* Two workers: the steps that leave the build alone. *)
LEMMA TwoElsewhere ==
  ASSUME BaseInv, AtMostTwo, TwoInv, UNCHANGED team,
         NEW m \in Workers,
         \/ Start(m) \/ Begin(m) \/ CheckPart(m) \/ QuarantinePart(m)
         \/ QuarantinePartial(m) \/ TakeSeed(m) \/ Download(m)
         \/ VerifyPart(m) \/ PublishPart(m) \/ CheckArchive(m)
         \/ OpenArchive(m) \/ CopyParts(m) \/ VerifyArchive(m)
         \/ PublishArchive(m) \/ StartProbe(m) \/ Recheck(m) \/ Activate(m)
         \/ Announce(m) \/ Throw(m) \/ Kill(m)
  PROVE  TwoInv'
<1> USE DEF BaseInv, Types, Placed, InTeam, AtMostTwo, TwoInv, ReceiptWriter,
            SpoiledByOther, BadGuestNoReceipt, Outside, AfterPart, Goto, Fail,
            Fault, downloads, archives, factory, place, bounds
<1>1. CASE Start(m)
  BY <1>1 DEF Start
<1>2. CASE Begin(m)
  BY <1>2 DEF Begin
<1>3. CASE CheckPart(m)
  <2>1. /\ build' = build /\ pc[m] = "part"
        /\ \E l \in {"join", "part", "stale", "badPart"} : pc' = [pc EXCEPT ![m] = l]
    BY <1>3 DEF CheckPart
  <2> QED
    BY <2>1
<1>4. CASE QuarantinePart(m)
  BY <1>4 DEF QuarantinePart
<1>5. CASE QuarantinePartial(m)
  BY <1>5 DEF QuarantinePartial
<1>6. CASE TakeSeed(m)
  BY <1>6 DEF TakeSeed
<1>7. CASE Download(m)
  BY <1>7 DEF Download
<1>8. CASE VerifyPart(m)
  BY <1>8 DEF VerifyPart, PartialValid
<1>9. CASE PublishPart(m)
  <2>1. /\ build' = build /\ pc[m] = "publish"
        /\ \E l \in {"join", "part", "failed"} : pc' = [pc EXCEPT ![m] = l]
    BY <1>9 DEF PublishPart
  <2> QED
    BY <2>1
<1>10. CASE CheckArchive(m)
  BY <1>10 DEF CheckArchive, Joined
<1>11. CASE OpenArchive(m)
  BY <1>11 DEF OpenArchive
<1>12. CASE CopyParts(m)
  BY <1>12 DEF CopyParts
<1>13. CASE VerifyArchive(m)
  BY <1>13 DEF VerifyArchive, ArchiveValid
<1>14. CASE PublishArchive(m)
  BY <1>14 DEF PublishArchive, Joined
<1>15. CASE StartProbe(m)
  BY <1>15 DEF StartProbe
<1>16. CASE Recheck(m)
  BY <1>16 DEF Recheck, PayloadsInPlace
<1>17. CASE Activate(m)
  BY <1>17 DEF Activate
<1>18. CASE Kill(m)
  BY <1>18 DEF Kill
<1>19. CASE Announce(m)
  BY <1>19 DEF Announce
<1>20. CASE Throw(m)
  BY <1>20 DEF Throw
<1> QED
  BY <1>1, <1>2, <1>3, <1>4, <1>5, <1>6, <1>7, <1>8, <1>9, <1>10, <1>11, <1>12,
     <1>13, <1>14, <1>15, <1>16, <1>17, <1>18, <1>19, <1>20

(* The guest is what it was, except where it is expanded and put in place. *)
LEMMA GuestKept ==
  ASSUME BaseInv, NEW m \in Workers,
         \/ QuarantineBuild(m) \/ MakeDirectories(m) \/ InstallEngine(m) \/ InstallTools(m)
         \/ EndProbe(m) \/ LockGuest(m) \/ FailBuild(m)
  PROVE  SameGuest
<1> USE DEF SameGuest, BaseInv, Types
<1>1. \A x \in Build : x # None
  BY NoneIsNoBuild
<1>2. ASSUME NEW c, NEW from, NEW to, NEW refused, Install(m, c, from, to, refused)
      PROVE  SameGuest
  <2> DEFINE b == IF build = None THEN EmptyBuild ELSE build
  <2>1. b \in Build
    BY BuildUpdates
  <2>2. build' \in {build, [b EXCEPT !.components = @ \union {c}]}
    BY <1>2 DEF Install
  <2>3. /\ [b EXCEPT !.components = @ \union {c}].guest = b.guest
        /\ [b EXCEPT !.components = @ \union {c}].guestPartial = b.guestPartial
        /\ [b EXCEPT !.components = @ \union {c}].receipt = b.receipt
    BY <2>1 DEF Build
  <2> QED
    BY <2>2, <2>3 DEF EmptyBuild
<1>3. CASE QuarantineBuild(m) \/ FailBuild(m)
  BY <1>3 DEF QuarantineBuild, FailBuild
<1>4. CASE MakeDirectories(m)
  BY <1>4 DEF MakeDirectories, EmptyBuild
<1>5. CASE EndProbe(m)
  <2>1. build \in Build
    BY <1>5 DEF EndProbe, Placed, OpenStays, BuildOpen
  <2> QED
    BY <1>1, <1>5, <2>1 DEF EndProbe, Build
<1>6. CASE LockGuest(m)
  BY <1>1, <1>6 DEF LockGuest, SetReadOnly, Build
<1> QED
  BY <1>2, <1>3, <1>4, <1>5, <1>6 DEF InstallEngine, InstallTools

(* So two workers stay out of each other's way in these steps ... *)
LEMMA TwoGuestKept ==
  ASSUME BaseInv, AtMostTwo, TwoInv, UNCHANGED team, NEW m \in Workers,
         \/ QuarantineBuild(m) \/ MakeDirectories(m) \/ InstallEngine(m) \/ InstallTools(m)
         \/ EndProbe(m) \/ LockGuest(m) \/ FailBuild(m)
  PROVE  TwoInv'
<1>0. SameGuest
  BY GuestKept
<1> USE DEF SameGuest, BaseInv, Types, Placed, InTeam, TwoInv, ReceiptWriter,
            SpoiledByOther, BadGuestNoReceipt, Outside, Goto, Fail, Fault, AtMostTwo
<1>1. CASE QuarantineBuild(m)
  BY <1>0, <1>1 DEF QuarantineBuild
<1>2. CASE MakeDirectories(m)
  BY <1>0, <1>2 DEF MakeDirectories
<1>3. ASSUME NEW c, NEW from \in {"install", "installTools"},
             NEW to \in {"installTools", "probe"}, NEW refused,
             Install(m, c, from, to, refused)
      PROVE  TwoInv'
  <2>1. pc[m] = from /\ pc' = [pc EXCEPT ![m] = pc'[m]] /\ pc'[m] \in {"failed", to}
    BY <1>3 DEF Install
  <2>2. ReceiptWriter'
    BY <1>0, <2>1
  <2>3. SpoiledByOther'
    BY <1>0, <2>1
  <2>4. BadGuestNoReceipt'
    BY <1>0, <2>1
  <2> QED
    BY <2>2, <2>3, <2>4
<1>4. CASE EndProbe(m)
  BY <1>0, <1>4 DEF EndProbe
<1>5. CASE LockGuest(m)
  BY <1>0, <1>5 DEF LockGuest, SetReadOnly
<1>6. CASE FailBuild(m)
  BY <1>0, <1>6 DEF FailBuild
<1> QED
  BY <1>1, <1>2, <1>3, <1>4, <1>5, <1>6 DEF InstallEngine, InstallTools

(* ... and in those that expand it, verify it, move it and write the receipt. *)
LEMMA TwoGuestChanged ==
  ASSUME BaseInv, AtMostTwo, TwoInv, UNCHANGED team, NEW m \in Workers,
         \/ ExpandGuest(m) \/ EndExpand(m) \/ VerifyGuest(m) \/ MoveGuest(m) \/ WriteReceipt(m)
  PROVE  TwoInv'
<1>0. \A x \in Build : x # None
  BY NoneIsNoBuild
<1> USE DEF BaseInv, Types, Placed, InTeam, TwoInv, ReceiptWriter, SpoiledByOther,
            BadGuestNoReceipt, Outside, Goto, Fail, Fault, AtMostTwo
<1>1. CASE ExpandGuest(m)
  <2> DEFINE refused == \/ build = None
                         \/ "tools" \notin build.components
                         \/ \E o \in Workers : pc[o] = "expanding"
  <2>1. CASE refused
    <3>1. build' = IF build = None THEN EmptyBuild ELSE build
      BY <1>1, <2>1 DEF ExpandGuest, EmptyBuild
    <3>2. pc' = [pc EXCEPT ![m] = "failed"]
      BY <1>1, <2>1 DEF ExpandGuest, EmptyBuild
    <3> QED
      BY <1>1, <3>1, <3>2 DEF ExpandGuest, EmptyBuild
  <2>2. CASE ~refused
    <3>1. /\ build' = [build EXCEPT !.guestPartial = "bad"]
          /\ pc' = [pc EXCEPT ![m] = "expanding"]
          /\ pc[m] = "expand"
      BY <1>1, <2>2 DEF ExpandGuest
    <3>2. /\ build # None
          /\ build'.guestPartial = "bad"
          /\ build'.guest = build.guest
          /\ build'.receipt = build.receipt
      BY <2>2, <3>1 DEF Build
    <3>3. ReceiptWriter'
      BY <3>1, <3>2
    <3>4. \A n \in team : pc[n] = "moveGuest" => ~build.receipt
      BY <3>1, <3>2
    <3>5. SpoiledByOther'
      BY <3>1, <3>2, <3>4
    <3>6. BadGuestNoReceipt'
      BY <3>1, <3>2
    <3> QED
      BY <3>3, <3>5, <3>6
  <2> QED
    BY <2>1, <2>2
<1>2. CASE EndExpand(m)
  <2>1. build \in Build /\ build # None
    BY <1>0, <1>2 DEF EndExpand, OpenStays, BuildOpen
  <2>2. /\ build'.guest = build.guest /\ build'.receipt = build.receipt
        /\ build'.guestPartial \in {build.guestPartial, "good"}
    BY <1>2, <2>1 DEF EndExpand, Build
  <2>3. pc[m] = "expanding" /\ pc' = [pc EXCEPT ![m] = pc'[m]]
        /\ \/ pc'[m] = "failed"
           \/ pc'[m] = "verifyGuest" /\ build'.guestPartial = "good"
    BY <1>2, <2>1 DEF EndExpand, Build
  <2>4. ReceiptWriter'
    BY <2>1, <2>2, <2>3
  <2>5. SpoiledByOther'
    BY <2>1, <2>2, <2>3
  <2>6. BadGuestNoReceipt'
    BY <2>1, <2>2, <2>3
  <2> QED
    BY <2>4, <2>5, <2>6
<1>3. CASE VerifyGuest(m)
  <2>0. \/ build' = build
        \/ /\ build # None
           /\ build' = [build EXCEPT !.guestPartial = "absent"]
           /\ pc'[m] = "failed"
    BY <1>3 DEF VerifyGuest
  <2>1. \/ build' = None
        \/ /\ build # None
           /\ build'.guest = build.guest
           /\ build'.receipt = build.receipt
           /\ build'.guestPartial \in {build.guestPartial, "absent"}
    BY <2>0 DEF Build
  <2>2. /\ pc[m] = "verifyGuest" /\ pc' = [pc EXCEPT ![m] = pc'[m]]
        /\ \/ pc'[m] = "failed"
           \/ /\ pc'[m] = "moveGuest"
              /\ build' = build
              /\ build' # None => build'.guestPartial = "good"
    BY <1>3 DEF VerifyGuest
  <2>4. ReceiptWriter'
    BY <2>1, <2>2
  <2>5. SpoiledByOther'
    BY <2>1, <2>2
  <2>6. BadGuestNoReceipt'
    BY <2>1, <2>2
  <2> QED
    BY <2>4, <2>5, <2>6
<1>4. CASE MoveGuest(m)
  <2>0. CASE pc' = [pc EXCEPT ![m] = "failed"] /\ build' = build
    BY <1>4, <2>0 DEF MoveGuest
  <2>1. CASE ~(pc' = [pc EXCEPT ![m] = "failed"] /\ build' = build)
    <3>1. /\ build # None /\ ~Expanding /\ pc[m] = "moveGuest"
          /\ build' = [build EXCEPT !.guest = build.guestPartial, !.guestPartial = "absent"]
          /\ pc' = [pc EXCEPT ![m] = "lock"]
      BY <1>4, <2>1 DEF MoveGuest
    <3>2. /\ build'.guest = build.guestPartial
          /\ build'.guestPartial = "absent"
          /\ build'.receipt = build.receipt
      BY <3>1 DEF Build
    <3>3. \A n \in team : pc[n] # "expanding"
      BY <3>1 DEF Expanding
    <3>4. ReceiptWriter'
      BY <3>1, <3>2
    <3>5. SpoiledByOther'
      BY <3>2
    <3>6. BadGuestNoReceipt'
      BY <3>1, <3>2, <3>3
    <3> QED
      BY <3>4, <3>5, <3>6
  <2> QED
    BY <2>0, <2>1
<1>5. CASE WriteReceipt(m)
  <2>0. CASE build = None
    BY <1>5, <2>0 DEF WriteReceipt
  <2>1. CASE build # None
    <3>1. /\ pc[m] = "receipt" /\ m \in team
          /\ build' = [build EXCEPT !.receipt = TRUE]
          /\ pc' = [pc EXCEPT ![m] = "activate"]
      BY <1>5, <2>1 DEF WriteReceipt
    <3>2. build'.guest = build.guest /\ build'.guestPartial = build.guestPartial
      BY <2>1, <3>1 DEF Build
    <3>4. ReceiptWriter'
      BY <3>1
    <3>5. SpoiledByOther'
      BY <2>1, <3>1, <3>2
    <3>6. BadGuestNoReceipt'
      BY <2>1, <3>1, <3>2
    <3> QED
      BY <3>4, <3>5, <3>6
  <2> QED
    BY <2>0, <2>1
<1> QED
  BY <1>1, <1>2, <1>3, <1>4, <1>5
-----------------------------------------------------------------------------
(* One worker: the steps that leave the build alone. *)
LEMMA OneElsewhere ==
  ASSUME BaseInv, One, OneInv, UNCHANGED team,
         NEW m \in Workers,
         \/ Start(m) \/ Begin(m) \/ CheckPart(m) \/ QuarantinePart(m)
         \/ QuarantinePartial(m) \/ TakeSeed(m) \/ Download(m)
         \/ VerifyPart(m) \/ PublishPart(m) \/ CheckArchive(m)
         \/ OpenArchive(m) \/ CopyParts(m) \/ VerifyArchive(m)
         \/ PublishArchive(m) \/ StartProbe(m) \/ Recheck(m) \/ Activate(m)
         \/ Announce(m) \/ Throw(m) \/ Kill(m)
  PROVE  OneInv'
<1> USE DEF BaseInv, Types, Placed, InTeam, One, OneInv, Unspoiled, Clean,
            AssetAt, Progress, PartLabels, JoinLabels, RuntimeLabels, GuestLabels,
            AfterPart, Part, Contents, Assets, Goto, Fail, Fault, downloads,
            archives, factory, place, bounds
<1>1. CASE Start(m)
  BY <1>1 DEF Start
<1>2. CASE Begin(m)
  BY <1>2 DEF Begin
<1>3. CASE CheckPart(m)
  BY <1>3 DEF CheckPart, PartReady, AfterPart
<1>4. CASE QuarantinePart(m)
  BY <1>4 DEF QuarantinePart
<1>5. CASE QuarantinePartial(m)
  BY <1>5 DEF QuarantinePartial
<1>6. CASE TakeSeed(m)
  BY <1>6 DEF TakeSeed
<1>7. CASE Download(m)
  BY <1>7 DEF Download
<1>8. CASE VerifyPart(m)
  BY <1>8 DEF VerifyPart, PartialValid
<1>9. CASE PublishPart(m)
  BY <1>9 DEF PublishPart, AfterPart
<1>10. CASE CheckArchive(m)
  BY <1>10 DEF CheckArchive, Joined
<1>11. CASE OpenArchive(m)
  BY <1>11 DEF OpenArchive
<1>12. CASE CopyParts(m)
  BY <1>12 DEF CopyParts
<1>13. CASE VerifyArchive(m)
  BY <1>13 DEF VerifyArchive, ArchiveValid
<1>14. CASE PublishArchive(m)
  BY <1>14 DEF PublishArchive, Joined
<1>15. CASE StartProbe(m)
  BY <1>15 DEF StartProbe
<1>16. CASE Recheck(m)
  BY <1>16 DEF Recheck, PayloadsInPlace
<1>17. CASE Activate(m)
  BY <1>17 DEF Activate
<1>18. CASE Kill(m)
  BY <1>18 DEF Kill
<1>19. CASE Announce(m)
  BY <1>19 DEF Announce
<1>20. CASE Throw(m)
  BY <1>20 DEF Throw
<1> QED
  BY <1>1, <1>2, <1>3, <1>4, <1>5, <1>6, <1>7, <1>8, <1>9, <1>10, <1>11, <1>12,
     <1>13, <1>14, <1>15, <1>16, <1>17, <1>18, <1>19, <1>20

(* The steps that change it leave the parts and archives alone. *)
LEMMA FilesKept ==
  ASSUME BaseInv, One, OneInv, UNCHANGED team,
         NEW m \in Workers,
         \/ QuarantineBuild(m) \/ MakeDirectories(m) \/ InstallEngine(m)
         \/ InstallTools(m) \/ EndProbe(m) \/ ExpandGuest(m) \/ EndExpand(m)
         \/ VerifyGuest(m) \/ MoveGuest(m) \/ LockGuest(m) \/ WriteReceipt(m)
         \/ FailBuild(m)
  PROVE  Unspoiled' /\ Clean' /\ AssetAt'
<1> USE DEF BaseInv, Types, Placed, InTeam, One, OneInv, Unspoiled, Clean,
            AssetAt, PartLabels, RuntimeLabels, GuestLabels, Part, Goto, Fail,
            Fault, downloads, archives, factory, place, bounds
<1>1. CASE QuarantineBuild(m)
  BY <1>1 DEF QuarantineBuild
<1>2. CASE MakeDirectories(m)
  BY <1>2 DEF MakeDirectories
<1>3. CASE InstallEngine(m)
  BY <1>3 DEF InstallEngine, Install
<1>4. CASE InstallTools(m)
  BY <1>4 DEF InstallTools, Install
<1>5. CASE EndProbe(m)
  BY <1>5 DEF EndProbe
<1>6. CASE ExpandGuest(m)
  BY <1>6 DEF ExpandGuest
<1>7. CASE EndExpand(m)
  BY <1>7 DEF EndExpand
<1>8. CASE VerifyGuest(m)
  BY <1>8 DEF VerifyGuest
<1>9. CASE MoveGuest(m)
  BY <1>9 DEF MoveGuest
<1>10. CASE LockGuest(m)
  BY <1>10 DEF LockGuest, SetReadOnly
<1>11. CASE WriteReceipt(m)
  BY <1>11 DEF WriteReceipt
<1>12. CASE FailBuild(m)
  BY <1>12 DEF FailBuild
<1> QED
  BY <1>1, <1>2, <1>3, <1>4, <1>5, <1>6, <1>7, <1>8, <1>9, <1>10, <1>11, <1>12

(* The build is as complete as the next label takes it to be, in these steps ... *)
LEMMA ProgressKept ==
  ASSUME BaseInv, One, OneInv, UNCHANGED team,
         NEW m \in Workers,
         \/ QuarantineBuild(m) \/ InstallEngine(m) \/ InstallTools(m)
         \/ EndExpand(m) \/ VerifyGuest(m) \/ FailBuild(m)
  PROVE  Progress'
<1>0. \A b \in Build : b # None
  BY NoneIsNoBuild
<1> USE DEF BaseInv, Types, Placed, InTeam, One, OneInv, Progress, AssetAt,
            PartLabels, JoinLabels, RuntimeLabels, GuestLabels, Build, EmptyBuild,
            Components, Goto, Fail, Fault, downloads, archives, factory, place,
            bounds
<1>1. CASE QuarantineBuild(m)
  BY <1>1, <1>0 DEF QuarantineBuild
<1>2. CASE InstallEngine(m)
  BY <1>2, <1>0 DEF InstallEngine, Install
<1>3. CASE InstallTools(m)
  BY <1>3, <1>0 DEF InstallTools, Install
<1>4. CASE EndExpand(m)
  BY <1>4, <1>0 DEF EndExpand
<1>5. CASE VerifyGuest(m)
  BY <1>5, <1>0 DEF VerifyGuest
<1>6. CASE FailBuild(m)
  BY <1>6, <1>0 DEF FailBuild
<1> QED
  BY <1>1, <1>2, <1>3, <1>4, <1>5, <1>6

(* ... as in these, which make the build or add to it. *)
LEMMA ProgressMade ==
  ASSUME BaseInv, One, OneInv, UNCHANGED team, NEW m \in Workers,
         \/ MakeDirectories(m) \/ EndProbe(m) \/ ExpandGuest(m)
         \/ MoveGuest(m) \/ LockGuest(m) \/ WriteReceipt(m)
  PROVE  Progress'
<1>0. \A b \in Build : b # None
  BY NoneIsNoBuild
<1>00. m \in team /\ \A n \in team : n = m
  BY DEF One, BaseInv, InTeam, MakeDirectories, EndProbe, ExpandGuest, MoveGuest,
     LockGuest, SetReadOnly, WriteReceipt
<1> USE DEF BaseInv, Types, Placed, OneInv, Progress, AssetAt, PartLabels,
            JoinLabels, RuntimeLabels, GuestLabels, Goto, Fail, Fault
<1>1. CASE MakeDirectories(m)
  <2>1. build' # None
    BY <1>0, <1>1, BuildUpdates DEF MakeDirectories
  <2> QED
    BY <1>00, <1>1, <2>1 DEF MakeDirectories
<1>2. CASE EndProbe(m)
  <2>1. build \in Build /\ build.components = Components
    BY <1>00, <1>2 DEF EndProbe
  <2>2. \/ pc'[m] = "failed"
        \/ pc'[m] = "join" /\ build' = [build EXCEPT !.probed = TRUE]
    BY <1>2 DEF EndProbe
  <2>3. pc'[m] = "join" => build' # None
    BY <2>1, <2>2, BuildUpdates
  <2>4. pc'[m] = "join" => build'.components = Components /\ build'.probed = TRUE
    BY <2>1, <2>2 DEF Build
  <2> QED
    BY <1>00, <1>2, <2>2, <2>3, <2>4 DEF EndProbe
<1>3. CASE ExpandGuest(m)
  <2>1. build \in Build /\ build.components = Components /\ build.probed = TRUE
    BY <1>00, <1>3 DEF ExpandGuest
  <2>2. \/ pc'[m] = "failed"
        \/ pc'[m] = "expanding" /\ build' = [build EXCEPT !.guestPartial = "bad"]
    BY <1>0, <1>3, <2>1 DEF ExpandGuest
  <2>3. pc'[m] = "expanding" => build' # None
    BY <2>1, <2>2, BuildUpdates DEF Contents
  <2>4. pc'[m] = "expanding" => build'.components = Components /\ build'.probed = TRUE
    BY <2>1, <2>2 DEF Build
  <2> QED
    BY <1>00, <1>3, <2>2, <2>3, <2>4 DEF ExpandGuest
<1>4. CASE MoveGuest(m)
  <2>1. build \in Build /\ build.components = Components /\ build.probed = TRUE
    BY <1>00, <1>4 DEF MoveGuest
  <2>2. \/ pc'[m] = "failed"
        \/ /\ pc'[m] = "lock" /\ build.guestPartial # "absent"
           /\ build' = [build EXCEPT !.guest = build.guestPartial, !.guestPartial = "absent"]
    BY <1>0, <1>4, <2>1 DEF MoveGuest
  <2>3. pc'[m] = "lock" => build' # None
    BY <2>1, <2>2, BuildUpdates DEF Contents
  <2>4. pc'[m] = "lock" => /\ build'.components = Components /\ build'.probed = TRUE
                           /\ build'.guest # "absent"
    BY <2>1, <2>2 DEF Build
  <2> QED
    BY <1>00, <1>4, <2>2, <2>3, <2>4 DEF MoveGuest
<1>5. CASE LockGuest(m)
  <2>1. /\ build \in Build /\ build.components = Components /\ build.probed = TRUE
        /\ build.guest # "absent"
    BY <1>00, <1>5 DEF LockGuest, SetReadOnly
  <2>2. pc'[m] = "recheck" /\ build' = [build EXCEPT !.readOnly = TRUE]
    BY <1>0, <1>5, <2>1 DEF LockGuest, SetReadOnly
  <2>3. build' # None
    BY <2>1, <2>2, BuildUpdates
  <2>4. /\ build'.components = Components /\ build'.probed = TRUE
        /\ build'.guest # "absent" /\ build'.readOnly = TRUE
    BY <2>1, <2>2 DEF Build
  <2> QED
    BY <1>00, <1>5, <2>2, <2>3, <2>4 DEF LockGuest, SetReadOnly
<1>6. CASE WriteReceipt(m)
  <2>1. /\ build \in Build /\ build.components = Components /\ build.probed = TRUE
        /\ build.guest # "absent" /\ build.readOnly = TRUE
    BY <1>00, <1>6 DEF WriteReceipt
  <2>2. pc'[m] = "activate" /\ build' = [build EXCEPT !.receipt = TRUE]
    BY <1>0, <1>6, <2>1 DEF WriteReceipt
  <2>3. build' # None
    BY <2>1, <2>2, BuildUpdates
  <2>4. /\ build'.components = Components /\ build'.probed = TRUE
        /\ build'.guest # "absent" /\ build'.readOnly = TRUE /\ build'.receipt = TRUE
    BY <2>1, <2>2 DEF Build
  <2> QED
    BY <1>00, <1>6, <2>2, <2>3, <2>4 DEF WriteReceipt
<1> QED
  BY <1>1, <1>2, <1>3, <1>4, <1>5, <1>6
-----------------------------------------------------------------------------
(* A decaying file is no part of the build, and one worker knows of it. *)
LEMMA DecayStep ==
  ASSUME IInv, UNCHANGED team, Decay
  PROVE  BaseInv' /\ (AtMostTwo => TwoInv') /\ (One => OneInv')
<1> USE DEF IInv, BaseInv
<1>1. /\ UNCHANGED <<seed, partial, joined, build, pc, next, asset, faults, kills>>
      /\ decays' = decays + 1
      /\ cache' \in [Parts -> Contents] /\ archive' \in [Assets -> Contents]
      /\ \A p \in Parts : cache'[p] = "good" => cache[p] = "good"
  BY DEF Decay, factory, place, Types, Contents
<1>2. BaseInv'
  BY <1>1 DEF Types, Placed, InTeam, AtPart, OpenStays, BuildOpen
<1>3. ASSUME AtMostTwo PROVE TwoInv'
  BY <1>1, <1>3 DEF TwoInv, ReceiptWriter, SpoiledByOther, BadGuestNoReceipt
<1>4. ASSUME One PROVE OneInv'
  <2> USE DEF OneInv
  <2>1. Unspoiled'
    <3>1. \A m \in team : Part(m)' = Part(m)
      BY <1>1 DEF Part
    <3>2. \A m \in team : pc[m] = "badPart" => Part(m) \in Parts
      <4>1. PartOrder \in Seq(Parts)
        BY MaterializerAssumption
      <4>2. \A m \in team : pc[m] = "badPart" => next[m] \in 1 .. Len(PartOrder)
        BY DEF Types, AtPart, PartLabels
      <4> QED
        BY <4>1, <4>2 DEF Part
    <3> QED
      BY <1>1, <1>4, <3>1, <3>2 DEF Unspoiled
  <2>2. Clean'
    BY <1>1 DEF Types, Clean
  <2>3. AssetAt'
    BY <1>1, <1>4 DEF AssetAt
  <2>4. Progress'
    BY <1>1, <1>4 DEF Progress
  <2> QED
    BY <2>1, <2>2, <2>3, <2>4
<1> QED
  BY <1>2, <1>3, <1>4

(* The pointer is written in one place. *)
LEMMA PointerStep ==
  ASSUME IInv, NEW m \in Workers, Start(m) \/ WorkerStep(m) \/ Throw(m) \/ Kill(m)
  PROVE  pointer' \in BOOLEAN
<1>1. pointer \in BOOLEAN
  BY DEF IInv
<1>2. pointer' = pointer \/ pointer' = TRUE
  BY DEF Start, WorkerStep, Throw, Announce, Kill, factory,
     Begin, QuarantineBuild, MakeDirectories, CheckPart, QuarantinePart,
      QuarantinePartial, TakeSeed, Download, VerifyPart, PublishPart, CheckArchive,
      OpenArchive, CopyParts, VerifyArchive, PublishArchive, InstallEngine,
      InstallTools, StartProbe, EndProbe, ExpandGuest, EndExpand, VerifyGuest,
      MoveGuest, LockGuest, Recheck, WriteReceipt, Activate, FailBuild, Install,
      SetReadOnly
<1> QED
  BY <1>1, <1>2

(* Every step of every worker preserves the invariant. *)
LEMMA WorkerPreserves ==
  ASSUME IInv, UNCHANGED team, NEW m \in Workers, Start(m) \/ WorkerStep(m) \/ Throw(m) \/ Kill(m)
  PROVE  IInv'
<1> DEFINE builds == \/ QuarantineBuild(m) \/ MakeDirectories(m)
                     \/ InstallEngine(m) \/ InstallTools(m) \/ EndProbe(m)
                     \/ ExpandGuest(m) \/ EndExpand(m) \/ VerifyGuest(m)
                     \/ MoveGuest(m) \/ LockGuest(m) \/ WriteReceipt(m) \/ FailBuild(m)
<1>0. BaseInv /\ (AtMostTwo => TwoInv) /\ (One => OneInv)
  BY DEF IInv
<1>1. BaseInv'
  <2>1. Placed' /\ InTeam' /\ AtPart'
    BY <1>0, PlacesKept DEF WorkerStep
  <2>2. Types' /\ OpenStays'
    <3>1. CASE builds
      BY <1>0, <3>1, BuildKept
    <3>2. CASE ~builds
      BY <1>0, <3>2, TypesKept DEF WorkerStep
    <3> QED
      BY <3>1, <3>2
  <2> QED
    BY <2>1, <2>2 DEF BaseInv
<1>2. (AtMostTwo' => AtMostTwo) /\ (One' => One)
  BY DEF AtMostTwo, One
<1>3. ASSUME AtMostTwo PROVE TwoInv'
  <2>1. CASE \/ ExpandGuest(m) \/ EndExpand(m) \/ VerifyGuest(m)
             \/ MoveGuest(m) \/ WriteReceipt(m)
    BY <1>0, <1>3, <2>1, TwoGuestChanged
  <2>2. CASE \/ QuarantineBuild(m) \/ MakeDirectories(m) \/ InstallEngine(m)
             \/ InstallTools(m) \/ EndProbe(m) \/ LockGuest(m) \/ FailBuild(m)
    BY <1>0, <1>3, <2>2, TwoGuestKept
  <2>3. CASE ~builds
    BY <1>0, <1>3, <2>3, TwoElsewhere DEF WorkerStep
  <2> QED
    BY <2>1, <2>2, <2>3
<1>4. ASSUME One PROVE OneInv'
  <2>1. CASE builds
    <3>1. Unspoiled' /\ Clean' /\ AssetAt'
      BY <1>0, <1>4, <2>1, FilesKept
    <3>2. Progress'
      BY <1>0, <1>4, <2>1, ProgressKept, ProgressMade
    <3> QED
      BY <3>1, <3>2 DEF OneInv
  <2>2. CASE ~builds
    BY <1>0, <1>4, <2>2, OneElsewhere DEF WorkerStep
  <2> QED
    BY <2>1, <2>2
<1> QED
  BY <1>1, <1>2, <1>3, <1>4, PointerStep DEF IInv

(* And a step of the workers together, of the disk, or none. *)
LEMMA NextStep == IInv /\ [Next]_vars => IInv'
<1> SUFFICES ASSUME IInv, [Next]_vars PROVE IInv'
  OBVIOUS
<1>1. ASSUME NEW m \in Workers, Start(m) \/ WorkerStep(m) \/ Throw(m) \/ Kill(m), UNCHANGED team
      PROVE  IInv'
  BY <1>1, WorkerPreserves
<1>2. ASSUME Decay, UNCHANGED team
      PROVE  IInv'
  <2>1. BaseInv' /\ (AtMostTwo => TwoInv') /\ (One => OneInv')
    BY <1>2, DecayStep
  <2>2. pointer' \in BOOLEAN
    BY <1>2 DEF IInv, Decay, factory
  <2>3. (AtMostTwo' => AtMostTwo) /\ (One' => One)
    BY <1>2 DEF AtMostTwo, One
  <2> QED
    BY <2>1, <2>2, <2>3 DEF IInv
<1>3. CASE UNCHANGED vars
  <2>1. /\ UNCHANGED <<team, seed, cache, partial, archive, joined, build, pointer, pc>>
        /\ UNCHANGED <<next, asset, faults, kills, decays>>
    BY <1>3 DEF vars, work, downloads, archives, factory, place, bounds
  <2>2. BaseInv'
    BY <2>1 DEF IInv, BaseInv, Types, Placed, InTeam, AtPart, OpenStays, BuildOpen
  <2>3. AtMostTwo' => TwoInv'
    BY <2>1 DEF IInv, AtMostTwo, TwoInv, ReceiptWriter, SpoiledByOther, BadGuestNoReceipt
  <2>4. One' => OneInv'
    BY <2>1 DEF IInv, One, OneInv, Unspoiled, Clean, AssetAt, Progress, Part
  <2>5. pointer' \in BOOLEAN
    BY <2>1 DEF IInv
  <2> QED
    BY <2>2, <2>3, <2>4, <2>5 DEF IInv
<1> QED
  BY <1>1, <1>2, <1>3 DEF Next

(* The invariant is one of the specification. *)
LEMMA Invariance == Spec => []IInv
BY InitInvariant, NextStep, PTL DEF Spec

-----------------------------------------------------------------------------
(* A team of one has one member. *)
LEMMA AloneIsOne == ASSUME BaseInv, Alone PROVE One
<1>1. IsFiniteSet(team)
  BY MaterializerAssumption, FS_Subset DEF BaseInv, Types
<1>2. PICK x : team = {x}
  BY <1>1, FS_Singleton DEF Alone
<1> QED
  BY <1>2 DEF One

(* Every variable has its type. *)
LEMMA TypesHold == IInv => TypeOK
BY DEF IInv, BaseInv, Types, Placed, AtPart, TypeOK

(* "Invalid artifacts are never executed or booted": whatever two workers     *)
(* (two windows, or a window opened over the worker it lost) do to the one    *)
(* build directory and to each other, the guest of the build that             *)
(* Get-OmarchyActiveFactory accepts without hashing it is the release's.      *)
THEOREM AcceptedSafe == Spec => []AcceptedIsVerified
<1>1. ASSUME IInv PROVE AcceptedIsVerified
  <2>1. TypeOK
    BY <1>1, TypesHold
  <2>2. AtMostTwo /\ build.receipt /\ build # None => build.guest # "bad"
    BY <1>1 DEF IInv, TwoInv, BadGuestNoReceipt
  <2>3. build # None => build.guest \in Contents
    BY <1>1 DEF IInv, BaseInv, Types, Build
  <2> QED
    BY <2>1, <2>2, <2>3 DEF AcceptedIsVerified, Accepted, Contents
<1> QED
  BY <1>1, Invariance, PTL

(* A worker that is alone never puts a part or an archive at its final path   *)
(* that it has not verified, however often it fails or is killed.            *)
THEOREM CacheSafe == Spec => []CacheHoldsVerified
<1>1. ASSUME IInv PROVE CacheHoldsVerified
  BY <1>1, AloneIsOne DEF IInv, OneInv, Clean, CacheHoldsVerified
<1> QED
  BY <1>1, Invariance, PTL

(* And it never throws one away that it has verified. *)
THEOREM PartsReused == Spec => VerifiedPartsReused
<1>1. ASSUME IInv, [Next]_vars
      PROVE  [\A p \in Parts : Alone /\ cache[p] = "good" =>
                cache'[p] = "good" \/ decays' # decays]_vars
  <2> SUFFICES ASSUME NEW q \in Parts, Alone, cache[q] = "good", Next
               PROVE  cache'[q] = "good" \/ decays' # decays
    BY <1>1
  <2>0. One /\ Unspoiled /\ Types /\ InTeam
    BY <1>1, AloneIsOne DEF IInv, BaseInv, OneInv
  <2>1. CASE Decay
    BY <2>1, <2>0 DEF Decay, Types
  <2>2. ASSUME NEW m \in Workers, QuarantinePart(m)
        PROVE  cache'[q] = "good"
    BY <2>0, <2>2 DEF QuarantinePart, InTeam, Unspoiled, Types, Goto, Fail
  <2>3. ASSUME NEW m \in Workers, PublishPart(m)
        PROVE  cache'[q] = "good"
    BY <2>0, <2>3 DEF PublishPart, Types
  <2>4. ASSUME NEW m \in Workers, Start(m) \/ WorkerStep(m) \/ Throw(m) \/ Kill(m),
               ~QuarantinePart(m), ~PublishPart(m)
        PROVE  cache' = cache
    BY <2>4 DEF downloads, Start, WorkerStep, Throw, Announce, Kill,
       Begin, QuarantineBuild, MakeDirectories, CheckPart, QuarantinePartial, TakeSeed,
        Download, VerifyPart, CheckArchive, OpenArchive, CopyParts, VerifyArchive,
        PublishArchive, InstallEngine, InstallTools, StartProbe, EndProbe, ExpandGuest,
        EndExpand, VerifyGuest, MoveGuest, LockGuest, Recheck, WriteReceipt, Activate,
        FailBuild, Install, SetReadOnly
  <2> QED
    BY <2>1, <2>2, <2>3, <2>4 DEF Next
<1> QED
  BY <1>1, Invariance, PTL DEF Spec, VerifiedPartsReused

(* "active.json appears only after the complete receipt, runtime per-file     *)
(* audit, host capability probe and guest verification succeed": what the     *)
(* pointer of a lone worker points at is what the next start accepts.         *)
THEOREM ActivationSafe == Spec => ActivationComplete
<1>1. ASSUME IInv, [Next]_vars
      PROVE  [Alone /\ ~pointer /\ pointer' => Accepted']_vars
  <2> SUFFICES ASSUME Alone, ~pointer, pointer', Next
               PROVE  Accepted'
    BY <1>1
  <2>0. One /\ AssetAt /\ Progress /\ InTeam
    BY <1>1, AloneIsOne DEF IInv, BaseInv, OneInv
  <2>1. PICK m \in Workers : Activate(m)
    <3>1. ~Decay
      BY DEF Decay, factory
    <3>2. ASSUME NEW m \in Workers, Start(m) \/ WorkerStep(m) \/ Throw(m) \/ Kill(m), ~Activate(m)
          PROVE  FALSE
      <4>1. pointer' = pointer
        BY <3>2 DEF factory, Start, WorkerStep, Throw, Announce, Kill,
           Begin, QuarantineBuild, MakeDirectories, CheckPart, QuarantinePart,
            QuarantinePartial, TakeSeed, Download, VerifyPart, PublishPart, CheckArchive,
            OpenArchive, CopyParts, VerifyArchive, PublishArchive, InstallEngine,
            InstallTools, StartProbe, EndProbe, ExpandGuest, EndExpand, VerifyGuest,
            MoveGuest, LockGuest, Recheck, WriteReceipt, FailBuild, Install, SetReadOnly
      <4> QED
        BY <4>1
    <3> QED
      BY <3>1, <3>2 DEF Next
  <2>2. m \in team /\ asset[m] = "guest"
    BY <2>0, <2>1 DEF Activate, InTeam, AssetAt, GuestLabels
  <2>3. /\ build # None /\ build.receipt = TRUE /\ build.components = Components
        /\ build.probed = TRUE /\ build.guest # "absent" /\ build.readOnly = TRUE
    BY <2>0, <2>1, <2>2 DEF Activate, Progress, GuestLabels
  <2>4. build' = build /\ pointer' = TRUE
    BY <2>1 DEF Activate
  <2> QED
    BY <2>3, <2>4 DEF Accepted
<1> QED
  BY <1>1, Invariance, PTL DEF Spec, ActivationComplete

-----------------------------------------------------------------------------
(* One worker implements the Store.  Two more facts about it: what it works at *)
(* is not accepted before it writes the receipt, even if the pointer of a     *)
(* build it lost is still there; and a build has no guest before the guest's  *)
(* archive is there.                                                        *)
Making ==
  {"mkdir"} \union PartLabels \union JoinLabels \union RuntimeLabels
    \union (GuestLabels \ {"activate", "announce"})

Unreceipted ==
  \A m \in team :
    /\ pc[m] \in {"begin", "clean"} => ~Accepted
    /\ pc[m] \in Making => build = None \/ build.receipt = FALSE

Guestless == build.guestPartial = "absent" /\ build.guest = "absent"

FreshBuild ==
  \A m \in team :
    /\ pc[m] = "mkdir" => build = None
    /\ pc[m] \in PartLabels \union JoinLabels \union RuntimeLabels \union {"expand"} => Guestless

StoreInv == Unreceipted /\ FreshBuild

(* The variables of the Store. *)
Ready == {p \in Parts : cache[p] = "good"}
Whole == {a \in Assets : joined[a] = "good"}
Kept == {a \in Assets : archive[a] = "good"}
Contains(b, a) ==
  IF a = "guest" THEN "good" \in {b.guestPartial, b.guest} ELSE "engine" \in b.components
Holds == IF build = None THEN {} ELSE {a \in Assets : Contains(build, a)}

(* The worker that takes a step is the only one; nothing is accepted at most   *)
(* of its labels.                                                           *)
LEMMA Unsettled ==
  ASSUME IInv, One, StoreInv, NEW m \in Workers,
         Start(m) \/ WorkerStep(m) \/ Throw(m) \/ Kill(m)
  PROVE  /\ m \in team /\ \A n \in team : n = m
         /\ Start(m) \/ pc[m] \notin {"idle", "failed", "activate", "announce"} => ~Accepted
<1>1. CASE Start(m)
  BY <1>1 DEF Start, One
<1>2. CASE ~Start(m)
  <2>1. pc[m] # "idle"
    BY <1>2 DEF WorkerStep, Throw, Announce, Kill,
       Begin, QuarantineBuild, MakeDirectories, CheckPart, QuarantinePart,
        QuarantinePartial, TakeSeed, Download, VerifyPart, PublishPart, CheckArchive,
        OpenArchive, CopyParts, VerifyArchive, PublishArchive, InstallEngine,
        InstallTools, StartProbe, EndProbe, ExpandGuest, EndExpand, VerifyGuest,
        MoveGuest, LockGuest, Recheck, WriteReceipt, Activate, FailBuild, Install,
        SetReadOnly
  <2>2. m \in team
    BY <2>1 DEF IInv, BaseInv, InTeam
  <2>3. pc[m] \in {"idle", "begin", "clean", "failed", "activate", "announce"} \union Making
    BY DEF IInv, BaseInv, Placed, Labels, Making, PartLabels, JoinLabels, RuntimeLabels,
       GuestLabels
  <2> QED
    BY <1>2, <2>1, <2>2, <2>3 DEF One, StoreInv, Unreceipted, Accepted
<1> QED
  BY <1>1, <1>2

(* Steps that leave the factory alone, and nothing accepted. *)
LEMMA UnacceptedKept ==
  ASSUME IInv, One, StoreInv, NEW m \in Workers,
         \/ Start(m) \/ Begin(m) \/ CheckPart(m) \/ QuarantinePart(m)
         \/ QuarantinePartial(m) \/ TakeSeed(m) \/ Download(m)
         \/ VerifyPart(m) \/ PublishPart(m) \/ CheckArchive(m)
         \/ OpenArchive(m) \/ CopyParts(m) \/ VerifyArchive(m)
         \/ PublishArchive(m) \/ StartProbe(m) \/ Recheck(m)
  PROVE  UNCHANGED factory /\ ~Accepted /\ ~Accepted'
<1>1. Start(m) \/ pc[m] \notin {"idle", "failed", "activate", "announce"}
  BY DEF Begin, CheckPart, QuarantinePart, QuarantinePartial, TakeSeed, Download, VerifyPart,
     PublishPart, CheckArchive, OpenArchive, CopyParts, VerifyArchive, PublishArchive,
     StartProbe, Recheck
<1>2. ~Accepted
  BY <1>1, Unsettled DEF WorkerStep
<1>3. UNCHANGED <<build, pointer>>
  BY DEF factory, Start, Begin, CheckPart, QuarantinePart, QuarantinePartial, TakeSeed,
     Download, VerifyPart, PublishPart, CheckArchive, OpenArchive, CopyParts, VerifyArchive,
     PublishArchive, StartProbe, Recheck
<1> QED
  BY <1>2, <1>3 DEF factory, Accepted

(* Nor is anything by the steps that make the build, up to the receipt. *)
LEMMA ReceiptKept ==
  ASSUME IInv, One, StoreInv, NEW m \in Workers,
         \/ QuarantineBuild(m) \/ MakeDirectories(m) \/ InstallEngine(m) \/ InstallTools(m)
         \/ EndProbe(m) \/ ExpandGuest(m) \/ EndExpand(m) \/ VerifyGuest(m)
         \/ MoveGuest(m) \/ LockGuest(m)
  PROVE  /\ ~Accepted /\ ~Accepted'
         /\ build' = None \/ build'.receipt = FALSE
<1>1. m \in team /\ \A n \in team : n = m
  BY Unsettled DEF WorkerStep
<1>2. build \in Build \union {None} /\ OpenStays /\ Placed
  BY DEF IInv, BaseInv, Types
<1>3. \A b \in Build : b # None
  BY NoneIsNoBuild
<1>4. CASE QuarantineBuild(m)
  <2>1. pc[m] = "clean" /\ ~BuildOpen
    <3>1. \A n \in Workers : n # m => pc[n] = "idle"
      BY <1>1 DEF IInv, BaseInv, InTeam
    <3> QED
      BY <1>4, <3>1 DEF BuildOpen, QuarantineBuild
  <2> QED
    BY <1>1, <1>4, <2>1, Unsettled DEF WorkerStep, QuarantineBuild, Accepted
<1>5. CASE ~QuarantineBuild(m)
  <2>1. pc[m] \in Making
    BY <1>5 DEF MakeDirectories, InstallEngine, InstallTools, Install, EndProbe, ExpandGuest,
       EndExpand, VerifyGuest, MoveGuest, LockGuest, SetReadOnly, Making, RuntimeLabels,
       GuestLabels
  <2>2. build = None \/ build.receipt = FALSE
    BY <1>1, <2>1 DEF StoreInv, Unreceipted
  <2>3. build' = None \/ build'.receipt = FALSE
    <3>1. CASE \/ MakeDirectories(m) \/ InstallEngine(m) \/ InstallTools(m)
               \/ EndProbe(m) \/ LockGuest(m)
      <4>1. SameGuest
        BY <3>1, GuestKept DEF IInv
      <4> QED
        BY <2>2, <4>1 DEF SameGuest
    <3>2. CASE ExpandGuest(m)
      <4> DEFINE b == IF build = None THEN EmptyBuild ELSE build
      <4>1. b \in Build /\ b.receipt = FALSE
        BY <1>2, <2>2, BuildUpdates DEF EmptyBuild
      <4>2. build' \in {b, [b EXCEPT !.guestPartial = "bad"]}
        BY <3>2 DEF ExpandGuest
      <4> QED
        BY <4>1, <4>2 DEF Build
    <3>3. CASE EndExpand(m)
      <4>1. build \in Build
        BY <1>2, <3>3 DEF EndExpand, OpenStays, BuildOpen
      <4>2. build' = build \/ build' = [build EXCEPT !.guestPartial = "good"]
        BY <3>3 DEF EndExpand
      <4> QED
        BY <1>3, <2>2, <4>1, <4>2 DEF Build
    <3>4. CASE VerifyGuest(m)
      <4>1. build' = build \/ (build # None /\ build' = [build EXCEPT !.guestPartial = "absent"])
        BY <3>4 DEF VerifyGuest
      <4> QED
        BY <1>2, <2>2, <4>1 DEF Build
    <3>5. CASE MoveGuest(m)
      <4>1. \/ build' = build
            \/ /\ build # None
               /\ build' = [build EXCEPT !.guest = build.guestPartial, !.guestPartial = "absent"]
        BY <3>5 DEF MoveGuest
      <4> QED
        BY <1>2, <2>2, <4>1 DEF Build
    <3> QED
      BY <1>5, <3>1, <3>2, <3>3, <3>4, <3>5
  <2> QED
    BY <2>2, <2>3 DEF Accepted
<1> QED
  BY <1>4, <1>5

(* With the receipt written the factory is complete, and its guest the         *)
(* release's.                                                               *)
LEMMA Completed ==
  ASSUME IInv, One, NEW m \in team, \A n \in team : n = m,
         pc[m] \in {"activate", "announce"}
  PROVE  /\ build \in Build /\ build # None /\ build.receipt = TRUE
         /\ build.components = Components /\ build.probed = TRUE
         /\ build.readOnly = TRUE /\ build.guest = "good"
         /\ Accepted <=> pointer
<1>1. AssetAt /\ Progress /\ TwoInv /\ Types
  BY DEF IInv, BaseInv, OneInv, AtMostTwo
<1>2. asset[m] = "guest"
  BY <1>1 DEF AssetAt, GuestLabels
<1>3. /\ build # None /\ build.receipt = TRUE /\ build.components = Components
      /\ build.probed = TRUE /\ build.guest # "absent" /\ build.readOnly = TRUE
  BY <1>1, <1>2 DEF Progress, GuestLabels
<1>4. build \in Build /\ build.guest = "good"
  BY <1>1, <1>3 DEF Types, TwoInv, BadGuestNoReceipt, Contents, Build
<1> QED
  BY <1>3, <1>4 DEF Accepted

(* What a worker works at has no receipt ... *)
LEMMA UnreceiptedStep ==
  ASSUME IInv, One, StoreInv, UNCHANGED team, NEW m \in Workers,
         Start(m) \/ WorkerStep(m) \/ Throw(m) \/ Kill(m)
  PROVE  Unreceipted'
<1>1. m \in team /\ \A n \in team : n = m
  BY Unsettled
<1>2. Placed
  BY DEF IInv, BaseInv
<1>3. CASE \/ WriteReceipt(m) \/ Activate(m) \/ Announce(m) \/ FailBuild(m) \/ Throw(m)
           \/ Kill(m)
  <2>1. pc'[m] \in {"activate", "announce", "idle", "failed"}
    BY <1>2, <1>3 DEF Placed, WriteReceipt, Activate, Announce, FailBuild, Throw, Kill, Goto, Fail
  <2> QED
    BY <1>1, <2>1 DEF Unreceipted, Making, PartLabels, JoinLabels, RuntimeLabels, GuestLabels
<1>4. CASE \/ QuarantineBuild(m) \/ MakeDirectories(m) \/ InstallEngine(m) \/ InstallTools(m)
           \/ EndProbe(m) \/ ExpandGuest(m) \/ EndExpand(m) \/ VerifyGuest(m)
           \/ MoveGuest(m) \/ LockGuest(m)
  BY <1>1, <1>4, ReceiptKept DEF Unreceipted
<1>5. CASE Start(m) \/ Begin(m)
  <2>1. ~Accepted'
    BY <1>5, UnacceptedKept
  <2>2. pc'[m] \in {"begin", "clean", "idle"}
    BY <1>2, <1>5 DEF Placed, Start, Begin, Goto
  <2> QED
    BY <1>1, <2>1, <2>2 DEF Unreceipted, Making, PartLabels, JoinLabels, RuntimeLabels,
       GuestLabels
<1>6. CASE \/ CheckPart(m) \/ QuarantinePart(m)
           \/ QuarantinePartial(m) \/ TakeSeed(m) \/ Download(m)
           \/ VerifyPart(m) \/ PublishPart(m) \/ CheckArchive(m)
           \/ OpenArchive(m) \/ CopyParts(m) \/ VerifyArchive(m)
           \/ PublishArchive(m) \/ StartProbe(m) \/ Recheck(m)
  <2>1. pc[m] \in Making
    BY <1>6 DEF Making, PartLabels, JoinLabels, RuntimeLabels, GuestLabels, CheckPart,
       QuarantinePart, QuarantinePartial, TakeSeed, Download, VerifyPart, PublishPart,
       CheckArchive, OpenArchive, CopyParts, VerifyArchive, PublishArchive, StartProbe, Recheck
  <2>2. build = None \/ build.receipt = FALSE
    BY <1>1, <2>1 DEF StoreInv, Unreceipted
  <2>3. build' = build /\ ~Accepted'
    BY <1>6, UnacceptedKept DEF factory
  <2> QED
    BY <1>1, <2>2, <2>3 DEF Unreceipted
<1> QED
  BY <1>3, <1>4, <1>5, <1>6 DEF WorkerStep

(* ... and the guest is not there before its archive. *)
LEMMA FreshElsewhere ==
  ASSUME BaseInv, One, FreshBuild, UNCHANGED team, NEW m \in Workers,
         \/ Start(m) \/ Begin(m) \/ CheckPart(m) \/ QuarantinePart(m)
         \/ QuarantinePartial(m) \/ TakeSeed(m) \/ Download(m)
         \/ VerifyPart(m) \/ PublishPart(m) \/ CheckArchive(m)
         \/ OpenArchive(m) \/ CopyParts(m) \/ VerifyArchive(m)
         \/ PublishArchive(m) \/ StartProbe(m) \/ Recheck(m) \/ Activate(m)
         \/ Announce(m) \/ Throw(m) \/ Kill(m)
  PROVE  FreshBuild'
<1> USE DEF BaseInv, Placed, InTeam, One, FreshBuild, Guestless, PartLabels, JoinLabels,
            RuntimeLabels, AfterPart, Goto, Fail, factory
<1>1. CASE Start(m)
  BY <1>1 DEF Start
<1>2. CASE Begin(m)
  BY <1>2 DEF Begin
<1>3. CASE CheckPart(m)
  BY <1>3 DEF CheckPart
<1>4. CASE QuarantinePart(m)
  BY <1>4 DEF QuarantinePart
<1>5. CASE QuarantinePartial(m)
  BY <1>5 DEF QuarantinePartial
<1>6. CASE TakeSeed(m)
  BY <1>6 DEF TakeSeed
<1>7. CASE Download(m)
  BY <1>7 DEF Download
<1>8. CASE VerifyPart(m)
  BY <1>8 DEF VerifyPart
<1>9. CASE PublishPart(m)
  BY <1>9 DEF PublishPart
<1>10. CASE CheckArchive(m)
  BY <1>10 DEF CheckArchive, Joined
<1>11. CASE OpenArchive(m)
  BY <1>11 DEF OpenArchive
<1>12. CASE CopyParts(m)
  BY <1>12 DEF CopyParts
<1>13. CASE VerifyArchive(m)
  BY <1>13 DEF VerifyArchive
<1>14. CASE PublishArchive(m)
  BY <1>14 DEF PublishArchive, Joined
<1>15. CASE StartProbe(m)
  BY <1>15 DEF StartProbe
<1>16. CASE Recheck(m)
  BY <1>16 DEF Recheck
<1>17. CASE Activate(m)
  BY <1>17 DEF Activate
<1>18. CASE Kill(m)
  BY <1>18 DEF Kill
<1>19. CASE Announce(m)
  BY <1>19 DEF Announce
<1>20. CASE Throw(m)
  BY <1>20 DEF Throw
<1> QED
  BY <1>1, <1>2, <1>3, <1>4, <1>5, <1>6, <1>7, <1>8, <1>9, <1>10, <1>11, <1>12,
     <1>13, <1>14, <1>15, <1>16, <1>17, <1>18, <1>19, <1>20

(* ... nor in the steps that change the build. *)
LEMMA FreshMade ==
  ASSUME BaseInv, One, OneInv, FreshBuild, UNCHANGED team, NEW m \in Workers,
         \/ QuarantineBuild(m) \/ MakeDirectories(m) \/ InstallEngine(m)
         \/ InstallTools(m) \/ EndProbe(m) \/ ExpandGuest(m) \/ EndExpand(m)
         \/ VerifyGuest(m) \/ MoveGuest(m) \/ LockGuest(m) \/ WriteReceipt(m)
         \/ FailBuild(m)
  PROVE  FreshBuild'
<1>0. build # None => build \in Build
  BY DEF BaseInv, Types
<1> USE DEF BaseInv, Placed, InTeam, One, FreshBuild, Guestless, PartLabels, JoinLabels,
            RuntimeLabels, Goto, Fail
<1>1. CASE QuarantineBuild(m)
  <2>1. ~BuildOpen
    <3>1. \A n \in Workers : n # m => pc[n] = "idle"
      BY <1>1 DEF QuarantineBuild
    <3> QED
      BY <1>1, <3>1 DEF BuildOpen, QuarantineBuild
  <2> QED
    BY <1>1, <2>1 DEF QuarantineBuild
<1>2. CASE MakeDirectories(m)
  BY <1>2 DEF MakeDirectories, EmptyBuild
<1>3. CASE InstallEngine(m)
  BY <1>0, <1>3 DEF InstallEngine, Install, Build, OneInv, Progress
<1>4. CASE InstallTools(m)
  BY <1>0, <1>4 DEF InstallTools, Install, Build, OneInv, Progress
<1>5. CASE EndProbe(m)
  BY <1>0, <1>5 DEF EndProbe, Build, OneInv, Progress
<1>6. CASE ExpandGuest(m)
  BY <1>6 DEF ExpandGuest
<1>7. CASE EndExpand(m)
  BY <1>7 DEF EndExpand
<1>8. CASE VerifyGuest(m)
  BY <1>8 DEF VerifyGuest
<1>9. CASE MoveGuest(m)
  BY <1>9 DEF MoveGuest
<1>10. CASE LockGuest(m)
  BY <1>10 DEF LockGuest, SetReadOnly
<1>11. CASE WriteReceipt(m)
  BY <1>11 DEF WriteReceipt
<1>12. CASE FailBuild(m)
  BY <1>12 DEF FailBuild
<1> QED
  BY <1>1, <1>2, <1>3, <1>4, <1>5, <1>6, <1>7, <1>8, <1>9, <1>10, <1>11, <1>12

(* The two facts are invariants of one worker. *)
LEMMA StoreInvStep ==
  ASSUME IInv, One, StoreInv, UNCHANGED team, [Next]_vars
  PROVE  StoreInv'
<1>1. ASSUME NEW m \in Workers, Start(m) \/ WorkerStep(m) \/ Throw(m) \/ Kill(m)
      PROVE  StoreInv'
  <2>1. Unreceipted'
    BY <1>1, UnreceiptedStep
  <2>2. FreshBuild'
    BY <1>1, FreshElsewhere, FreshMade DEF IInv, StoreInv, WorkerStep
  <2> QED
    BY <2>1, <2>2 DEF StoreInv
<1>2. CASE Decay
  BY <1>2 DEF Decay, factory, StoreInv, Unreceipted, Accepted, FreshBuild, Guestless
<1>3. CASE UNCHANGED vars
  BY <1>3 DEF vars, work, factory, StoreInv, Unreceipted, Accepted, FreshBuild, Guestless
<1> QED
  BY <1>1, <1>2, <1>3 DEF Next

-----------------------------------------------------------------------------
(* The stage of the one worker's attempt. *)
StageOf(m) ==
  IF ~Accepted THEN "making"
  ELSE IF pc[m] = "idle" THEN "kept"
  ELSE IF pc[m] = "failed" THEN "failing" ELSE "made"

StageKnown == \A m \in team : (\A n \in team : n = m) => Stage = StageOf(m)

LEMMA StageAlone == BaseInv => StageKnown
<1> SUFFICES ASSUME BaseInv, NEW m \in team, \A n \in team : n = m
             PROVE  Stage = StageOf(m)
  BY DEF StageKnown
<1>1. m \in Workers /\ \A n \in Workers : n # m => pc[n] = "idle"
  BY DEF BaseInv, Types, InTeam
<1>2. CASE ~Accepted
  BY <1>2 DEF Stage, StageOf
<1>3. CASE Accepted /\ pc[m] = "idle"
  <2>1. \A n \in Workers : pc[n] = "idle"
    BY <1>1, <1>3
  <2> QED
    BY <1>3, <2>1 DEF Stage, StageOf
<1>4. CASE Accepted /\ pc[m] = "failed"
  <2>1. ~\A n \in Workers : pc[n] = "idle"
    BY <1>1, <1>4
  <2>2. \E n \in Workers : pc[n] = "failed"
    BY <1>1, <1>4
  <2> QED
    BY <1>4, <2>1, <2>2 DEF Stage, StageOf
<1>5. CASE Accepted /\ pc[m] \notin {"idle", "failed"}
  <2>1. ~\A n \in Workers : pc[n] = "idle"
    BY <1>1, <1>5
  <2>2. ~\E n \in Workers : pc[n] = "failed"
    BY <1>1, <1>5
  <2> QED
    BY <1>5, <2>1, <2>2 DEF Stage, StageOf
<1> QED
  BY <1>2, <1>3, <1>4, <1>5

(* Before and after its step. *)
LEMMA Stages ==
  ASSUME IInv, One, StoreInv, UNCHANGED team, NEW m \in Workers,
         Start(m) \/ WorkerStep(m) \/ Throw(m) \/ Kill(m)
  PROVE  Stage = StageOf(m) /\ Stage' = StageOf(m)'
<1>1. m \in team /\ \A n \in team : n = m
  BY Unsettled
<1>2. BaseInv /\ BaseInv'
  BY WorkerPreserves DEF IInv
<1>3. (BaseInv => StageKnown)'
  BY StageAlone, PTL
<1>4. StageKnown /\ StageKnown'
  BY <1>2, <1>3, StageAlone
<1> QED
  BY <1>1, <1>4 DEF StageKnown

(* Nothing is accepted before or after it. *)
LEMMA StillMaking ==
  ASSUME ~Accepted, ~Accepted'
  PROVE  Stage = "making" /\ UNCHANGED Stage
BY DEF Stage

-----------------------------------------------------------------------------
(* Steps that change nothing of the Store. *)
LEMMA StoreStutters ==
  ASSUME UNCHANGED <<Ready, Whole, Kept, Holds, Stage, decays>>
  PROVE  UNCHANGED S!vars
BY DEF S!vars, Ready, Whole, Kept, Holds, Contains

(* Its steps, in terms of the variables of this module. *)
LEMMA Fetches ==
  ASSUME Stage = "making", NEW p \in Parts, Ready' = Ready \cup {p},
         UNCHANGED <<Whole, Kept, Holds, Stage, decays>>
  PROVE  S!Next
<1>1. S!Fetch(p)
  BY DEF S!Fetch, Ready, Whole, Kept, Holds, Contains
<1>2. p \in UNION {[b \in Assets |-> PartsOf(b)][a] : a \in Assets}
  <2>1. p \in PartsOf("guest") \/ p \in PartsOf("runtime")
    BY DEF PartsOf
  <2> QED
    BY <2>1 DEF Assets
<1> QED
  BY <1>1, <1>2 DEF S!Next, S!Work

(* An archive of verified parts is made, *)
LEMMA Assembles ==
  ASSUME Stage = "making", NEW a \in Assets, PartsOf(a) \subseteq Ready, Whole' = Whole \cup {a},
         UNCHANGED <<Ready, Kept, Holds, Stage, decays>>
  PROVE  S!Next
<1>1. S!Assemble(a)
  BY DEF S!Assemble, Ready, Whole, Kept, Holds, Contains
<1> QED
  BY <1>1 DEF S!Next, S!Work

(* verified and kept, *)
LEMMA Keeps ==
  ASSUME Stage = "making", NEW a \in Assets, a \in Whole, Whole' = Whole \ {a},
         Kept' = Kept \cup {a}, UNCHANGED <<Ready, Holds, Stage, decays>>
  PROVE  S!Next
<1>1. S!Keep(a)
  BY DEF S!Keep, Ready, Whole, Kept, Holds, Contains
<1> QED
  BY <1>1 DEF S!Next, S!Work

(* or given up. *)
LEMMA Scraps ==
  ASSUME Stage = "making", NEW a \in Assets, Whole' = Whole \ {a},
         UNCHANGED <<Ready, Kept, Holds, Stage, decays>>
  PROVE  S!Next
<1>1. S!Scrap(a)
  BY DEF S!Scrap, Ready, Whole, Kept, Holds, Contains
<1> QED
  BY <1>1 DEF S!Next, S!Work

(* An asset is in the build with what completes it. *)
LEMMA Installs ==
  ASSUME Stage = "making", NEW a \in Assets, a \in Kept, Holds' = Holds \cup {a},
         UNCHANGED <<Ready, Whole, Kept, Stage, decays>>
  PROVE  S!Next
<1>1. S!Install(a)
  BY DEF S!Install, Ready, Whole, Kept, Holds, Contains
<1> QED
  BY <1>1 DEF S!Next, S!Work

(* A build goes as a whole. *)
LEMMA Discards ==
  ASSUME Stage = "making", Holds' = {}, UNCHANGED <<Ready, Whole, Kept, Stage, decays>>
  PROVE  S!Next
<1>1. S!Discard
  BY DEF S!Discard, Ready, Whole, Kept, Holds, Contains
<1> QED
  BY <1>1 DEF S!Next, S!Work

(* A factory with all its assets is accepted. *)
LEMMA Accepts ==
  ASSUME Stage = "making", Holds = Assets, Stage' = "made",
         UNCHANGED <<Ready, Whole, Kept, Holds, decays>>
  PROVE  S!Next
<1>1. S!Accept
  BY DEF S!Accept, Ready, Whole, Kept, Holds, Contains
<1> QED
  BY <1>1 DEF S!Next, S!Work

(* Its attempt fails after all, *)
LEMMA FailsAfter ==
  ASSUME Stage = "made", Stage' = "failing", UNCHANGED <<Ready, Whole, Kept, Holds, decays>>
  PROVE  S!Next
<1>1. S!Fail
  BY DEF S!Fail, Ready, Whole, Kept, Holds, Contains
<1> QED
  BY <1>1 DEF S!Next

(* which puts the factory away, *)
LEMMA GivesUp ==
  ASSUME Stage = "failing", Stage' = "making", Holds' = {},
         UNCHANGED <<Ready, Whole, Kept, decays>>
  PROVE  S!Next
<1>1. S!GiveUp
  BY DEF S!GiveUp, Ready, Whole, Kept, Holds, Contains
<1> QED
  BY <1>1 DEF S!Next

(* or it is over. *)
LEMMA Settles ==
  ASSUME Stage \in {"made", "failing"}, Stage' = "kept",
         UNCHANGED <<Ready, Whole, Kept, Holds, decays>>
  PROVE  S!Next
<1>1. S!Settle
  BY DEF S!Settle, Ready, Whole, Kept, Holds, Contains
<1> QED
  BY <1>1 DEF S!Next

-----------------------------------------------------------------------------
(* The steps that fetch parts. *)
LEMMA FetchingSteps ==
  ASSUME IInv, One, StoreInv, UNCHANGED team, NEW m \in Workers,
         \/ Start(m) \/ Begin(m) \/ CheckPart(m) \/ QuarantinePart(m)
         \/ QuarantinePartial(m) \/ TakeSeed(m) \/ Download(m)
         \/ VerifyPart(m) \/ PublishPart(m) \/ StartProbe(m) \/ Recheck(m)
  PROVE  S!Next \/ UNCHANGED S!vars
<1>0. m \in team /\ Types /\ Unspoiled /\ AtPart
  BY Unsettled DEF WorkerStep, IInv, BaseInv, OneInv
<1>00. Stage = "making" /\ UNCHANGED Stage
  BY UnacceptedKept, StillMaking
<1>1. UNCHANGED <<joined, archive, build, pointer, decays>>
  BY DEF downloads, archives, factory, bounds, Start, Begin, CheckPart, QuarantinePart,
     QuarantinePartial, TakeSeed, Download, VerifyPart, PublishPart, StartProbe, Recheck
<1>2. UNCHANGED <<Whole, Kept, Holds, Stage, decays>>
  BY <1>00, <1>1 DEF Whole, Kept, Holds, Contains
<1>3. CASE PublishPart(m)
  <2> DEFINE p == Part(m)
  <2>1. p \in Parts
    <3>1. PartOrder \in Seq(Parts) /\ next[m] \in 1 .. Len(PartOrder)
      BY <1>0, <1>3, MaterializerAssumption DEF PublishPart, AtPart, PartLabels
    <3> QED
      BY <3>1 DEF Part
  <2>2. partial[p] = "good"
    BY <1>0, <1>3 DEF PublishPart, Unspoiled
  <2> HIDE DEF p
  <2>3. cache' = cache \/ cache' = [cache EXCEPT ![p] = "good"]
    BY <1>3, <2>2 DEF PublishPart, p
  <2>4. Ready' = Ready \/ Ready' = Ready \cup {p}
    BY <1>0, <2>1, <2>3 DEF Ready, Types
  <2> QED
    BY <1>00, <1>2, <2>1, <2>4, Fetches, StoreStutters
<1>4. CASE QuarantinePart(m)
  <2>0. cache[Part(m)] # "good"
    BY <1>0, <1>4 DEF QuarantinePart, Unspoiled
  <2>1. cache' = cache \/ cache' = [cache EXCEPT ![Part(m)] = "absent"]
    BY <1>4 DEF QuarantinePart
  <2>2. Ready' = Ready
    BY <1>0, <2>0, <2>1 DEF Ready, Types
  <2> QED
    BY <1>2, <2>2, StoreStutters
<1>5. CASE ~PublishPart(m) /\ ~QuarantinePart(m)
  <2>1. cache' = cache
    BY <1>5 DEF downloads, Start, Begin, CheckPart, QuarantinePartial, TakeSeed, Download,
       VerifyPart, StartProbe, Recheck
  <2>2. Ready' = Ready
    BY <2>1 DEF Ready
  <2> QED
    BY <1>2, <2>2, StoreStutters
<1> QED
  BY <1>3, <1>4, <1>5

(* Those that make an archive. *)
LEMMA JoiningSteps ==
  ASSUME IInv, One, StoreInv, UNCHANGED team, NEW m \in Workers,
         \/ CheckArchive(m) \/ OpenArchive(m) \/ CopyParts(m) \/ VerifyArchive(m)
         \/ PublishArchive(m)
  PROVE  S!Next \/ UNCHANGED S!vars
<1> DEFINE a == asset[m]
<1>0. a \in Assets /\ m \in team /\ Types /\ Unspoiled
  BY Unsettled DEF WorkerStep, IInv, BaseInv, OneInv, Placed
<1>00. Stage = "making" /\ UNCHANGED Stage
  BY UnacceptedKept, StillMaking
<1>1. UNCHANGED <<cache, build, pointer, decays>>
  BY DEF downloads, factory, bounds, CheckArchive, OpenArchive, CopyParts, VerifyArchive,
     PublishArchive
<1>2. UNCHANGED <<Ready, Holds, Stage, decays>>
  BY <1>00, <1>1 DEF Ready, Holds, Contains
<1>3. CASE PublishArchive(m)
  <2>1. joined[a] = "good"
    BY <1>0, <1>3 DEF PublishArchive, Unspoiled
  <2>2. \/ joined' = joined /\ archive' = archive
        \/ joined' = [joined EXCEPT ![a] = "absent"] /\ archive' = [archive EXCEPT ![a] = "good"]
    BY <1>3, <2>1 DEF PublishArchive, archives
  <2> HIDE DEF a
  <2>3. \/ Whole' = Whole /\ Kept' = Kept
        \/ a \in Whole /\ Whole' = Whole \ {a} /\ Kept' = Kept \cup {a}
    BY <1>0, <2>1, <2>2 DEF Whole, Kept, Types
  <2> QED
    BY <1>0, <1>00, <1>2, <2>3, Keeps, StoreStutters
<1>4. CASE CheckArchive(m)
  <2>1. joined' = joined
    BY <1>4 DEF CheckArchive
  <2>2. \/ archive' = archive
        \/ archive[a] # "good" /\ archive' = [archive EXCEPT ![a] = "absent"]
    <3>1. CASE archive[a] = "good"
      BY <1>4, <3>1 DEF CheckArchive
    <3>2. CASE archive[a] # "good"
      BY <1>4, <3>2 DEF CheckArchive
    <3> QED
      BY <3>1, <3>2
  <2> HIDE DEF a
  <2>3. Whole' = Whole /\ Kept' = Kept
    BY <1>0, <2>1, <2>2 DEF Whole, Kept, Types
  <2> QED
    BY <1>2, <2>3, StoreStutters
<1>5. CASE OpenArchive(m) \/ CopyParts(m) \/ VerifyArchive(m)
  <2>1. archive' = archive
    BY <1>5 DEF OpenArchive, CopyParts, VerifyArchive
  <2>2. \/ joined' = joined
        \/ joined' = [joined EXCEPT ![a] = "bad"]
        \/ joined' = [joined EXCEPT ![a] = "absent"]
        \/ /\ \A p \in PartsOf(a) : cache[p] = "good"
           /\ joined' = [joined EXCEPT ![a] = "good"]
    <3>1. CASE VerifyArchive(m)
      <4>1. \/ joined' = joined
            \/ joined' = [joined EXCEPT ![a] = IF JoinOpen(a) THEN @ ELSE "absent"]
        BY <3>1 DEF VerifyArchive
      <4>2. [joined EXCEPT ![a] = joined[a]] = joined
        BY <1>0 DEF Types
      <4> QED
        BY <4>1, <4>2
    <3>2. CASE OpenArchive(m)
      BY <3>2 DEF OpenArchive
    <3>3. CASE CopyParts(m)
      BY <3>3 DEF CopyParts
    <3> QED
      BY <1>5, <3>1, <3>2, <3>3
  <2>3. PartsOf(a) \subseteq Parts
    BY MaterializerAssumption DEF PartsOf
  <2> HIDE DEF a
  <2>4. Kept' = Kept
    BY <2>1 DEF Kept
  <2>5. \/ Whole' = Whole \/ Whole' = Whole \ {a}
        \/ PartsOf(a) \subseteq Ready /\ Whole' = Whole \cup {a}
    BY <1>0, <2>2, <2>3 DEF Whole, Ready, Types
  <2> QED
    BY <1>0, <1>00, <1>2, <2>4, <2>5, Assembles, Scraps, StoreStutters
<1> QED
  BY <1>3, <1>4, <1>5

(* Those that move programs into the build: the engine, which is what was     *)
(* verified in the archive, and the tools beside it.                        *)
LEMMA InstallingSteps ==
  ASSUME IInv, One, StoreInv, UNCHANGED team, NEW m \in Workers,
         InstallEngine(m) \/ InstallTools(m)
  PROVE  S!Next \/ UNCHANGED S!vars
<1>0. Stage = "making" /\ UNCHANGED Stage
  BY ReceiptKept, StillMaking
<1>1. m \in team /\ pc[m] \in RuntimeLabels
  BY Unsettled DEF WorkerStep, InstallEngine, InstallTools, Install, RuntimeLabels
<1>2. build # None /\ build \in Build
  BY <1>1 DEF IInv, BaseInv, Types, OneInv, Progress
<1>3. UNCHANGED <<Ready, Whole, Kept, decays>>
  BY DEF InstallEngine, InstallTools, Install, downloads, archives, bounds, Ready, Whole, Kept
<1>4. CASE build' = build
  BY <1>0, <1>3, <1>4, StoreStutters DEF Holds, Contains
<1>5. ASSUME NEW c \in Components, build' = [build EXCEPT !.components = @ \union {c}]
      PROVE  /\ c = "engine" => Holds' = Holds \cup {"runtime"}
             /\ c = "tools" => Holds' = Holds
  <2>1. build' # None
    BY <1>2, <1>5, BuildUpdates
  <2>2. /\ build'.guest = build.guest /\ build'.guestPartial = build.guestPartial
        /\ build'.components = build.components \union {c}
    BY <1>2, <1>5 DEF Build
  <2> QED
    BY <1>2, <2>1, <2>2 DEF Holds, Contains, Assets
<1>6. CASE InstallEngine(m) /\ build' # build
  <2>1. "runtime" \in Kept /\ build' = [build EXCEPT !.components = @ \union {"engine"}]
    BY <1>2, <1>6 DEF InstallEngine, Install, RuntimeExtracts, Kept, Assets
  <2> QED
    BY <1>0, <1>3, <1>5, <2>1, Installs DEF Components, Kept
<1>7. CASE InstallTools(m) /\ build' # build
  <2>1. build' = [build EXCEPT !.components = @ \union {"tools"}]
    BY <1>2, <1>7 DEF InstallTools, Install
  <2> QED
    BY <1>0, <1>3, <1>5, <2>1, StoreStutters DEF Components
<1> QED
  BY <1>4, <1>6, <1>7

(* Those that put the guest into it. *)
LEMMA GuestSteps ==
  ASSUME IInv, One, StoreInv, UNCHANGED team, NEW m \in Workers,
         \/ EndProbe(m) \/ ExpandGuest(m) \/ EndExpand(m) \/ VerifyGuest(m) \/ MoveGuest(m)
         \/ LockGuest(m)
  PROVE  S!Next \/ UNCHANGED S!vars
<1>0. Stage = "making" /\ UNCHANGED Stage /\ m \in team
  BY ReceiptKept, StillMaking, Unsettled DEF WorkerStep
<1>1. UNCHANGED <<cache, joined, archive, decays>>
  BY DEF downloads, archives, bounds, EndProbe, ExpandGuest, EndExpand, VerifyGuest,
     MoveGuest, LockGuest, SetReadOnly
<1>2. UNCHANGED <<Ready, Whole, Kept, Stage, decays>>
  BY <1>0, <1>1 DEF Ready, Whole, Kept
<1>3. build \in Build \union {None} /\ FreshBuild /\ Progress
  BY <1>0 DEF IInv, BaseInv, Types, StoreInv, OneInv
<1>4. CASE EndExpand(m) /\ archive["guest"] = "good"
  <2>1. build # None
    BY <1>4 DEF IInv, BaseInv, OpenStays, BuildOpen, EndExpand
  <2>2. build' = build \/ build' = [build EXCEPT !.guestPartial = "good"]
    BY <1>4 DEF EndExpand
  <2>3. build' # None
    BY <1>3, <2>1, <2>2, BuildUpdates DEF Contents
  <2>4. build'.components = build.components /\ build'.guest = build.guest
        /\ build'.guestPartial \in {build.guestPartial, "good"}
    BY <1>3, <2>1, <2>2 DEF Build
  <2>5. Holds' = Holds \/ Holds' = Holds \cup {"guest"}
    BY <2>1, <2>3, <2>4 DEF Holds, Contains, Assets
  <2>6. "guest" \in Kept
    BY <1>4 DEF Kept, Assets
  <2> QED
    BY <1>0, <1>2, <2>5, <2>6, Installs, StoreStutters DEF Kept
<1>5. CASE ~(EndExpand(m) /\ archive["guest"] = "good")
  <2>1. \/ build' = build
        \/ /\ build # None /\ build' # None
           /\ build'.components = build.components
           /\ ("good" \in {build'.guestPartial, build'.guest})
                <=> ("good" \in {build.guestPartial, build.guest})
    <3>1. CASE EndProbe(m)
      <4>1. build # None
        BY <3>1 DEF IInv, BaseInv, OpenStays, BuildOpen, EndProbe
      <4>2. build' = build \/ build' = [build EXCEPT !.probed = TRUE]
        BY <3>1 DEF EndProbe
      <4>3. build' # None
        BY <1>3, <4>1, <4>2, BuildUpdates
      <4> QED
        BY <1>3, <4>1, <4>2, <4>3 DEF Build
    <3>2. CASE ExpandGuest(m)
      <4>1. build # None /\ build.guestPartial = "absent" /\ build.guest = "absent"
        <5>1. asset[m] = "guest"
          BY <1>0, <3>2 DEF IInv, OneInv, AssetAt, GuestLabels, ExpandGuest
        <5> QED
          BY <1>0, <1>3, <3>2 DEF FreshBuild, Guestless, Progress, GuestLabels, ExpandGuest
      <4>2. build' = build \/ build' = [build EXCEPT !.guestPartial = "bad"]
        BY <3>2, <4>1 DEF ExpandGuest
      <4>3. build' # None
        BY <1>3, <4>1, <4>2, BuildUpdates DEF Contents
      <4> QED
        BY <1>3, <4>1, <4>2, <4>3 DEF Build
    <3>3. CASE EndExpand(m)
      BY <1>5, <3>3 DEF EndExpand
    <3>4. CASE VerifyGuest(m)
      <4>1. \/ build' = build
            \/ /\ build # None /\ build.guestPartial # "good"
               /\ build' = [build EXCEPT !.guestPartial = "absent"]
        BY <3>4 DEF VerifyGuest
      <4>2. build # None /\ build' # build => build' # None
        BY <1>3, <4>1, BuildUpdates DEF Contents
      <4> QED
        BY <1>3, <4>1, <4>2 DEF Build
    <3>5. CASE MoveGuest(m)
      <4>1. \/ build' = build
            \/ /\ build # None /\ build.guest = "absent"
               /\ build' = [build EXCEPT !.guest = build.guestPartial, !.guestPartial = "absent"]
        BY <3>5 DEF MoveGuest
      <4>2. build # None /\ build' # build => build' # None
        BY <1>3, <4>1, BuildUpdates DEF Contents
      <4> QED
        BY <1>3, <4>1, <4>2 DEF Build
    <3>6. CASE LockGuest(m)
      <4>1. build' = build \/ (build # None /\ build' = [build EXCEPT !.readOnly = TRUE])
        BY <3>6 DEF LockGuest, SetReadOnly
      <4>2. build # None /\ build' # build => build' # None
        BY <1>3, <4>1, BuildUpdates
      <4> QED
        BY <1>3, <4>1, <4>2 DEF Build
    <3> QED
      BY <3>1, <3>2, <3>3, <3>4, <3>5, <3>6
  <2>2. Holds' = Holds
    BY <2>1 DEF Holds, Contains
  <2> QED
    BY <1>2, <2>2, StoreStutters
<1> QED
  BY <1>4, <1>5

(* Those that begin a build. *)
LEMMA BuildSteps ==
  ASSUME IInv, One, StoreInv, UNCHANGED team, NEW m \in Workers,
         QuarantineBuild(m) \/ MakeDirectories(m)
  PROVE  S!Next \/ UNCHANGED S!vars
<1>1. Stage = "making" /\ UNCHANGED Stage
  BY ReceiptKept, StillMaking
<1>2. UNCHANGED <<Ready, Whole, Kept, decays>>
  BY DEF downloads, archives, bounds, QuarantineBuild, MakeDirectories, Ready, Whole, Kept
<1>3. build' = build \/ build' = None \/ (build = None /\ build' = EmptyBuild)
  BY DEF QuarantineBuild, MakeDirectories
<1>4. Holds' = Holds \/ Holds' = {}
  BY <1>3 DEF Holds, Contains, EmptyBuild, Assets
<1> QED
  BY <1>1, <1>2, <1>4, Discards, StoreStutters

(* Those that end one: whatever comes after the receipt is about a factory    *)
(* with all its assets, accepted or about to be.                            *)
LEMMA EndingSteps ==
  ASSUME IInv, One, StoreInv, UNCHANGED team, NEW m \in Workers,
         \/ WriteReceipt(m) \/ Activate(m) \/ Announce(m) \/ FailBuild(m) \/ Throw(m)
         \/ Kill(m)
  PROVE  S!Next \/ UNCHANGED S!vars
<1>0. m \in team /\ \A n \in team : n = m
  BY Unsettled DEF WorkerStep
<1>1. Stage = StageOf(m) /\ Stage' = StageOf(m)'
  BY Stages DEF WorkerStep
<1>2. UNCHANGED <<Ready, Whole, Kept, decays>>
  BY DEF downloads, archives, bounds, WriteReceipt, Activate, Announce, FailBuild, Throw, Kill,
     Ready, Whole, Kept
<1>3. Placed
  BY DEF IInv, BaseInv
<1>4. CASE WriteReceipt(m) /\ pc'[m] # "failed"
  <2>1. pc[m] = "receipt" /\ pc'[m] = "activate" /\ build # None
        /\ build' = [build EXCEPT !.receipt = TRUE]
    BY <1>3, <1>4 DEF WriteReceipt, Placed, Goto, Fail
  <2>2. build \in Build /\ ~Accepted
    <3>1. build \in Build
      BY <2>1 DEF IInv, BaseInv, Types
    <3>2. ~Accepted
      BY <1>4, <2>1, Unsettled DEF WorkerStep
    <3> QED
      BY <3>1, <3>2
  <2>3. build' # None /\ build'.guest = build.guest /\ build'.components = build.components
        /\ build'.guestPartial = build.guestPartial
    <3>1. build' # None
      BY <2>1, <2>2, BuildUpdates
    <3>2. /\ build'.guest = build.guest /\ build'.components = build.components
          /\ build'.guestPartial = build.guestPartial
      BY <2>1, <2>2 DEF Build
    <3> QED
      BY <3>1, <3>2
  <2>4. Holds' = Holds
    BY <2>1, <2>3 DEF Holds, Contains
  <2>5. CASE ~Accepted'
    BY <1>2, <2>2, <2>4, <2>5, StillMaking, StoreStutters
  <2>6. CASE Accepted'
    <3>1. build.guest = "good" /\ build.components = Components
      <4>1. IInv' /\ AtMostTwo'
        BY <1>0, <1>4, WorkerPreserves DEF AtMostTwo, WorkerStep
      <4>2. build'.guest # "bad"
        BY <2>1, <2>2, <2>3, <4>1 DEF IInv, TwoInv, BadGuestNoReceipt, Build
      <4> QED
        BY <2>2, <2>3, <2>6, <4>2 DEF Accepted, Build, Contents
    <3>2. Holds = Assets
      BY <2>1, <3>1 DEF Holds, Contains, Components
    <3>3. Stage = "making" /\ Stage' = "made"
      BY <1>1, <2>1, <2>2, <2>6 DEF StageOf
    <3> QED
      BY <1>2, <2>4, <3>2, <3>3, Accepts
  <2> QED
    BY <2>5, <2>6
<1>5. CASE WriteReceipt(m) /\ pc'[m] = "failed"
  <2>1. UNCHANGED <<build, pointer>> /\ build = None
    BY <1>3, <1>5 DEF WriteReceipt, Placed, Goto, Fail
  <2> QED
    BY <1>2, <2>1, StillMaking, StoreStutters DEF Accepted, Holds
<1>6. CASE Activate(m)
  <2>1. pc[m] = "activate" /\ pc'[m] = "announce" /\ build' = build /\ pointer' = TRUE
    BY <1>3, <1>6 DEF Activate, Placed, Goto
  <2>2. /\ build # None /\ build.components = Components /\ build.guest = "good"
        /\ build.receipt = TRUE /\ build.probed = TRUE /\ build.readOnly = TRUE
    BY <1>0, <2>1, Completed
  <2>3. Accepted'
    BY <2>1, <2>2 DEF Accepted
  <2>4. Holds = Assets /\ Holds' = Holds
    BY <2>1, <2>2 DEF Holds, Contains, Components
  <2>5. Stage \in {"making", "made"} /\ Stage' = "made"
    BY <1>1, <2>1, <2>3 DEF StageOf
  <2> QED
    BY <1>2, <2>4, <2>5, Accepts, StoreStutters
<1>7. CASE Announce(m) \/ Throw(m) \/ Kill(m)
  <2>1. UNCHANGED <<build, pointer>> /\ pc[m] # "idle"
        /\ \/ pc'[m] = "idle"
           \/ pc[m] # "failed" /\ pc'[m] = "failed"
    BY <1>3, <1>7 DEF Announce, Throw, Kill, factory, Placed, Goto, Fail
  <2>2. Holds' = Holds /\ (Accepted' <=> Accepted)
    BY <2>1 DEF Holds, Contains, Accepted
  <2>3. CASE ~Accepted
    BY <1>2, <2>2, <2>3, StillMaking, StoreStutters
  <2>4. CASE Accepted
    <3>1. \/ Stage \in {"made", "failing"} /\ Stage' = "kept"
          \/ Stage = "made" /\ Stage' = "failing"
      BY <1>1, <2>1, <2>2, <2>4 DEF StageOf
    <3> QED
      BY <1>2, <2>2, <3>1, Settles, FailsAfter
  <2> QED
    BY <2>3, <2>4
<1>8. CASE FailBuild(m)
  <2>1. pc[m] = "failed" /\ build' = None
    <3>1. \A n \in Workers : n # m => pc[n] = "idle"
      BY <1>0 DEF IInv, BaseInv, InTeam
    <3> QED
      BY <1>8, <3>1 DEF FailBuild, BuildOpen
  <2>2. Holds' = {} /\ ~Accepted'
    BY <2>1 DEF Holds, Accepted
  <2>3. CASE ~Accepted
    BY <1>2, <2>2, <2>3, StillMaking, Discards
  <2>4. CASE Accepted
    <3>1. Stage = "failing" /\ Stage' = "making"
      BY <1>1, <2>1, <2>2, <2>4 DEF StageOf
    <3> QED
      BY <1>2, <2>2, <3>1, GivesUp
  <2> QED
    BY <2>3, <2>4
<1> QED
  BY <1>4, <1>5, <1>6, <1>7, <1>8

(* And the disk's. *)
LEMMA DecayingStep ==
  ASSUME IInv, Decay
  PROVE  S!Next
<1>0. Types
  BY DEF IInv, BaseInv
<1>1. UNCHANGED <<joined, build, pointer, pc>> /\ decays' = decays + 1
  BY DEF Decay, factory
<1>2. UNCHANGED <<Whole, Holds, Stage>>
  BY <1>1 DEF Whole, Holds, Contains, Stage, Accepted
<1>3. \/ \E p \in Ready : Ready' = Ready \ {p} /\ Kept' = Kept
      \/ \E a \in Kept : Kept' = Kept \ {a} /\ Ready' = Ready
  <2>1. ASSUME NEW p \in Parts, cache[p] = "good", cache' = [cache EXCEPT ![p] = "bad"],
               UNCHANGED archive
        PROVE  p \in Ready /\ Ready' = Ready \ {p} /\ Kept' = Kept
    BY <1>0, <2>1 DEF Types, Ready, Kept
  <2>2. ASSUME NEW a \in Assets, archive[a] = "good", archive' = [archive EXCEPT ![a] = "bad"],
               UNCHANGED cache
        PROVE  a \in Kept /\ Kept' = Kept \ {a} /\ Ready' = Ready
    BY <1>0, <2>2 DEF Types, Ready, Kept
  <2> QED
    BY <2>1, <2>2 DEF Decay
<1>4. S!Decay
  BY <1>1, <1>2, <1>3 DEF S!Decay, Ready, Whole, Kept, Holds, Contains
<1> QED
  BY <1>4 DEF S!Next

(* "Verified parts are reused", "partial or invalid data ... never at its final *)
(* path", an accepted factory is complete, only the attempt that made it may   *)
(* put it away again, by failing, and once that attempt is over it stays: with *)
(* one worker, through any failures and kills, the materialiser is the Store.  *)
THEOREM StoreRefinement == Spec => ImplementsStore
<1> DEFINE Inv == IInv /\ (One => StoreInv)
<1>1. Init => Inv /\ (Alone => S!Init)
  <2> SUFFICES ASSUME Init PROVE Inv /\ S!Init
    OBVIOUS
  <2>1. Inv
    BY InitInvariant DEF Init, StoreInv, Unreceipted, FreshBuild, Making, PartLabels,
       JoinLabels, RuntimeLabels, GuestLabels
  <2>2. S!Init
    BY DEF Init, S!Init, Stage, Accepted
  <2> QED
    BY <2>1, <2>2
<1>2. Inv /\ [Next]_vars => Inv'
  <2> SUFFICES ASSUME Inv, [Next]_vars PROVE Inv'
    OBVIOUS
  <2>1. UNCHANGED team
    BY DEF Next, vars
  <2>2. IInv'
    BY NextStep
  <2>3. One' => One
    BY <2>1 DEF One
  <2> QED
    BY <2>1, <2>2, <2>3, StoreInvStep
<1>3. Inv /\ [Next]_vars => [Alone => S!Next \/ UNCHANGED S!vars]_vars
  <2> SUFFICES ASSUME Inv, Next, Alone PROVE S!Next \/ UNCHANGED S!vars
    OBVIOUS
  <2>1. UNCHANGED team
    BY DEF Next
  <2>2. One /\ StoreInv
    BY AloneIsOne DEF IInv
  <2>3. ASSUME NEW m \in Workers, Start(m) \/ WorkerStep(m) \/ Throw(m) \/ Kill(m)
        PROVE  S!Next \/ UNCHANGED S!vars
    BY <2>1, <2>2, <2>3, FetchingSteps, JoiningSteps, InstallingSteps, GuestSteps, BuildSteps,
       EndingSteps
       DEF WorkerStep
  <2>4. CASE Decay
    BY <2>4, DecayingStep
  <2> QED
    BY <2>3, <2>4 DEF Next
<1> HIDE DEF Inv
<1> QED
  BY <1>1, <1>2, <1>3, PTL DEF Spec, ImplementsStore

(* A team does not change, so a lone worker behaves as the Store from start    *)
(* to end.                                                                  *)
THEOREM LoneWorkerIsStore == Spec /\ Alone => S!Spec
<1>1. Alone /\ [Next]_vars => Alone'
  BY DEF Alone, Next, vars
<1>2. Alone /\ [Alone => S!Next \/ UNCHANGED S!vars]_vars => [S!Next]_(S!vars)
  <2> SUFFICES ASSUME UNCHANGED vars PROVE UNCHANGED S!vars
    OBVIOUS
  <2>1. UNCHANGED <<cache, joined, archive, build, pointer, pc, decays>>
    BY DEF vars, work, downloads, archives, factory, bounds
  <2> QED
    BY <2>1, StoreStutters DEF Ready, Whole, Kept, Holds, Contains, Stage, Accepted
<1> QED
  BY <1>1, <1>2, StoreRefinement, PTL DEF Spec, ImplementsStore, S!Spec
=============================================================================
