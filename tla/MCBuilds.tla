------------------------------- MODULE MCBuilds -------------------------------
(***************************************************************************)
(* The three builds for TLC; a behaviour is of one of them, and the others   *)
(* stay as they start:                                                      *)
(*   "cidata"   two processes make the configuration image in one tree;      *)
(*   "package"  one process makes the package, again and again;              *)
(*   "guest"    one builder of the factory disk, two faults;                 *)
(*   "image"    one builder of the prepared image, two faults and two kills; *)
(*   "images"   two builders of it with one output directory.               *)
(***************************************************************************)
EXTENDS GuestBuild, FiniteSets

CONSTANTS
  Procs, Link, p1,
  MaxEdits, PackageFaults, PackageKills, ImageFaults, ImageKills   \* bounds

VARIABLES
  tool,
  tree, image, litter, stage, archive, packageSums, packagePc, job, payloads, files,
  made, edits, packageFaults, packageKills,
  parts, manifest, imageSums, guestfish, imagePc, imageDisk, imageCount, imageNext,
  imageTurn, imageFaults, imageKills

package == <<tree, image, litter, stage, archive, packageSums, packagePc, job, payloads,
             files, made, edits, packageFaults, packageKills>>
images == <<parts, manifest, imageSums, guestfish, imagePc, imageDisk, imageCount,
            imageNext, imageTurn, imageFaults, imageKills>>
mcVars == <<tool, vars, package, images>>

P == INSTANCE Package WITH
  Jobs <- {"make", "package"}, MaxFaults <- PackageFaults, MaxKills <- PackageKills,
  sums <- packageSums, pc <- packagePc, faults <- packageFaults, kills <- packageKills

M == INSTANCE ImageBuild WITH
  Builders <- Procs, RequireGuestfish <- TRUE, MaxFaults <- ImageFaults, MaxKills <- ImageKills,
  sums <- imageSums, pc <- imagePc, disk <- imageDisk, count <- imageCount,
  next <- imageNext, turn <- imageTurn, faults <- imageFaults, kills <- imageKills

ASSUME BuildsAssumption == P!PackageAssumption /\ M!ImageBuildAssumption

-----------------------------------------------------------------------------
Alone(states) == \A p \in Procs \ {p1} : states[p] = "idle"

MCInit ==
  /\ tool \in {"cidata", "package", "guest", "image", "images"}
  /\ Init
  /\ P!Init /\ job = [p \in Procs |-> IF tool = "package" THEN "package" ELSE "make"]
  /\ M!Init /\ (tool \notin {"image", "images"} => guestfish = {})

MCNext ==
  /\ \/ tool = "guest" /\ Next /\ UNCHANGED <<package, images>>
     \/ tool = "cidata" /\ P!Next /\ (\A p \in Procs : job'[p] = "make")
          /\ UNCHANGED <<vars, images>>
     \/ tool = "package" /\ P!Next /\ job'[p1] = "package" /\ Alone(packagePc')
          /\ UNCHANGED <<vars, images>>
     \/ tool = "image" /\ M!Next /\ Alone(imagePc') /\ UNCHANGED <<vars, package>>
     \/ tool = "images" /\ M!Next /\ imageFaults' <= 1 /\ imageKills' <= 1
          /\ UNCHANGED <<vars, package>>
  /\ UNCHANGED tool

MCSpec ==
  /\ MCInit /\ [][MCNext]_mcVars
  /\ SF_vars(tool = "guest" /\ CleanUp)
  /\ \A p \in Builders :
       WF_vars(tool = "guest" /\ Step(p)) /\ WF_vars(tool = "guest" /\ Start(p))

-----------------------------------------------------------------------------
(* Package: the image is whole whenever anyone looks, and the sources' image.  *)
ImageWholeAndFresh == P!ImageWholeAndFresh

(* Package: an archive that agrees with SHA256SUMS is closed, and its image is  *)
(* that of the configuration in it.                                         *)
SumsProveArchive == P!SumsProveArchive

(* Package: the archive is the tree, with nothing that earlier runs left.      *)
PackageIsTree == [][P!TreeArchived]_mcVars

(* ImageBuild: one builder's sums prove a whole stream; what is drafted, with   *)
(* any number of builders, is the whole stream of an audited disk.            *)
ImagesSound ==
  /\ M!TypeOK /\ M!DraftedIsAudited
  /\ tool = "image" => M!SumsProveStream

(* GuestBuild: after failures, kills and bad installs there is a candidate.    *)
FactoryBuilt == tool = "guest" => CandidateArrives

(* GuestBuild, ImageBuild: what one builder has completed is left as it is by   *)
(* every later run.                                                         *)
FinishedWorkKept ==
  [][/\ Candidate => out' = out
     /\ tool = "image" /\ M!SumsMatch => UNCHANGED <<parts, manifest, imageSums>>]_mcVars
=============================================================================
