SPECIFICATION MCSpec
CONSTANTS
  Builders = {b1}
  Procs = {p1, p2}
  p1 = p1
  Absent = Absent
  Torn = Torn
  Link = Link
  MaxParts = 2
  MaxFaults = 2
  MaxKills = 1
  MaxEdits = 2
  PackageFaults = 1
  PackageKills = 1
  ImageFaults = 2
  ImageKills = 2
INVARIANTS
  AcceptedIsOneBuild
  ImageWholeAndFresh
  SumsProveArchive
  ImagesSound
PROPERTIES
  PackageIsTree
  FactoryBuilt
  FinishedWorkKept
