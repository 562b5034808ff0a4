SPECIFICATION Spec
CONSTANTS
  Builds = {b1, b2}
  Trees = {t1, t2}
  Images = {i1, i2}
  None = None
  Starter = Starter
  Corrupt = Corrupt
  MaxFaults = 2
  MaxRuns = 3
SYMMETRY Interchangeable
INVARIANTS
  PublishedMaterializes
  ReleaseAtExactTag
PROPERTIES
  AssetsNeverReplaced
  CleanRunSucceeds
CHECK_DEADLOCK FALSE
