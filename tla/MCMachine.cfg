SPECIFICATION Spec
CONSTANTS
  Sessions = {s1, s2}
  Builds = {b1}
  Fallback = fallback
  Deployed = {b1, fallback}
  Images = {i1, i2, i3}
  None = none
  Abandoned = abandoned
  Kinds = {"Persistent", "Disposable", "Archive"}
  MaxBackups = 1
  MaxFaults = 0
  MaxKills = 1
  MaxPowerLosses = 1
  MaxActivations = 0
SYMMETRY Symmetry
INVARIANTS
  TypeOK
  MutualExclusion
  DisposableBaseStable
  EphemeralUnderMutex
  OwnerDataKept
PROPERTIES
  ImplementsVault
