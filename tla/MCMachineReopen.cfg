SPECIFICATION FairSpec
CONSTANTS
  Sessions = {s1}
  Builds = {b1, b2}
  Fallback = fallback
  Deployed = {b1, fallback}
  Images = {i1, i2, i3, i4}
  None = none
  Abandoned = abandoned
  Kinds = {"Persistent", "Disposable", "Archive"}
  MaxBackups = 1
  MaxFaults = 1
  MaxKills = 0
  MaxPowerLosses = 0
  MaxActivations = 1
INVARIANTS
  OnlyCheckedOverlays
  MachineCompleteWhenIdle
  FreshFirmware
PROPERTIES
  OpensUnlessParted
