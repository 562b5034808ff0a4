SPECIFICATION FairSpec
CONSTANTS
  Sessions = {s1}
  Builds = {b1}
  Fallback = fallback
  Deployed = {b1}
  Images = {i1, i2, i3, i4}
  None = none
  Abandoned = abandoned
  Kinds = {"Persistent"}
  MaxBackups = 0
  MaxFaults = 0
  MaxKills = 1
  MaxPowerLosses = 0
  MaxActivations = 0
PROPERTIES
  AlwaysOpensAgain
