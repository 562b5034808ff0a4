SPECIFICATION FairSpec
CONSTANTS
  Workers = {m1}
  Setups = {k1, k2}
  None = none
  MaxFaults = 0
  MaxKills = 0
  MaxLosses = 1
  MaxDecays = 0
PROPERTIES
  SetupResumes
