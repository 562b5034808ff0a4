SPECIFICATION FairSpec
CONSTANTS
  Windows = {w1}
  Jobs = {j1, j2}
  None = none
  HasContract = TRUE
  Hosts = {"Supported"}
  Features = {"Disabled"}
  MaxFaults = 0
  MaxKills = 0
  MaxRestarts = 0
PROPERTIES
  ContinuesAutomatically
