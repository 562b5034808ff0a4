SPECIFICATION FairSpec
CONSTANTS
  Workers = {m1}
  Setups = {k1, k2}
  None = none
  MaxFaults = 2
  MaxKills = 1
  MaxLosses = 1
  MaxDecays = 1
INVARIANTS
  RecordIsTrue
PROPERTIES
  VerifiedInstallerRuns
  OpensUnlessTorn
