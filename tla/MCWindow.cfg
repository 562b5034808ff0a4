SPECIFICATION FairSpec
CONSTANTS
  Windows = {w1}
  Jobs = {j1, j2}
  None = none
  HasContract = TRUE
  Hosts = {"Unsupported", "NoVirtualization", "Supported"}
  Features = {"Disabled", "EnablePending", "Enabled"}
  MaxFaults = 1
  MaxKills = 0
  MaxRestarts = 0
INVARIANTS
  ResumeArmed
  ResumeBounded
  JournalTellsRunning
PROPERTIES
  WindowAnswers
  RestartContinues
