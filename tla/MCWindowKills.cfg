SPECIFICATION Spec
CONSTANTS
  Windows = {w1}
  Jobs = {j1, j2, j3}
  None = none
  HasContract = FALSE
  Hosts = {"Supported"}
  Features = {"Disabled", "EnablePending", "Enabled"}
  MaxFaults = 0
  MaxKills = 1
  MaxRestarts = 1
SYMMETRY Symmetry
PROPERTIES
  NoWorkerForgotten
