SPECIFICATION MCSpec
CONSTANTS
  m1 = m1
  Workers = {m1, m2}
  r1 = r1
  g1 = g1
  Parts = {r1, g1}
  GuestParts = {g1}
  PartOrder <- MCPartOrder
  None = none
  Seeds = {"absent", "good", "bad"}
  MaxFaults = 2
  MaxKills = 2
  MaxDecays = 1
INVARIANTS
  AcceptedIsVerified
  CacheHoldsVerified
PROPERTIES
  ActivationComplete
  FactoryArrives
  ImplementsStore
CHECK_DEADLOCK FALSE
