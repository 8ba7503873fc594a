SPECIFICATION Spec
CONSTANTS
  Percent <- MCPercent
  StatusSource = "shadow"
  Issued = {"FULL OPEN", "FULL CLOSE", "PED OPEN", "STOP"}
  MaxLive = 1
  MaxStatus = 1
  MaxFaults = 1
INVARIANTS
  TypeOK
  StoppedIsStill
PROPERTIES
  SettledStaysSettled
  Convergence
