SPECIFICATION Spec
CONSTANTS
  c1 = c1
  c2 = c2
  c3 = c3
  Calls = {c1, c2, c3}
  AskedFor <- OpenReadPed
  Nobody = Nobody
  Percent <- MCPercent
  Frames <- MCFrames
  MaxTx = 1
  MaxNoise = 1
PROPERTIES
  OneShotSafety
  OneShotPromise
  ShutdownDrains
CHECK_DEADLOCK FALSE
