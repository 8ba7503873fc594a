SPECIFICATION SafetySpec
CONSTANTS
  c1 = c1
  c2 = c2
  c3 = c3
  Calls = {c1, c2}
  AskedFor <- CloseAndPed
  Nobody = Nobody
  Percent <- MCPercent
  Frames <- MCFrames
  MaxTx = 1
  MaxNoise = 3
INVARIANTS
  TypeOK
  OneWaiter
  LockDiscipline
PROPERTIES
  MotionEvidence
CHECK_DEADLOCK FALSE
