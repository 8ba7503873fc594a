SPECIFICATION SafetySpec
CONSTANTS
  w1 = w1
  w2 = w2
  Writers = {w1}
  Loop = Loop
  Nobody = Nobody
  Index = {1, 2, 3}
  Value = {0, 10, 16}
  Encodable = {0, 10, 16}
  Editable = {1, 2}
  Asked <- MCUart0Asked
  Profiles <- MCUart0Path
  NoFrame = NoFrame
  Origins <- MCUart0Origins
  Others <- MCUart0Origins
  MaxFaults = 0
  MaxForeign = 0
INVARIANTS
  AcceptedIsClean
CHECK_DEADLOCK FALSE
