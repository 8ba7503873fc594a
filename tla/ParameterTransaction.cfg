SPECIFICATION Spec
CONSTANTS
  w1 = w1
  w2 = w2
  Writers = {w1, w2}
  Loop = Loop
  Nobody = Nobody
  Index = {1, 2, 3}
  Value = {0, 1}
  Encodable = {0, 1}
  Editable = {1, 2}
  Asked <- MCAsked
  Profiles <- MCPaths
  NoFrame = NoFrame
  Origins <- MCOrigins
  Others <- MCOthers
  MaxFaults = 1
  MaxForeign = 1
INVARIANTS
  TypeOK
  NoLostUpdate
  UntouchedFields
PROPERTIES
  WritersEnd
  ShownConverges
CHECK_DEADLOCK FALSE
