SPECIFICATION SessionSpec
CONSTANTS
  c1 = c1
  c2 = c2
  c3 = c3
  Callers = {c1, c2, c3}
  Stopper = Stopper
  Nobody = Nobody
  Requested <- TwoReadsAndOpen
  MaxFailures = 1
  MaxCancels = 1
INVARIANTS
  LineIsOwn
PROPERTIES
  CommandsInTime
  CallsEnd
