SPECIFICATION Spec
CONSTANTS
  MaxUnread = 2
  MaxFaults = 3
  MayStop = TRUE
INVARIANTS
  TypeOK
  ConnectedIsOnline
PROPERTIES
  DeadLinkNoticed
  Recovers
  StopEnds
