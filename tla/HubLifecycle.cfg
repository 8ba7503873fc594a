SPECIFICATION Spec
CONSTANTS
  Entries <- MCEntries
  MaxReports = 1
  MaxFaults = 2
INVARIANTS
  FrameFits
  ParametersWatched
  UnloadedIsQuiet
PROPERTIES
  AvailabilityShown
CHECK_DEADLOCK FALSE
