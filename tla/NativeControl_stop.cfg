SPECIFICATION Spec
CONSTANTS
  c1 = c1
  c2 = c2
  c3 = c3
  Calls = {c1, c2}
  Poller = Poller
  AskedFor <- StopThenOpen
  Via <- CoverAndTest
  Profile = "PS25142"
  SettleRounds = 2
  MaxFaults = 1
  Remote = {"opening", "none"}
  Percent <- MCPercent
INVARIANTS
  TypeOK
  LocksHeld
  StopHeld
PROPERTY Convergence
