SPECIFICATION Spec
CONSTANTS
  c1 = c1
  c2 = c2
  c3 = c3
  Calls = {c1, c2, c3}
  Poller = Poller
  AskedFor <- StopOpenOpen
  Via <- CoverTestCover
  Profile = "PS25142"
  SettleRounds = 2
  MaxFaults = 1
  Remote <- Movements
  Percent <- Stuck
PROPERTY EveryoneTurns
