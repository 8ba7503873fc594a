SPECIFICATION Spec
CONSTANTS
  c1 = c1
  c2 = c2
  Calls = {c1, c2}
  AskedFor <- OpenThenClose
  Monitor = Monitor
  Poller = Poller
  Hello = Hello
  Nobody = Nobody
  Percent <- MCPercent
  StartAt = {0}
  Rounds = 1
  Budgets <- MCBudgets
INVARIANTS
  MonitorYields
PROPERTIES
  ProofIsMotion
  MovementsEnd
CHECK_DEADLOCK FALSE
