SPECIFICATION LiveSpec
CONSTANTS
  w1 = w1
  w2 = w2
  Windows = {w1, w2}
  Fragile = {w1}
  Captured = {w1}
  NoToken = NoToken
  MaxReleases = 1
  MaxContinuations = 2
  MaxRetries = 2
INVARIANTS BarriersHaveOwners DependenciesFirst TerminalIsNews
PROPERTIES BarriersSettle
CHECK_DEADLOCK FALSE
