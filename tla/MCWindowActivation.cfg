SPECIFICATION LiveSpec
CONSTANTS
  w1 = w1
  w2 = w2
  NoWindow = NoWindow
  Windows = {w1, w2}
  Supported = {w1, w2}
  MaxRequests = 2
  MaxObservers = 1
  MaxFocus = 1
  MaxPolicy = 1
  MaxPanics = 1
  MaxUpdates = 3
INVARIANTS TerminalHasEvidence PendingIsOwned
PROPERTIES CallsAreWanted SettledIsObserved
CHECK_DEADLOCK FALSE
