SPECIFICATION IngressLiveSpec
CONSTANTS
  Kinds = {"event", "frame", "command", "completion"}
  Budget = 1
  MaxSequence = 3
  MaxUnwinds = 1
  MaxBorrows = 1
  MaxDepth = 5
INVARIANTS WorkAccounted NoStrandedWork
PROPERTIES HandlersInOrder WorkSettles
CHECK_DEADLOCK FALSE
