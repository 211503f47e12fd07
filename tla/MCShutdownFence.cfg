SPECIFICATION LiveSpec
CONSTANTS
    w1 = w1
    c1 = c1
    Windows = {w1}
    Fragile = {w1}
    Callbacks = {c1}
    MaxShutdowns = 2
    MaxReleases = 1
    WaveBudget = 2
    DebugAssertions = TRUE
PROPERTIES ClearedSafely CompletionIsFinal NoTerminateLost ShutdownCompletes
CHECK_DEADLOCK FALSE
