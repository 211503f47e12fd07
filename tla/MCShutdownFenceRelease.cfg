SPECIFICATION Spec
CONSTANTS
    w1 = w1
    c1 = c1
    Windows = {w1}
    Fragile = {w1}
    Callbacks = {c1}
    MaxShutdowns = 2
    MaxReleases = 1
    WaveBudget = 2
    DebugAssertions = FALSE
PROPERTY NoTerminateLost
CHECK_DEADLOCK FALSE
