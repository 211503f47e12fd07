SPECIFICATION DispatcherSpec
CONSTANTS
    w1 = w1
    w2 = w2
    Main = main
    Original = original
    Workers <- TwoWorkers
    Callers <- Threads
    Runnables <- Tasks
    MaxItems = 3
    Level <- Levels
    MaxPanics = 2
INVARIANTS
    NoStrandedRunnable
    NoLostWakeup
    PopAlwaysYields
PROPERTY
    TaskContinues
CHECK_DEADLOCK FALSE
