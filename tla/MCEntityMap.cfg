CONSTANTS
    Main = Main
    t1 = t1
    t2 = t2
    NoThread = NoThread
    Threads = {Main, t1, t2}
    Ids = {1}
    MaxHandles = 4
SPECIFICATION Spec
PROPERTIES LastDropCollected ImplementsEntityRefs
CHECK_DEADLOCK FALSE
