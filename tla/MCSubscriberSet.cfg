CONSTANTS
    k1 = k1
    k2 = k2
    Keys = {k1, k2}
    MaxSubscribers = 3
    MaxNesting = 2
SPECIFICATION Spec
SYMMETRY KeySymmetry
INVARIANTS NoSubscriberLost DroppedNotStored TakenOnlyDuringRetain
CHECK_DEADLOCK FALSE
