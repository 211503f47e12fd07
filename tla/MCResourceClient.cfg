SPECIFICATION ClientSpec
CONSTANTS
    Keys = {"members"}
    Mutations = {"save"}
    MaxAttempts = 3
    MaxObservers = 3
INVARIANTS
    StatusAgrees
PROPERTIES
    ResultsNeverGoBack
