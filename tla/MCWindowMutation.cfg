SPECIFICATION LiveSpec
CONSTANTS
    Domains <- PointerInput
    Gated <- PointerInput
    Live <- PointerInput
    Refusals = {"rejected"}
    MaxGeneration = 2
    MaxObservers = 2
    MaxAnswers = 2
INVARIANTS
    UnsettledIsPending
    OutcomeFromOwnAnswer
    QuiescedStaysQuiet
PROPERTY
    AnswerReachesObserver
