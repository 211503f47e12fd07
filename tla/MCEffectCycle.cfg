CONSTANTS
    e1 = e1
    e2 = e2
    NoEntity = NoEntity
    Entities = {e1, e2}
    InitialEntities = {e1}
    Globals = {"g1"}
    Workloads <- AllWorkloads
    MaxSubscribers = 2
    MaxUpdates = 2
SPECIFICATION Spec
INVARIANTS
    UnwindingRestores
    NotificationsDelivered
    NoRetroactiveDelivery
    RefCountsExact
    ReleasedHasNoSubscribers
PROPERTY
    UpdatesSettle
CHECK_DEADLOCK FALSE
