SPECIFICATION FairSyncSpec
CHECK_DEADLOCK FALSE
CONSTANTS
    h1 = h1
    h2 = h2
    w1 = w1
    w2 = w2
    Nil = Nil
    Hubs <- TwoHubs
    Workers <- TwoWorkers
    Types <- MCTypes
    Priority <- MCPriority
    SyncMode <- MCSyncMode
    Dependency <- MCDependency
    DependencyType <- MCDependencyType
    Deliverable <- MCDeliverable
    RequireInitialDependencyChecks = TRUE
    MaxReceived = 0
    Budgets <- MCBudgets
    MaxFaults = 1
INVARIANTS
    SerialPerHub
    NoIdleReadyUnit
    ConsumedIsStored
    ReceivedIsHeld
PROPERTIES
    ObjectsEventuallyStored
