SPECIFICATION KafkaSpec
CHECK_DEADLOCK FALSE
CONSTANTS
    h1 = h1
    w1 = w1
    Nil = Nil
    Hubs <- OneHub
    Workers <- OneWorker
    Types <- MCTypes
    Priority <- MCPriority
    SyncMode <- MCSyncMode
    Dependency <- MCDependency
    DependencyType <- MCDependencyType
    Deliverable <- MCDeliverable
    RequireInitialDependencyChecks = FALSE
    MaxReceived = 0
    LogLength = 4
    MaxRestarts = 0
INVARIANTS
    CommittedIsCovered
