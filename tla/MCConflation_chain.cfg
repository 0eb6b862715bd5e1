SPECIFICATION Spec
CHECK_DEADLOCK FALSE
CONSTANTS
    h1 = h1
    w1 = w1
    Nil = Nil
    Hubs <- OneHub
    Workers <- OneWorker
    Types <- MCTypes
    Priority <- MCPriority
    SyncMode <- MCSyncMode
    Dependency <- MCDependency
    DependencyType <- MCDependencyType
    Deliverable <- MCDeliverable
    RequireInitialDependencyChecks = TRUE
    MaxReceived = 6
INVARIANTS
    TypeOK
    MemoryTracksDB
    MarkedIsApplied
    DependencyHeld
PROPERTIES
    StoredNeverRegresses
    ImplementsContract
