SPECIFICATION Spec
CHECK_DEADLOCK FALSE
CONSTANTS
    p1 = p1
    p2 = p2
    c0 = c0
    c1 = c1
    c2 = c2
    h1 = h1
    h2 = h2
    k1 = k1
    k2 = k2
    v1 = v1
    Nil = Nil
    Values <- OneValue
    optimisticConcurrencyRetryAttempts = 2
    Clients <- TwoClients
    Clusters <- TwoClusters
    HubOf <- TwoHubs
    FilledAs <- NoneFilled
    Keys <- OneKey
    Documents <- OneKeyPatches
    PoolSizes = {4}
    MaxFillTime = 0
    Trimming = FALSE
    RequestBudgets <- TwoRequests
INVARIANTS
    NothingMissed
