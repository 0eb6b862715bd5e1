SPECIFICATION FairWritersSpec
CHECK_DEADLOCK FALSE
CONSTANTS
    a = a
    b = b
    h1 = h1
    h2 = h2
    n1 = n1
    g1 = g1
    NoObject = NoObject
    NoOrigin = NoOrigin
    Nil = Nil
    Contents <- TwoContents
    MaxUids = 2
    MaxVersion = 6
    MaxFaults = 2
    Origins <- OneOrigin
    Hubs <- TwoHubs
    Names <- OneName
    MaxChanges = 2
    MaxFailures = 1
INVARIANTS
    NoOrphanRow
    RowOfLiveObjectKept
    RowsAreOfWrittenBundle
PROPERTIES
    EventuallyInSync
    ResourcesEventuallyStored
