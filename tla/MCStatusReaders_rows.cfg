SPECIFICATION FairReadersSpec
CHECK_DEADLOCK FALSE
CONSTANTS
    h1 = h1
    h2 = h2
    Nil = Nil
    None = None
    Malformed = Malformed
    TextsWithApostrophe = {"a'", "x'"}
    misquoted = "refused"
    LeafHubs <- TwoHubs
    Values <- TwoValues
    StatusBudgets <- MCStatusBudgets
    MaxLag = 2
    MaxRequests = 2
    ClusterKeys <- MCClusterKeys
    ClusterAttributes <- MCClusterAttributes
    Answers <- MCAnswers
    WatchBudgets <- MCWatchBudgets
INVARIANTS BindingKept ShownIsAllowed
PROPERTIES EventuallyShown WatchConverges
