SPECIFICATION Spec
CHECK_DEADLOCK FALSE
CONSTANTS
    p1 = p1
    p2 = p2
    c1 = c1
    Nil = Nil
    Policies <- TwoPolicies
    Clusters <- OneCluster
    MaxSteps = 7
    Reported <- CompliantOrNot
    maxColumnsUpdateInStatement = 10
SYMMETRY PolicySymmetry
INVARIANTS
    RowsAreOfWrittenClusters
    QuiescentRowsAreTruth
    QuiescentMinimalIsTruth
    RefusedOnlyForSize
