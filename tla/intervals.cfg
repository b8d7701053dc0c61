SPECIFICATION MCSpec
CONSTANTS
    Lists <- SortedLists
    Bases <- SomeBases
    Depths <- SomeDepths
    Core = "core"
    CoreDepth <- ThisDepth
    Protected <- NormalSets
    Holdings <- TwoHoldings
INVARIANTS
    MergeIsUnion
    MergeIsNormalize
    SubtractIsDifference
    ViewExplainsDepths
    ViewIsCoarsest
CHECK_DEADLOCK FALSE
