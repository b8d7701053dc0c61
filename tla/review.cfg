SPECIFICATION ClientSpec
CONSTANTS
    None = None
    Cores = {k1}
    Cases = {c1}
    Keys = {key1, key2}
    Issues <- TwoIssues
    Registrations <- PlainCore
    Constraints <- ProtectOrReserve
    Plans <- NearAndFar
    Cuts <- OneMgCut
    Measurements <- GoodOrIncomplete
    MaxCoreRevision = 2
    MaxCaseRevision = 3
INVARIANTS
    FindingsGate
    LedgerMatchesStatus
PROPERTIES
    EditsReplaceWhatWasShown
    CutsFollowWhatWasShown
    EvidenceImmutable
    LifecycleSpec
CHECK_DEADLOCK FALSE
