SPECIFICATION Spec
CONSTANTS
    None = None
    Cores = {k1, k2}
    Cases = {c1, c2}
    Keys = {key1}
    Issues <- OneIssue
    Registrations <- PlainCore
    Constraints <- ProtectAndReserve
    Plans <- Overlapping
    Cuts <- OneMgCut
    Measurements <- GoodOrIncomplete
    MaxCoreRevision = 2
    MaxCaseRevision = 2
SYMMETRY Symmetry
INVARIANTS
    ReviewedAsPrechecked
    SnapshotsTraceable
    HistoryGapless
CHECK_DEADLOCK FALSE
