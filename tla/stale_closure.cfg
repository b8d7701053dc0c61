SPECIFICATION Spec
CONSTANTS
    None = None
    Cores = {k1}
    Cases = {c1}
    Keys = {key1}
    Issues <- OneIssue
    Registrations <- PlainCore
    Constraints <- ProtectOrReserve
    Plans <- Overlapping
    Cuts <- OneMgCut
    Measurements <- AnyMeasurement
    MaxCoreRevision = 1
    MaxCaseRevision = 3
INVARIANTS
    ClosuresCurrent
CHECK_DEADLOCK FALSE
