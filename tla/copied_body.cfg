SPECIFICATION Spec
CONSTANTS
    None = None
    Cores = {k1, k2}
    Cases = {c1, c2, c3}
    Keys = {key1}
    Issues <- NoIssue
    Registrations <- PlainCore
    Constraints <- ProtectAndReserve
    Plans <- Overlapping
    Cuts <- OneMgCut
    Measurements <- AnyMeasurement
    MaxCoreRevision = 1
    MaxCaseRevision = 1
SYMMETRY Symmetry
INVARIANTS
    CommittedRequestsApart
CHECK_DEADLOCK FALSE
