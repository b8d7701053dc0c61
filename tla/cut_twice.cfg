SPECIFICATION Spec
CONSTANTS
    None = None
    Cores = {k1}
    Cases = {c1, c2}
    Keys = {key1}
    Issues <- NoIssue
    Registrations <- PlainCore
    Constraints <- ProtectOrReserve
    Plans <- Overlapping
    Cuts <- OneMgCut
    Measurements <- AnyMeasurement
    MaxCoreRevision = 1
    MaxCaseRevision = 1
SYMMETRY Symmetry
INVARIANTS
    FrozenCutsDisjoint
CHECK_DEADLOCK FALSE
