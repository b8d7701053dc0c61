SPECIFICATION Spec
CONSTANTS
    None = None
    Cores = {k1}
    Cases = {c1, c2}
    Keys = {key1}
    Issues <- NoIssue
    Registrations <- PlainCore
    Constraints <- ProtectOrReserve
    Plans <- TwoOfThreeOverlap
    Cuts <- AnyCut
    Measurements <- AnyMeasurement
    MaxCoreRevision = 2
    MaxCaseRevision = 1
SYMMETRY Symmetry
INVARIANTS
    TypeOK
    SubmittedRequestsDisjoint
    AuthorizationChain
    CredentialsVerify
    ReserveKept
PROPERTIES
    StaleForever
    ApprovedOnThePresent
CHECK_DEADLOCK FALSE
