SPECIFICATION CSpec
CONSTANTS
    t1 = t1
    t2 = t2
    c1 = c1
    c2 = c2
    k1 = k1
    k2 = k2
    None = None
    Nobody = Nobody
    Calls <- TwoCalls
    Cases = {c1}
    Cores = {k1}
    Requests <- CaseWatched
    Mass = 4
    MaxRevision = 2
SYMMETRY Symmetry
INVARIANTS
    AnswersWereTrue
CHECK_DEADLOCK FALSE
