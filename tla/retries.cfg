SPECIFICATION Spec
CONSTANTS
    Calls = {r1, r2}
    Cores = {"core1", "core2"}
    Bodies <- CutsAndVerifications
    Updates <- Written
    Loaded <- EveryStatus
    NoUpdate = NoUpdate
    NoBody = NoBody
    NoAnswer = NoAnswer
    Nobody = Nobody
    Torn = Torn
INVARIANTS
    OneEffectPerKey
    AnswersAreKept
    RepeatSucceeds
PROPERTIES
    AtomicUpdates
    EveryCallReturns
CHECK_DEADLOCK FALSE
