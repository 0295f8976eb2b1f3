SPECIFICATION Spec
CONSTANTS
    None = None
    Turn <- Turns
    MAX_VERIFICATION_RETRIES = 1
    SMOKE_REPAIRS = 1
    MaxEdits = 2
    MaxOutside = 1
    ChildEdits = TRUE
    Model = {m1, m2}
    MaxFallbacks = 1
    MaxRequests = 1
    FAILURES_BEFORE_MODEL_SWITCH = 2
    MaxWithoutProgress <- WithoutProgress
    MaxTotal <- Total
    MAX_EMPTY_RESPONSE_RETRIES = 1
    MAX_OVERFLOW_RECOVERY_LEVEL = 1
    OVERFLOW_RECOVERY_KEPT_TURNS = 2
    MaxMessages = 4
    MaxTurns = 3
    MaxCompactions = 2
INVARIANTS
    VerifiedIsObserved
CHECK_DEADLOCK FALSE
