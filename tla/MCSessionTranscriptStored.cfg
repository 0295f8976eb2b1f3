SPECIFICATION TranscriptSpec
CONSTANTS
    OVERFLOW_RECOVERY_KEPT_TURNS = 2
    MaxMessages = 5
    MaxTurns = 2
    MaxCompactions = 2
INVARIANTS
    TurnIsStored
CHECK_DEADLOCK FALSE
