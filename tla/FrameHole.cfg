CONSTANTS
    Chunks = 2
    FrameCap = 1
    LinkBreaks = FALSE
    HasTTFT = TRUE
    HasIdle = TRUE
    HasDeadline = TRUE
SPECIFICATION Spec
INVARIANTS
    SuccessIsComplete
CHECK_DEADLOCK FALSE
