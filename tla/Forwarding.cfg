CONSTANTS
    Chunks = 3
    FrameCap = 2
    LinkBreaks = TRUE
    HasTTFT = TRUE
    HasIdle = TRUE
    HasDeadline = FALSE
SPECIFICATION FairSpec
INVARIANTS
    TypeOK
    BodyInOrder
    NothingProducedIsDropped
    HoleIsReported
PROPERTIES
    ForwardReturns
    CancelStopsAgent
CHECK_DEADLOCK FALSE
