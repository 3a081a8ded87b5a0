CONSTANTS
    Relays = 2
    PreferPrimary = TRUE
    Prober = {p1, p2}
    MaxVersion = 2
    MaxRequests = 1
SPECIFICATION FairSpec
INVARIANT ModelsAreKnown
PROPERTY BackToPrimary
PROPERTY StopEndsRun
