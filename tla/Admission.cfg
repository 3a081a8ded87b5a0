CONSTANTS
    Request = {r1, r2, r3}
    Node = {n1}
    NoNode = NoNode
    MaxConcurrency = 2
    QueueLength = 1
    Limits = {1, 2}
SPECIFICATION FairSpec
INVARIANTS
    WaitingIsExact
    SlotsAreExact
    ActiveIsExact
PROPERTIES
    NoOvercommit
    EveryRequestEnds
