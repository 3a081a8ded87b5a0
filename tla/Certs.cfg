CONSTANTS
    Node = {n1, n2}
    Dest = {d1}
    MaxPairs = 4
    MaxInterrupts = 1
SPECIFICATION Spec
INVARIANT CAPairMatches
INVARIANT OpenIsOnDisk
INVARIANT CAKeyStays
INVARIANT DeployedAgentIsAccepted
