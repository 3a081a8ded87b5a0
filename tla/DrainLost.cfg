CONSTANTS
    n1 = n1
    s1 = s1
    c1 = c1
    c2 = c2
    a1 = a1
    a2 = a2
    NoConn = NoConn
    Node = {n1}
    Serial = {s1}
    Conn = {c1}
    Admin = {a1}
    MaxAge = 2
    AdminOps = {"drain"}
    OwnerOf <- OneOwner
    SerialOf <- SameSerial
SPECIFICATION FairSpec
PROPERTIES
    DrainedIsNotScheduled
CHECK_DEADLOCK FALSE
