CONSTANTS
    n1 = n1
    s1 = s1
    c1 = c1
    c2 = c2
    a1 = a1
    a2 = a2
    NoConn = NoConn
    Node = {n1}
    Serial = {s1}
    Conn = {c1, c2}
    Admin = {a1, a2}
    MaxAge = 0
    AdminOps = {"kick", "revoke"}
    OwnerOf <- OneOwner
    SerialOf <- SameSerial
SPECIFICATION Spec
SYMMETRY Symmetry
INVARIANTS
    RegistryEntryIsLive
    HandledIsRegistered
    RegisteredIsNotOffline
    ServedHasHandle
    RevokedCannotReconnect
