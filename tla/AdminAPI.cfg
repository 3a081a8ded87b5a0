CONSTANTS
    Login = {l1, l2}
    Call = {c1, c2}
    Peer = {proxy}
    Trusted = {proxy}
    Client = {home}
    NoClient = NoClient
    Token = {t1}
    User = {root, eye}
    Readonly = {eye}
    NoUser = NoUser
    NoToken = NoToken
    MaxFails = 2
    Window = 2
    MaxRestarts = 1
SPECIFICATION FairSpec
INVARIANT TypeOK
INVARIANT FailuresAreBounded
INVARIANT StaleActsAreBounded
PROPERTY LockoutEnds
