CONSTANTS
    Request = {r1, r2}
    MaxConcurrency = 1
    Frames = 3
    BodyCap = 1
SPECIFICATION FairSpec
INVARIANT LocalGetsTheWholeBody
INVARIANT TokensAreExact
INVARIANT DrainedIsIdle
INVARIANT OneAnswer
PROPERTY AcceptedEnds
