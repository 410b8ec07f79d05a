\* A caller that goes on calling while it is refused.
SPECIFICATION MCSpec
CONSTANTS
    k = k
    p1 = p1
    p2 = p2
    Save = {s1}
    Cli = {c1}
    Login = {l1}
    NoOne = NoOne
    Key = {k}
    NoKey = NoKey
    Keep = Keep
    Password = {p1, p2}
    NoPassword = NoPassword
    NoSecret = NoSecret
    NoAdapter = NoAdapter
    Ask <- MCAsk
    Commands = {"set-password"}
    File <- MCFile
    Caller = {k1, k2}
    Limit = 2
    Window = 5
    Grain = 2
    Second = 4
    Crowd = 1
    MaxTime = 9
    MaxCalls = 4
PROPERTIES
    RefusedCallsCount
CHECK_DEADLOCK FALSE
