\* Two saves, two commands and a login beside starts and stops.  Two callers,
\* two calls per window, over two windows and a bit; a second is two tenths of
\* two ticks, so that the wait is rounded both ways.
SPECIFICATION MCSpec
CONSTANTS
    k = k
    p1 = p1
    p2 = p2
    Save = {s1, s2}
    Cli = {c1, c2}
    Login = {l1}
    NoOne = NoOne
    Key = {k}
    NoKey = NoKey
    Keep = Keep
    Password = {p1, p2}
    NoPassword = NoPassword
    NoSecret = NoSecret
    NoAdapter = NoAdapter
    Ask <- MCAsk
    Commands = {"init", "set-password"}
    File <- MCFile
    Caller = {k1, k2}
    Limit = 2
    Window = 5
    Grain = 2
    Second = 4
    Crowd = 1
    MaxTime = 9
    MaxCalls = 4
SYMMETRY Symmetry
INVARIANTS
    RunningIsReady
    SavedTakesEffect
    WindowRespected
PROPERTIES
    UpdatesAreMerged
    PasswordEndsSessions
    RefusedOnlyWhenFull
    RetryAfterSuffices
CHECK_DEADLOCK FALSE
