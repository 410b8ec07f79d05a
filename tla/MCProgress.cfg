\* The hourly sweep of the drafts; two ingestions of one image over two days
\* and the midnight after, in three zones; an extraction with two retries, a
\* budget two slow requests use up, and delays on both sides of their caps; and
\* a server and a command on a database of any release.
SPECIFICATION MCFairSpec
CONSTANTS
    a = a
    bad = bad
    Req = {r1, r2}
    NoReq = NoReq
    Kinds = {"ingest", "confirm", "discard", "purge"}
    Entry = {a, bad}
    NoEntry = NoEntry
    ValidEntry = {a}
    Batches <- MCBatches
    TTL = 1
    MaxDrafts = 2
    MaxItems = 2
    MaxTime = 3
    Upload = {u1, u2}
    Image = {i}
    Day = 2
    Zones <- MCZones
    Retentions <- MCRetentions
    MaxMoment = 4
    None = None
    RetryCount = 2
    Base = 1
    Budget = 5
    MaxBackoff = 3
    RetryCap = 2
    RetryAfters <- MCRetryAfters
    MaxLatency = 3
    Server = {srv}
    Cli = {c1}
    Scripts = 3
    Keep = 0
    MaxSecond = 1
    MaxCrashes = 1
    NoOne = NoOne
INVARIANTS
    HalvesAreAccountedFor
    RequestsBounded
    ChannelsInOrder
    ElapsedBounded
    FallbackIsLoud
PROPERTIES
    ServerComesUp
    KeptForRetention
    UnconfirmedDraftsExpire
    OldImagesGo
    Terminates
