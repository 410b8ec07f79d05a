\* The retries of one channel and the request of the other.
SPECIFICATION MCFairSpec
CONSTANTS
    a = a
    bad = bad
    Req = {r1}
    NoReq = NoReq
    Kinds = {"ingest"}
    Entry = {a, bad}
    NoEntry = NoEntry
    ValidEntry = {a}
    Batches <- MCBatches
    TTL = 1
    MaxDrafts = 2
    MaxItems = 2
    MaxTime = 0
    Upload = {u1}
    Image = {i}
    Day = 2
    Zones <- MCZones
    Retentions <- MCRetentions
    MaxMoment = 0
    None = None
    RetryCount = 2
    Base = 1
    Budget = 5
    MaxBackoff = 3
    RetryCap = 2
    RetryAfters <- MCRetryAfters
    MaxLatency = 3
    Server = {srv}
    Cli = {c1}
    Scripts = 1
    Keep = 0
    MaxSecond = 0
    MaxCrashes = 0
    NoOne = NoOne
INVARIANT
    RequestTotal
