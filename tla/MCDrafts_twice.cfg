\* Two confirmations of one draft that overlap.
SPECIFICATION Spec
CONSTANTS
    a = a
    b = b
    bad = bad
    Req = {r1, r2, r3}
    NoReq = NoReq
    Kinds = {"ingest", "confirm"}
    Entry = {a, b, bad}
    NoEntry = NoEntry
    ValidEntry = {a, b}
    Batches <- MCBatches
    TTL = 1
    MaxDrafts = 2
    MaxItems = 4
    MaxTime = 0
SYMMETRY Symmetry
INVARIANTS
    ConfirmedOnce
