\* A confirmation of a draft whose time is over.
SPECIFICATION Spec
CONSTANTS
    a = a
    b = b
    bad = bad
    Req = {r1, r2}
    NoReq = NoReq
    Kinds = {"ingest", "confirm"}
    Entry = {a, b, bad}
    NoEntry = NoEntry
    ValidEntry = {a, b}
    Batches <- MCBatches
    TTL = 1
    MaxDrafts = 2
    MaxItems = 4
    MaxTime = 2
SYMMETRY Symmetry
INVARIANTS
    ConfirmationHasRecord
