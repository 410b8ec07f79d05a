\* The same four requests, none between another's read and answer.
SPECIFICATION SoloSpec
CONSTANTS
    a = a
    b = b
    bad = bad
    Req = {r1, r2, r3, r4}
    NoReq = NoReq
    Kinds = {"ingest", "confirm", "discard", "purge"}
    Entry = {a, b, bad}
    NoEntry = NoEntry
    ValidEntry = {a, b}
    Batches <- MCBatches
    TTL = 1
    MaxDrafts = 3
    MaxItems = 6
    MaxTime = 2
SYMMETRY Symmetry
INVARIANTS
    ConfirmationHasRecord
    OutcomeIsOnRecord
PROPERTIES
    ImplementsLifecycle
