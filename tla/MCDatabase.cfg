\* Four requests of every kind: all interleavings of the handlers, the sweep
\* and restarts, over one lifetime of a draft; ids are reused.  And a server and
\* two commands on a database of any release.
SPECIFICATION MCSpec
CONSTANTS
    a = a
    b = b
    bad = bad
    Req = {r1, r2, r3, r4}
    NoReq = NoReq
    Kinds = {"ingest", "confirm", "discard", "purge", "create_task", "delete_task"}
    Entry = {a, b, bad}
    NoEntry = NoEntry
    ValidEntry = {a, b}
    Batches <- MCBatches
    TTL = 1
    MaxDrafts = 3
    MaxItems = 6
    MaxTime = 2
    Server = {srv}
    Cli = {c1, c2}
    Scripts = 3
    Keep = 0
    MaxSecond = 1
    MaxCrashes = 1
    NoOne = NoOne
SYMMETRY Symmetry
INVARIANTS
    RowsKnowTheirIngestion
    UnconfirmedWritesNothing
    ConfirmIsAllOrNothing
    RecordIsOneConfirm
    SchemaIsWhole
PROPERTIES
    LateConfirmRejected
    ConfirmedKeptUntilPurged
    LastBackupStays
