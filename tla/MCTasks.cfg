\* Three requests of every kind beside a refresh of the page.
SPECIFICATION PageSpec
CONSTANTS
    u = u
    Req = {r1, r2, r3}
    Uuid = {u, Blank}
    Blank = Blank
    Due <- MCDue
    Priority <- MCPriority
    Nil = Nil
    Absent = Absent
    Ask <- MCAsk
    NoAsk = NoAsk
    NoReply = NoReply
    Tables <- MCTables
    MaxId = 4
    MaxTime = 1
    Refresh = {f1}
    Limit = 1
    NotRead = NotRead
SYMMETRY Symmetry
INVARIANTS
    RowsAreWhole
    CreatedOnce
    PanelShowsCompleted
PROPERTIES
    ImplementsStore
CHECK_DEADLOCK FALSE
