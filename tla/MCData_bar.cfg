\* What saving the page back does to a name with a bar.
SPECIFICATION MCSpec
CONSTANTS
    Req = {r1, r2, r3}
    Put <- MCBarPut
    TotalWeeks = 18
    NotRead = NotRead
    NoPut = NoPut
    Requests = {}
    Raws = {}
    Limit = 2
    Moments = {}
    Bodies = {}
PROPERTIES
    TextCanBePutBack
CHECK_DEADLOCK FALSE
