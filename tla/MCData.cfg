\* Three requests to the timetable, each of which reads, puts a body or puts
\* back an answer; and one call of each function on every input.
SPECIFICATION MCSpec
CONSTANTS
    Req = {r1, r2, r3}
    Put <- MCPut
    TotalWeeks = 18
    NotRead = NotRead
    NoPut = NoPut
    Requests <- MCRequests
    Raws <- MCRaws
    Limit = 2
    Moments <- MCMoments
    Bodies <- MCBodies
SYMMETRY Symmetry
INVARIANTS
    AnswersAddUp
    AccessFollowsPolicy
    NormalizedFollowsRules
    ContextTellsTheWeek
    RepliesAreRead
PROPERTIES
    PutIsWhole
    SavedBackChangesNothing
CHECK_DEADLOCK FALSE
