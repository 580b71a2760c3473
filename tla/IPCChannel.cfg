SPECIFICATION FairSpec
CONSTANTS
    c1 = c1
    c2 = c2
    c3 = c3
    Callers = {c1, c2, c3}
    Timed = {c1}
    Announcer = announcer
    Announcement = "awaited"
    Inbounds = {i1}
    MaxCalls = 2
    None = none
    Label <- MCLabel
INVARIANTS CallbackIsLive OwnAnswer
PROPERTIES CallReturns AnnounceEnds InboundAnswered
CHECK_DEADLOCK FALSE
