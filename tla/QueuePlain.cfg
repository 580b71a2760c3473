SPECIFICATION FairSpec
CONSTANTS
    p1 = p1
    p2 = p2
    c1 = c1
    c2 = c2
    owner = owner
    Threads = {p1, p2, c1, c2, owner}
    Entries = {a, b}
    MaxSlots = 2
    MaxLength = 4
    Calls <- PlainCalls
    Timed = {p2, c2}
    NoThread = nobody
    NoEntry = none
PROPERTIES ImplementsBuffer ConsumersProgress
CHECK_DEADLOCK FALSE
