SPECIFICATION FairSpec
CONSTANTS
    a = a
    b = b
    Contents = {a, b}
    OneShot = {}
    MaxTime = 2
    MaxCalls = 4
    MayDestroy = TRUE
    Nothing = none
INVARIANTS Sorted WakesForHead
CHECK_DEADLOCK FALSE
PROPERTIES EntryLeaves RevivedByTimedOnly
