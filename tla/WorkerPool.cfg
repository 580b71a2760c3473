SPECIFICATION FairWorkerSpec
CONSTANTS
    c1 = c1
    j1 = j1
    j2 = j2
    N = 1
    Clients = {c1}
    Jobs = {j1, j2}
    MaxQueue = 3
    Timed = {}
    Plans = {"Block", "Run", "Stop"}
    Resubmit = TRUE
    Repeating = {j1}
    MaxTimed = 1
    NoJob = none
INVARIANTS CompletedIsIdle
PROPERTIES ScheduledRuns
CHECK_DEADLOCK FALSE
