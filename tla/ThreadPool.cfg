SPECIFICATION FairSpec
CONSTANTS
    c1 = c1
    c2 = c2
    j1 = j1
    j2 = j2
    N = 2
    Clients = {c1, c2}
    Jobs = {j1, j2}
    MaxQueue = 1
    Timed = {c2}
    Plans = {"Run", "Destroy"}
    Resubmit = FALSE
    NoJob = none
INVARIANTS SignalMeansDone
PROPERTIES ImplementsJobPool QueuedLeaves
CHECK_DEADLOCK FALSE
