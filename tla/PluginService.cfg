SPECIFICATION FairSpec
CONSTANTS
    network = network
    time = time
    Units = {u1, u2}
    Main = server
    Subsystems = {network, time}
    Precondition = {network}
    Termination = {time}
    Objects = {o1, o2}
    NoObject = null
    MayFail = TRUE
    MaxChanges = 2
    MaxJobs = 3
INVARIANTS NoUseAfterFree CleanStop
PROPERTIES InTurn WaitingStarts
CHECK_DEADLOCK FALSE
