SPECIFICATION FairThreadSpec
CONSTANTS
    c1 = c1
    c2 = c2
    Controllers = {c1, c2}
    Scripts <- AllScripts
    WorkerCalls = {"Block", "Run", "Stop"}
    Delays = {"finite", "infinite"}
    MayFail = TRUE
    NoOne = nobody
    Self = self
INVARIANTS BlockedMeansIdle
PROPERTIES NoWorkAfterStop TerminateReturns BlockDuringWork
CHECK_DEADLOCK FALSE
