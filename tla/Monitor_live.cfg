SPECIFICATION LiveSpec
CONSTANTS
    Blocks <- OneTallest
    FirstNumber = 1
    BlockRetentionLimit = 3
    Trail = 0
    RetentionMin = 2
    Subscribers = {s1}
    Calls = {"Stop", "CancelRunContext"}
    StartBlockNumber = Nil
    Nil = Nil
    WithLogs = FALSE
    UnsubscribeOnStop = TRUE
    Uint64 = 65536
    MaxReorg = 2
    MaxRuns = 1
    MaxHeads = 3
INVARIANT ReorgFitsQueue
PROPERTY CatchesUp
PROPERTY StopReturns
CHECK_DEADLOCK FALSE
