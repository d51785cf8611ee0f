SPECIFICATION Spec
CONSTANTS
    Blocks <- ShortFork
    FirstNumber = 1
    BlockRetentionLimit = 1
    Trail = 1
    RetentionMin = 2
    Subscribers = {s1}
    Calls = {"Stop", "CancelRunContext", "PurgeHistory"}
    StartBlockNumber <- MinusOne
    Nil = Nil
    WithLogs = TRUE
    UnsubscribeOnStop = FALSE
    Uint64 = 65536
    MaxReorg = 3
    MaxRuns = 2
    MaxHeads = 1
INVARIANT ChainIsContiguous
INVARIANT NeverRejects
CHECK_DEADLOCK FALSE
