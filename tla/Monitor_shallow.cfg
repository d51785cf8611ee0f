SPECIFICATION Spec
CONSTANTS
    Blocks <- ShallowForks
    FirstNumber = 2
    BlockRetentionLimit = 2
    Trail = 1
    RetentionMin = 2
    Subscribers = {s1}
    Calls = {}
    StartBlockNumber = 2
    Nil = Nil
    WithLogs = TRUE
    UnsubscribeOnStop = FALSE
    Uint64 = 65536
    MaxReorg = 1
    MaxRuns = 1
    MaxHeads = 4
INVARIANT NothingLost
INVARIANT FinalIsFinal
INVARIANT TrailsBehindHead
INVARIANT TrailHidesReorgs
CHECK_DEADLOCK FALSE
