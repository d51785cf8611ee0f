SPECIFICATION Spec
CONSTANTS
    Blocks <- ForkAtOne
    FirstNumber = 0
    BlockRetentionLimit = 2
    Trail = 2
    RetentionMin = 2
    Subscribers = {s1}
    Calls = {"Subscribe", "Unsubscribe"}
    StartBlockNumber = 0
    Nil = Nil
    WithLogs = TRUE
    UnsubscribeOnStop = FALSE
    Uint64 = 65536
    MaxReorg = 3
    MaxRuns = 1
    MaxHeads = 3
INVARIANT TrailsBehindHead
