SPECIFICATION Spec
CONSTANTS
    Blocks <- ForkAtOne
    FirstNumber = 1
    BlockRetentionLimit = 2
    Trail = 0
    RetentionMin = 2
    Subscribers = {s1}
    Calls = {"Subscribe", "Unsubscribe"}
    StartBlockNumber = Nil
    Nil = Nil
    WithLogs = TRUE
    UnsubscribeOnStop = FALSE
    Uint64 = 65536
    MaxReorg = 3
    MaxRuns = 1
    MaxHeads = 3
INVARIANT TypeOK
INVARIANT ChainIsContiguous
INVARIANT UnwindFits
INVARIANT NeverPanics
INVARIANT NeverRejects
INVARIANT DeliveryIsLinked
