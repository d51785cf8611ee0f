SPECIFICATION Spec
CONSTANTS
    Streaming = {TRUE, FALSE}
    SwitchToPolling = 2
    MayFail = TRUE
    MayStop = TRUE
    MaxHead = 2
    MaxErrors = 4
INVARIANT TypeOK
PROPERTY CatchesUp
PROPERTY StreamsAgain
PROPERTY Returns
CHECK_DEADLOCK FALSE
