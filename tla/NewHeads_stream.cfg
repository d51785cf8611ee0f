SPECIFICATION Spec
CONSTANTS
    Streaming = {TRUE}
    SwitchToPolling = 2
    MayFail = FALSE
    MayStop = FALSE
    MaxHead = 4
    MaxErrors = 0
PROPERTY HeadWakesLoop
CHECK_DEADLOCK FALSE
