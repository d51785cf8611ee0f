SPECIFICATION Spec
CONSTANTS
    Streaming = {FALSE}
    SwitchToPolling = 2
    MayFail = FALSE
    MayStop = TRUE
    MaxHead = 2
    MaxErrors = 0
PROPERTY ClosesNextBlock
CHECK_DEADLOCK FALSE
